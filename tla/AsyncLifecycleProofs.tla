-------------------------- MODULE AsyncLifecycleProofs --------------------------
(***************************************************************************)
(* Theorems about AsyncLifecycle, for any number of calls and threads and  *)
(* any depth.                                                              *)
(***************************************************************************)
EXTENDS AsyncLifecycle, SequenceTheorems, TLAPS

Spans == Futures \cup {NoSpan}
PollRecords == [future : Futures, base : Nat]

-----------------------------------------------------------------------------
(* The inductive invariant *)

\* Where a call comes from: an owned one runs in its owner's context, a spawned one
\* in the context it was given, any other in none.
OriginOK(f) ==
  /\ future[f].state = "none" => future[f] = NewFuture
  /\ future[f].state # "none" =>
       /\ future[f].captured # NotWrapped =>
            future[f].owner = NoFuture /\ future[f].captured = future[f].invoker
       /\ future[f].captured = NotWrapped /\ future[f].owner = NoFuture =>
            future[f].invoker = NoSpan
       /\ future[f].owner \in Futures =>
            /\ future[f].captured = NotWrapped
            /\ future[f].invoker = SpanOf(future[f].owner)
            /\ future[future[f].owner].state # "none"
       /\ future[f].started /\ future[f].kind # "plain" =>
            future[f].parent = future[f].invoker

\* The attached contexts of a thread end, for each poll, before those of the next.
Above(t, i) == IF i = Depth(t) THEN Len(thread[t].contexts) ELSE thread[t].polls[i + 1].base
SpanAt(contexts, n) == IF n = 0 THEN NoSpan ELSE contexts[n]

StackOK(t) ==
  /\ Depth(t) = 0 => thread[t].contexts = <<>>
  /\ Depth(t) > 0 => thread[t].polls[1].base = 0
  /\ \A i, j \in 1..Depth(t) : i <= j => thread[t].polls[i].base <= thread[t].polls[j].base
  /\ \A i \in 1..Depth(t) :
       LET poll == thread[t].polls[i] IN
       /\ poll.base <= Above(t, i)
       /\ Above(t, i) <= Len(thread[t].contexts)
       /\ SubSeq(thread[t].contexts, poll.base + 1, Above(t, i)) = Attached(<<>>, poll.future)
       /\ SpanAt(thread[t].contexts, Above(t, i)) = SpanOf(poll.future)

\* The polls of a thread: each call is awaited by the one before it.
PollsOK(t) ==
  \A i \in 1..Depth(t) :
    LET f == thread[t].polls[i].future IN
    /\ future[f].state = "polled"
    /\ future[f].started
    /\ future[f].owner = IF i = 1 THEN NoFuture ELSE thread[t].polls[i - 1].future

PolledOnce ==
  /\ \A t, u \in Threads : \A i \in 1..Depth(t), j \in 1..Depth(u) :
       thread[t].polls[i].future = thread[u].polls[j].future => t = u /\ i = j
  /\ \A f \in Futures : future[f].state = "polled" =>
       \E t \in Threads : \E i \in 1..Depth(t) : thread[t].polls[i].future = f

EndsOK ==
  /\ EndedIn(future) \subseteq ended
  /\ \A f \in ended :
       future[f].state = "done" /\ future[f].started /\ future[f].kind # "plain"

\* Nothing owned outlives its owner.
OwnedOK ==
  \A f \in Futures :
    /\ future[f].state # "none"
    /\ future[f].owner \in Futures
    /\ future[future[f].owner].state = "done"
    => future[f].state = "done"

IInv ==
  /\ TypeOK
  /\ \A f \in Futures : OriginOK(f)
  /\ \A t \in Threads : StackOK(t) /\ PollsOK(t)
  /\ PolledOnce
  /\ LifecycleIsExact
  /\ EndsOK
  /\ OwnedOK

USE AsyncAssumption DEF AsyncAssumption

-----------------------------------------------------------------------------
(* Operators *)

\* The bases of a thread's polls grow with their depth.
LEMMA BasesOrdered ==
  ASSUME NEW t \in Threads, StackOK(t)
  PROVE  \A i, j \in 1..Depth(t) : i <= j => thread[t].polls[i].base <= thread[t].polls[j].base
BY DEF StackOK

LEMMA ThreadType ==
  ASSUME TypeOK, NEW t \in Threads
  PROVE  /\ thread[t].polls \in Seq(PollRecords)
         /\ thread[t].contexts \in Seq(Spans)
         /\ thread[t].unwinding \in Nat
         /\ thread[t].unwinding <= Depth(t)
         /\ Depth(t) \in Nat
         /\ \A i \in 1..Depth(t) : /\ thread[t].polls[i].future \in Futures
                                   /\ thread[t].polls[i].base \in Nat
         /\ Depth(t) > 0 => Top(t) \in Futures
<1>1. thread[t] \in ThreadRecords /\ thread[t].unwinding <= Depth(t)
  BY DEF TypeOK
<1>2. /\ thread[t].polls \in Seq(PollRecords)
      /\ thread[t].contexts \in Seq(Spans)
      /\ thread[t].unwinding \in Nat
  BY <1>1 DEF ThreadRecords, Spans, PollRecords
<1>3. Depth(t) \in Nat
  BY <1>2, LenProperties DEF Depth
<1>4. \A i \in 1..Depth(t) : thread[t].polls[i] \in PollRecords
  BY <1>2, ElementOfSeq DEF Depth
<1>5. Depth(t) > 0 => Depth(t) \in 1..Depth(t)
  BY <1>3
<1> QED
  BY <1>1, <1>2, <1>3, <1>4, <1>5 DEF Top, PollRecords

\* What a poll of f adds to the contexts of the thread.
LEMMA AttachedAppends ==
  ASSUME TypeOK, NEW f \in Futures, NEW c \in Seq(Spans)
  PROVE  LET added == Attached(<<>>, f)
             all == Attached(c, f)
         IN  /\ added \in Seq(Spans) /\ all \in Seq(Spans)
             /\ Len(all) = Len(c) + Len(added)
             /\ \A k \in 1..Len(c) : all[k] = c[k]
             /\ \A k \in 1..Len(added) : all[Len(c) + k] = added[k]
<1>1. future[f].captured # NotWrapped => future[f].captured \in Spans
  BY DEF TypeOK, FutureRecords, Spans
<1>2. f \in Spans /\ <<>> \in Seq(Spans)
  BY DEF Spans
<1>3. CASE future[f].kind = "plain" /\ future[f].captured = NotWrapped
  BY <1>3 DEF Attached, WithCaptured
<1>4. ASSUME NEW x \in Spans
      PROVE  /\ <<x>> \in Seq(Spans) /\ Len(<<x>>) = 1 /\ <<x>>[1] = x
             /\ \A d \in Seq(Spans) : /\ Append(d, x) \in Seq(Spans)
                                      /\ Len(Append(d, x)) = Len(d) + 1
                                      /\ \A k \in 1..Len(d) : Append(d, x)[k] = d[k]
                                      /\ Append(d, x)[Len(d) + 1] = x
             /\ Append(<<>>, x) = <<x>>
  BY AppendProperties
<1>5. CASE future[f].kind = "plain" /\ future[f].captured # NotWrapped
  <2> DEFINE x == future[f].captured
             all == Append(c, x)
             added == <<x>>
  <2>1. Attached(<<>>, f) = added /\ Attached(c, f) = all /\ x \in Spans
    BY <1>1, <1>4, <1>5 DEF Attached, WithCaptured
  <2> HIDE DEF x
  <2>2. /\ added \in Seq(Spans) /\ Len(added) = 1 /\ added[1] = x
        /\ all \in Seq(Spans) /\ Len(all) = Len(c) + 1 /\ all[Len(c) + 1] = x
        /\ \A k \in 1..Len(c) : all[k] = c[k]
    BY <1>4, <2>1
  <2> HIDE DEF all, added
  <2>3. \A k \in 1..1 : k = 1
    OBVIOUS
  <2> QED
    BY <2>1, <2>2, <2>3
<1>6. CASE future[f].kind # "plain" /\ future[f].captured = NotWrapped
  <2> DEFINE all == Append(c, f)
             added == <<f>>
  <2>1. Attached(<<>>, f) = added /\ Attached(c, f) = all
    BY <1>2, <1>4, <1>6 DEF Attached, WithCaptured
  <2>2. /\ added \in Seq(Spans) /\ Len(added) = 1 /\ added[1] = f
        /\ all \in Seq(Spans) /\ Len(all) = Len(c) + 1 /\ all[Len(c) + 1] = f
        /\ \A k \in 1..Len(c) : all[k] = c[k]
    BY <1>2, <1>4
  <2> HIDE DEF all, added
  <2>3. \A k \in 1..1 : k = 1
    OBVIOUS
  <2> QED
    BY <2>1, <2>2, <2>3
<1>7. CASE future[f].kind # "plain" /\ future[f].captured # NotWrapped
  <2> DEFINE x == future[f].captured
             d == Append(c, x)
             all == Append(d, f)
             added == Append(<<x>>, f)
  <2>1. Attached(<<>>, f) = added /\ Attached(c, f) = all /\ x \in Spans
    BY <1>1, <1>4, <1>7 DEF Attached, WithCaptured
  <2> HIDE DEF x
  <2>2. /\ d \in Seq(Spans) /\ Len(d) = Len(c) + 1 /\ d[Len(c) + 1] = x
        /\ \A k \in 1..Len(c) : d[k] = c[k]
    BY <1>4, <2>1
  <2>3. Len(c) \in Nat
    BY LenProperties
  <2> HIDE DEF d
  <2>4. /\ all \in Seq(Spans) /\ Len(all) = Len(c) + 2 /\ all[Len(c) + 2] = f
        /\ \A k \in 1..(Len(c) + 1) : all[k] = d[k]
    BY <1>2, <1>4, <2>2, <2>3
  <2>5. added \in Seq(Spans) /\ Len(added) = 2 /\ added[1] = x /\ added[2] = f
    BY <1>2, <1>4, <2>1
  <2> HIDE DEF all, added
  <2>6. \A k \in 1..2 : k = 1 \/ k = 2
    OBVIOUS
  <2>7. \A k \in 1..Len(c) : all[k] = c[k]
    BY <2>2, <2>3, <2>4
  <2>8. all[Len(c) + 1] = x
    BY <2>2, <2>3, <2>4
  <2> QED
    BY <2>1, <2>4, <2>5, <2>6, <2>7, <2>8
<1> QED
  BY <1>3, <1>5, <1>6, <1>7

\* Sequences that agree up to n have the same parts up to n.
LEMMA SamePart ==
  ASSUME NEW S, NEW c \in Seq(S), NEW d \in Seq(S), NEW n \in Nat, n <= Len(c), n <= Len(d),
         \A k \in 1..n : c[k] = d[k],
         NEW a \in Nat, NEW b \in Nat, b <= n
  PROVE  SubSeq(c, a + 1, b) = SubSeq(d, a + 1, b)
<1>1. Len(c) \in Nat /\ Len(d) \in Nat
  BY LenProperties
<1>2. ASSUME NEW i \in (a + 1)..b PROVE c[i] \in S /\ d[i] \in S
  <2>1. i \in 1..Len(c) /\ i \in 1..Len(d)
    BY <1>1
  <2> QED
    BY <2>1, ElementOfSeq
<1>3. /\ SubSeq(c, a + 1, b) \in Seq(S)
      /\ Len(SubSeq(c, a + 1, b)) = IF a + 1 <= b THEN b - (a + 1) + 1 ELSE 0
      /\ \A i \in 1..(b - (a + 1) + 1) : SubSeq(c, a + 1, b)[i] = c[a + 1 + i - 1]
  BY <1>2, SubSeqProperties
<1>4. /\ SubSeq(d, a + 1, b) \in Seq(S)
      /\ Len(SubSeq(d, a + 1, b)) = IF a + 1 <= b THEN b - (a + 1) + 1 ELSE 0
      /\ \A i \in 1..(b - (a + 1) + 1) : SubSeq(d, a + 1, b)[i] = d[a + 1 + i - 1]
  BY <1>2, SubSeqProperties
<1>5. ASSUME NEW i \in 1..Len(SubSeq(c, a + 1, b))
      PROVE  SubSeq(c, a + 1, b)[i] = SubSeq(d, a + 1, b)[i]
  <2>1. i \in 1..(b - (a + 1) + 1) /\ a + 1 + i - 1 \in 1..n
    BY <1>3
  <2> QED
    BY <1>3, <1>4, <2>1
<1> QED
  BY <1>3, <1>4, <1>5, SeqEqual

\* The last part of a sequence that was appended to.
LEMMA AddedPart ==
  ASSUME NEW S, NEW c \in Seq(S), NEW added \in Seq(S), NEW all \in Seq(S),
         Len(all) = Len(c) + Len(added),
         \A k \in 1..Len(added) : all[Len(c) + k] = added[k]
  PROVE  SubSeq(all, Len(c) + 1, Len(all)) = added
<1> DEFINE part == SubSeq(all, Len(c) + 1, Len(all))
<1>1. Len(c) \in Nat /\ Len(added) \in Nat
  BY LenProperties
<1>2. ASSUME NEW i \in (Len(c) + 1)..Len(all) PROVE all[i] \in S
  <2>1. i \in 1..Len(all)
    BY <1>1
  <2> QED
    BY <2>1, ElementOfSeq
<1>3. /\ part \in Seq(S)
      /\ Len(part) = IF Len(c) + 1 <= Len(all) THEN Len(all) - (Len(c) + 1) + 1 ELSE 0
      /\ \A i \in 1..(Len(all) - (Len(c) + 1) + 1) : part[i] = all[Len(c) + 1 + i - 1]
  BY <1>1, <1>2, SubSeqProperties
<1>4. Len(part) = Len(added)
  BY <1>1, <1>3
<1>5. ASSUME NEW i \in 1..Len(part) PROVE part[i] = added[i]
  <2>1. i \in 1..(Len(all) - (Len(c) + 1) + 1) /\ Len(c) + 1 + i - 1 = Len(c) + i
    BY <1>1, <1>3
  <2> QED
    BY <1>3, <1>4, <2>1
<1> QED
  BY <1>3, <1>4, <1>5, SeqEqual

LEMMA PrefixIs ==
  ASSUME NEW S, NEW c \in Seq(S), NEW n \in Nat, n <= Len(c)
  PROVE  /\ SubSeq(c, 1, n) \in Seq(S)
         /\ Len(SubSeq(c, 1, n)) = n
         /\ \A k \in 1..n : SubSeq(c, 1, n)[k] = c[k]
<1>1. Len(c) \in Nat
  BY LenProperties
<1>2. \A i \in 1..n : c[i] \in S
  BY <1>1, ElementOfSeq
<1>3. /\ SubSeq(c, 1, n) \in Seq(S)
      /\ Len(SubSeq(c, 1, n)) = IF 1 <= n THEN n - 1 + 1 ELSE 0
      /\ \A i \in 1..(n - 1 + 1) : SubSeq(c, 1, n)[i] = c[1 + i - 1]
  BY <1>2, SubSeqProperties
<1> QED
  BY <1>3

-----------------------------------------------------------------------------
(* What stays as it is *)

\* What a call is, once made, does not change; what was polled once stays so.
Keeps ==
  \A f \in Futures :
    future[f].state # "none" =>
      /\ future'[f].state # "none"
      /\ future'[f].kind = future[f].kind
      /\ future'[f].captured = future[f].captured
      /\ future'[f].owner = future[f].owner
      /\ future'[f].invoker = future[f].invoker
      /\ future[f].started => future'[f].started

SamePolled == \A f \in Futures : future'[f].state = "polled" <=> future[f].state = "polled"

LEMMA SameForms ==
  ASSUME Keeps, NEW f \in Futures, future[f].state # "none"
  PROVE  SpanOf(f)' = SpanOf(f) /\ Attached(<<>>, f)' = Attached(<<>>, f)
<1>1. /\ future'[f].kind = future[f].kind
      /\ future'[f].captured = future[f].captured
      /\ future'[f].invoker = future[f].invoker
  BY DEF Keeps
<1> QED
  BY <1>1 DEF SpanOf, Attached, WithCaptured

LEMMA PolledExists ==
  ASSUME TypeOK, NEW t \in Threads, PollsOK(t), NEW i \in 1..Depth(t)
  PROVE  /\ thread[t].polls[i].future \in Futures
         /\ thread[t].polls[i].base \in Nat
         /\ future[thread[t].polls[i].future].state = "polled"
         /\ future[thread[t].polls[i].future].started
BY ThreadType DEF PollsOK

LEMMA StackStays ==
  ASSUME TypeOK, Keeps, NEW t \in Threads, StackOK(t), PollsOK(t),
         thread'[t].polls = thread[t].polls, thread'[t].contexts = thread[t].contexts
  PROVE  StackOK(t)'
<1>1. Depth(t)' = Depth(t) /\ \A i \in 1..Depth(t) : Above(t, i)' = Above(t, i)
  BY DEF Depth, Above
<1>2. ASSUME NEW i \in 1..Depth(t)
      PROVE  /\ SpanOf(thread[t].polls[i].future)' = SpanOf(thread[t].polls[i].future)
             /\ Attached(<<>>, thread[t].polls[i].future)'
                  = Attached(<<>>, thread[t].polls[i].future)
  <2> DEFINE f == thread[t].polls[i].future
  <2>1. f \in Futures /\ future[f].state # "none" /\ thread'[t].polls[i].future = f
    BY PolledExists
  <2>2. SpanOf(f)' = SpanOf(thread[t].polls[i].future)'
    BY <2>1
  <2> QED
    BY <2>1, SameForms DEF SpanOf, Attached, WithCaptured
<1> QED
  BY <1>1, <1>2 DEF StackOK, SpanAt

LEMMA PollsStay ==
  ASSUME TypeOK, Keeps, NEW t \in Threads, PollsOK(t),
         thread'[t].polls = thread[t].polls,
         \A i \in 1..Depth(t) : future'[thread[t].polls[i].future].state = "polled"
  PROVE  PollsOK(t)'
<1>1. Depth(t)' = Depth(t)
  BY DEF Depth
<1>2. ASSUME NEW i \in 1..Depth(t)
      PROVE  /\ future'[thread[t].polls[i].future].started
             /\ future'[thread[t].polls[i].future].owner
                  = future[thread[t].polls[i].future].owner
  BY PolledExists DEF Keeps
<1> QED
  BY <1>1, <1>2 DEF PollsOK

\* The last poll returns, and its contexts are detached.
LEMMA StackReturns ==
  ASSUME TypeOK, Keeps, NEW t \in Threads, StackOK(t), PollsOK(t), Depth(t) > 0,
         thread'[t].polls = SubSeq(thread[t].polls, 1, Depth(t) - 1),
         thread'[t].contexts = SubSeq(thread[t].contexts, 1, thread[t].polls[Depth(t)].base)
  PROVE  /\ StackOK(t)'
         /\ Depth(t)' = Depth(t) - 1
         /\ thread'[t].polls \in Seq(PollRecords)
         /\ thread'[t].contexts \in Seq(Spans)
         /\ \A i \in 1..(Depth(t) - 1) : thread'[t].polls[i] = thread[t].polls[i]
<1> DEFINE d == Depth(t)
           base == thread[t].polls[d].base
           c == thread[t].contexts
           p == thread[t].polls
<1>1. /\ p \in Seq(PollRecords) /\ c \in Seq(Spans) /\ d \in Nat
      /\ d = Len(p) /\ base \in Nat
  BY ThreadType DEF Depth
<1>2. base <= Len(c)
  <2>1. d \in 1..d
    BY <1>1
  <2>2. base <= Above(t, d) /\ Above(t, d) = Len(c)
    BY <2>1 DEF StackOK, Above
  <2> QED
    BY <2>2
<1>3. /\ thread'[t].contexts \in Seq(Spans)
      /\ Len(thread'[t].contexts) = base
      /\ \A k \in 1..base : thread'[t].contexts[k] = c[k]
  BY <1>1, <1>2, PrefixIs
<1>4. /\ thread'[t].polls \in Seq(PollRecords)
      /\ Len(thread'[t].polls) = d - 1
      /\ \A k \in 1..(d - 1) : thread'[t].polls[k] = p[k]
  <2>1. d - 1 \in Nat /\ d - 1 <= Len(p)
    BY <1>1
  <2> QED
    BY <1>1, <2>1, PrefixIs
<1>5. Depth(t)' = d - 1
  BY <1>4 DEF Depth
<1>6. \A i \in 1..(d - 1) : Above(t, i)' = Above(t, i)
  <2>1. ASSUME NEW i \in 1..(d - 1), i = d - 1
        PROVE  Above(t, i)' = base /\ Above(t, i) = base
    BY <1>1, <1>3, <1>5, <2>1 DEF Above
  <2>2. ASSUME NEW i \in 1..(d - 1), i # d - 1
        PROVE  Above(t, i)' = Above(t, i)
    <3>1. i + 1 \in 1..(d - 1) /\ i # d
      BY <1>1, <2>2
    <3> QED
      BY <1>4, <1>5, <2>2, <3>1 DEF Above
  <2> QED
    BY <2>1, <2>2
<1>7. \A i \in 1..(d - 1) : Above(t, i) \in Nat /\ Above(t, i) <= base
  <2> DEFINE B(i) == Above(t, i)
  <2>1. \A i \in 1..(d - 1) : Above(t, i) = p[i + 1].base /\ i + 1 \in 1..d
    BY <1>1 DEF Above
  <2>2. \A i \in 1..d : p[i].base \in Nat /\ p[i].base <= base
    <3>1. d \in 1..d /\ \A i \in 1..d : i <= d
      BY <1>1
    <3>2. \A i \in 1..d : p[i].base \in Nat
      BY ThreadType
    <3>3. \A i, j \in 1..d : i <= j => p[i].base <= p[j].base
      BY BasesOrdered
    <3>4. \A i \in 1..d : p[i].base <= base
      BY <3>1, <3>3, Zenon
    <3> QED
      BY <3>2, <3>4, Zenon
  <2> QED
    BY <2>1, <2>2
<1>8. ASSUME NEW i \in 1..(d - 1)
      PROVE  (LET poll == thread[t].polls[i] IN
              /\ poll.base <= Above(t, i)
              /\ Above(t, i) <= Len(thread[t].contexts)
              /\ SubSeq(thread[t].contexts, poll.base + 1, Above(t, i))
                   = Attached(<<>>, poll.future)
              /\ SpanAt(thread[t].contexts, Above(t, i)) = SpanOf(poll.future))'
  <2> DEFINE f == p[i].future
  <2>1. i \in 1..d /\ thread'[t].polls[i] = p[i]
    BY <1>1, <1>4
  <2>2. /\ f \in Futures /\ p[i].base \in Nat /\ future[f].state # "none"
    BY <2>1, PolledExists
  <2>3. /\ p[i].base <= Above(t, i)
        /\ SubSeq(c, p[i].base + 1, Above(t, i)) = Attached(<<>>, f)
        /\ SpanAt(c, Above(t, i)) = SpanOf(f)
    BY <2>1 DEF StackOK
  <2>4. /\ future'[f].kind = future[f].kind
        /\ future'[f].captured = future[f].captured
        /\ future'[f].invoker = future[f].invoker
    BY <2>2 DEF Keeps
  <2>5. SubSeq(thread'[t].contexts, p[i].base + 1, Above(t, i))
          = SubSeq(c, p[i].base + 1, Above(t, i))
    <3> DEFINE e == thread'[t].contexts
    <3>1. /\ e \in Seq(Spans) /\ base <= Len(e) /\ \A k \in 1..base : e[k] = c[k]
      BY <1>1, <1>3
    <3> HIDE DEF e
    <3> DEFINE from == p[i].base
               to == Above(t, i)
               n == base
    <3>2. from \in Nat /\ to \in Nat /\ to <= n /\ n \in Nat /\ n <= Len(c) /\ n <= Len(e)
          /\ \A k \in 1..n : e[k] = c[k]
      BY <1>1, <1>2, <1>7, <2>2, <3>1
    <3>3. c \in Seq(Spans) /\ e \in Seq(Spans)
      BY <1>1, <3>1
    <3> HIDE DEF from, to, n, c
    <3>4. SubSeq(e, from + 1, to) = SubSeq(c, from + 1, to)
      BY <3>2, <3>3, SamePart
    <3> QED
      BY <3>4 DEF e, c, from, to
  <2>6. SpanAt(thread'[t].contexts, Above(t, i)) = SpanAt(c, Above(t, i))
    BY <1>3, <1>7 DEF SpanAt
  <2>7. Above(t, i)' = Above(t, i) /\ Above(t, i) <= Len(thread'[t].contexts)
    BY <1>3, <1>6, <1>7
  <2>8. /\ SpanOf(thread[t].polls[i].future)' = SpanOf(f)
        /\ Attached(<<>>, thread[t].polls[i].future)' = Attached(<<>>, f)
    BY <2>1, <2>4 DEF SpanOf, Attached, WithCaptured
  <2> HIDE DEF f
  <2> QED
    BY <2>1, <2>3, <2>5, <2>6, <2>7, <2>8 DEF f, SpanAt
<1>9. d - 1 = 0 => thread'[t].contexts = <<>>
  <2>1. d - 1 = 0 => base = 0
    BY <1>1 DEF StackOK
  <2> QED
    BY <1>3, <2>1, EmptySeq
<1>10. d - 1 > 0 => thread'[t].polls[1].base = 0
  BY <1>1, <1>4 DEF StackOK
<1>11. \A i, j \in 1..(d - 1) :
         i <= j => thread'[t].polls[i].base <= thread'[t].polls[j].base
  <2>1. \A i \in 1..(d - 1) : i \in 1..d
    BY <1>1
  <2>2. \A i, j \in 1..d : i <= j => p[i].base <= p[j].base
    BY DEF StackOK
  <2> QED
    BY <1>4, <2>1, <2>2
<1>12. StackOK(t)'
  BY <1>5, <1>8, <1>9, <1>10, <1>11 DEF StackOK
<1> QED
  BY <1>3, <1>4, <1>5, <1>12

LEMMA PollsReturn ==
  ASSUME TypeOK, Keeps, NEW t \in Threads, PollsOK(t), Depth(t) > 0,
         Depth(t)' = Depth(t) - 1,
         \A i \in 1..(Depth(t) - 1) : /\ thread'[t].polls[i] = thread[t].polls[i]
                                      /\ future'[thread[t].polls[i].future].state = "polled"
  PROVE  PollsOK(t)'
<1>1. Depth(t) \in Nat
  BY ThreadType
<1>2. ASSUME NEW i \in 1..(Depth(t) - 1)
      PROVE  (LET f == thread[t].polls[i].future IN
              /\ future[f].state = "polled"
              /\ future[f].started
              /\ future[f].owner = IF i = 1 THEN NoFuture ELSE thread[t].polls[i - 1].future)'
  <2> DEFINE f == thread[t].polls[i].future
  <2>1. i \in 1..Depth(t) /\ thread'[t].polls[i] = thread[t].polls[i]
    BY <1>1
  <2>2. f \in Futures /\ future[f].state # "none" /\ future[f].started
    BY <2>1, PolledExists
  <2>3. future'[f].owner = future[f].owner /\ future'[f].started
    BY <2>2 DEF Keeps
  <2>4. i # 1 => thread'[t].polls[i - 1] = thread[t].polls[i - 1]
    <3>1. i # 1 => i - 1 \in 1..(Depth(t) - 1)
      BY <1>1
    <3> QED
      BY <3>1
  <2>5. future[f].owner = IF i = 1 THEN NoFuture ELSE thread[t].polls[i - 1].future
    BY <2>1 DEF PollsOK
  <2> QED
    BY <2>1, <2>3, <2>4, <2>5
<1> QED
  BY <1>2 DEF PollsOK

LEMMA OnceStays ==
  ASSUME PolledOnce, SamePolled, \A t \in Threads : thread'[t].polls = thread[t].polls
  PROVE  PolledOnce'
<1>1. \A t \in Threads : Depth(t)' = Depth(t)
  BY DEF Depth
<1> QED
  BY <1>1 DEF PolledOnce, SamePolled

LEMMA OnceReturns ==
  ASSUME TypeOK, PolledOnce, NEW t \in Threads, PollsOK(t), Depth(t) > 0,
         Depth(t)' = Depth(t) - 1,
         \A i \in 1..(Depth(t) - 1) : thread'[t].polls[i] = thread[t].polls[i],
         \A u \in Threads : u # t => thread'[u].polls = thread[u].polls,
         \A g \in Futures : g # Top(t) =>
           (future'[g].state = "polled" <=> future[g].state = "polled"),
         future'[Top(t)].state # "polled"
  PROVE  PolledOnce'
<1>1. Depth(t) \in Nat /\ Depth(t) \in 1..Depth(t)
  BY ThreadType
<1>2. \A u \in Threads : u # t => Depth(u)' = Depth(u)
  BY DEF Depth
<1>3. \A u \in Threads : \A i \in 1..Depth(u)' :
        i \in 1..Depth(u) /\ thread'[u].polls[i] = thread[u].polls[i]
  BY <1>1, <1>2
<1>4. ASSUME NEW f \in Futures, future'[f].state = "polled"
      PROVE  \E u \in Threads : \E i \in 1..Depth(u)' : thread'[u].polls[i].future = f
  <2>1. f # Top(t) /\ future[f].state = "polled"
    BY <1>4
  <2>2. PICK u \in Threads : \E i \in 1..Depth(u) : thread[u].polls[i].future = f
    BY <2>1 DEF PolledOnce
  <2>3. PICK i \in 1..Depth(u) : thread[u].polls[i].future = f
    BY <2>2
  <2>4. i \in 1..Depth(u)'
    <3>1. CASE u = t
      <4>1. i # Depth(t)
        BY <2>1, <2>3, <3>1 DEF Top
      <4> QED
        BY <1>1, <3>1, <4>1
    <3>2. CASE u # t
      BY <1>2, <3>2
    <3> QED
      BY <3>1, <3>2
  <2> QED
    BY <1>3, <2>3, <2>4
<1>5. ASSUME NEW u \in Threads, NEW v \in Threads,
             NEW i \in 1..Depth(u)', NEW j \in 1..Depth(v)',
             thread'[u].polls[i].future = thread'[v].polls[j].future
      PROVE  u = v /\ i = j
  <2>1. /\ i \in 1..Depth(u) /\ j \in 1..Depth(v)
        /\ thread[u].polls[i].future = thread[v].polls[j].future
    BY <1>3, <1>5
  <2> QED
    BY <2>1 DEF PolledOnce
<1> QED
  BY <1>4, <1>5 DEF PolledOnce

-----------------------------------------------------------------------------
(* The end of a future *)

Fates == {"ok", "err", "panicked", "dropped"}

LEMMA GoneRecord ==
  ASSUME NEW r \in FutureRecords, NEW fate \in Fates, NEW panicking \in BOOLEAN,
         fate # "dropped" => r.started,
         fate = "panicked" => panicking
  PROVE  LET gone == Gone(r, fate, panicking) IN
         /\ gone \in FutureRecords
         /\ gone.state = "done"
         /\ gone.kind = r.kind /\ gone.owner = r.owner /\ gone.captured = r.captured
         /\ gone.started = r.started /\ gone.parent = r.parent /\ gone.invoker = r.invoker
         /\ gone.kind = "dependency" =>
              /\ gone.fate \in {"ok", "err"} <=> gone.outcome = "completed"
              /\ gone.fate = "panicked" => gone.outcome = "unwound"
              /\ gone.outcome = "none" <=> ~gone.started
              /\ gone.error <=> gone.fate = "err"
<1> DEFINE gone == Gone(r, fate, panicking)
           guarded == r.started /\ r.kind = "dependency"
           outcome == IF guarded THEN OutcomeOf(fate \in {"ok", "err"}, panicking) ELSE "none"
           error == r.started /\ r.kind # "plain" /\ fate = "err"
           completed == fate \in {"ok", "err"}
<1>1. /\ gone = [r EXCEPT !.state = "done", !.fate = fate, !.completed = completed,
                          !.error = error, !.outcome = outcome]
      /\ completed \in BOOLEAN /\ error \in BOOLEAN
  BY DEF Gone
<1>2. outcome \in {"none", "completed", "unwound", "cancelled"}
  BY DEF OutcomeOf
<1>3. /\ completed /\ guarded => outcome = "completed"
      /\ guarded /\ ~completed => outcome \in {"unwound", "cancelled"}
      /\ guarded /\ ~completed /\ panicking => outcome = "unwound"
      /\ ~guarded => outcome = "none"
  BY DEF OutcomeOf
<1> HIDE DEF gone, outcome, error, completed
<1>4. /\ gone.state = "done" /\ gone.fate = fate /\ gone.completed = completed
      /\ gone.error = error /\ gone.outcome = outcome
      /\ gone.kind = r.kind /\ gone.owner = r.owner /\ gone.captured = r.captured
      /\ gone.started = r.started /\ gone.parent = r.parent /\ gone.invoker = r.invoker
      /\ gone \in FutureRecords
  <2>1. r \in [state : {"none", "created", "polled", "suspended", "done"},
               kind : Kinds, owner : Futures \cup {NoFuture},
               captured : Futures \cup {NoSpan, NotWrapped}, started : BOOLEAN,
               parent : Futures \cup {NoSpan}, completed : BOOLEAN,
               outcome : {"none", "completed", "unwound", "cancelled"}, error : BOOLEAN,
               fate : {"none", "ok", "err", "panicked", "dropped"},
               invoker : Futures \cup {NoSpan}]
    BY DEF FutureRecords
  <2>2. fate \in {"none", "ok", "err", "panicked", "dropped"}
    BY DEF Fates
  <2>3. /\ gone.state = "done" /\ gone.fate = fate /\ gone.completed = completed
        /\ gone.error = error /\ gone.outcome = outcome
    BY <1>1, <2>1
  <2>4. /\ gone.kind = r.kind /\ gone.owner = r.owner /\ gone.captured = r.captured
        /\ gone.started = r.started /\ gone.parent = r.parent /\ gone.invoker = r.invoker
    BY <1>1, <2>1
  <2>5. gone \in FutureRecords
    <3>1. gone = [state |-> "done", kind |-> r.kind, owner |-> r.owner,
                  captured |-> r.captured, started |-> r.started, parent |-> r.parent,
                  completed |-> completed, outcome |-> outcome, error |-> error,
                  fate |-> fate, invoker |-> r.invoker]
      BY <1>1, <2>1
    <3>2. /\ r.kind \in Kinds /\ r.owner \in Futures \cup {NoFuture}
          /\ r.captured \in Futures \cup {NoSpan, NotWrapped} /\ r.started \in BOOLEAN
          /\ r.parent \in Futures \cup {NoSpan} /\ r.invoker \in Futures \cup {NoSpan}
      BY <2>1
    <3> QED
      BY <1>1, <1>2, <2>2, <3>1, <3>2 DEF FutureRecords
  <2> QED
    BY <2>3, <2>4, <2>5
<1>5. r.started \in BOOLEAN
  BY DEF FutureRecords
<1>6. /\ completed <=> fate \in {"ok", "err"}
      /\ error <=> r.started /\ r.kind # "plain" /\ fate = "err"
  BY DEF completed, error
<1> QED
  BY <1>3, <1>4, <1>5, <1>6 DEF gone, Fates

\* What a future leaves is not being polled: polled calls are owned by polled ones.
LEMMA LeftoversNotPolled ==
  ASSUME TypeOK, PolledOnce, \A t \in Threads : PollsOK(t), NEW f \in Futures,
         future[f].state = "polled" => \E t \in Threads : Depth(t) > 0 /\ f = Top(t)
  PROVE  \A g \in Leftovers(f) : future[g].state # "polled"
<1> DEFINE S == {h \in Futures : future[h].state # "polled" \/ h = f}
<1>1. ASSUME NEW g \in Futures, future[g].state = "polled", future[g].owner \in S, g # f
      PROVE  FALSE
  <2>1. PICK u \in Threads : \E j \in 1..Depth(u) : thread[u].polls[j].future = g
    BY <1>1 DEF PolledOnce
  <2>2. PICK j \in 1..Depth(u) : thread[u].polls[j].future = g
    BY <2>1
  <2>3. Depth(u) \in Nat
    BY ThreadType
  <2>4. j # 1 /\ future[g].owner = thread[u].polls[j - 1].future
    <3>1. future[g].owner = IF j = 1 THEN NoFuture ELSE thread[u].polls[j - 1].future
      BY <2>2 DEF PollsOK
    <3> QED
      BY <1>1, <3>1
  <2>5. j - 1 \in 1..Depth(u)
    BY <2>3, <2>4
  <2>6. future[thread[u].polls[j - 1].future].state = "polled"
    BY <2>5, PolledExists
  <2>7. thread[u].polls[j - 1].future = f
    BY <1>1, <2>4, <2>6
  <2>8. PICK t \in Threads : Depth(t) > 0 /\ f = Top(t)
    BY <2>6, <2>7
  <2>9. Depth(t) \in Nat /\ Depth(t) \in 1..Depth(t) /\ thread[t].polls[Depth(t)].future = f
    BY <2>8, ThreadType DEF Top
  <2>10. u = t /\ j - 1 = Depth(t)
    BY <2>5, <2>7, <2>9 DEF PolledOnce
  <2> QED
    BY <2>3, <2>10
<1>2. S \in SUBSET Futures /\ f \in S
  OBVIOUS
<1>3. \A g \in Futures : future[g].state # "none" /\ future[g].owner \in S => g \in S
  BY <1>1
<1>4. \A g \in Parts(f) : g \in S
  BY <1>2, <1>3 DEF Parts
<1> QED
  BY <1>4 DEF Leftovers

\* The parts of f that are not f itself are closed too.
LEMMA PartsClosed ==
  ASSUME NEW f \in Futures
  PROVE  /\ f \in Parts(f)
         /\ \A g \in Futures :
              future[g].state # "none" /\ future[g].owner \in Parts(f) => g \in Parts(f)
BY DEF Parts

LEMMA Finish ==
  ASSUME IInv, NEW f \in Futures, Alive(f),
         NEW fate \in Fates, NEW panicking \in BOOLEAN,
         future' = After(f, fate, Leftovers(f), panicking),
         ended' = ended \cup EndedIn(future'),
         future[f].state = "polled" => \E t \in Threads : Depth(t) > 0 /\ f = Top(t),
         fate # "dropped" => future[f].started,
         fate = "panicked" => panicking
  PROVE  /\ future' \in [Futures -> FutureRecords]
         /\ ended' \in SUBSET Futures
         /\ Keeps
         /\ \A g \in Futures : OriginOK(g)'
         /\ LifecycleIsExact' /\ EndsOK' /\ OwnedOK'
         /\ future'[f].state = "done"
         /\ \A g \in Futures : g # f =>
              (future'[g].state = "polled" <=> future[g].state = "polled")
<1> DEFINE lost == Leftovers(f)
<1>1. \A g \in Futures : future[g] \in FutureRecords
  BY DEF IInv, TypeOK
<1>2. \A g \in lost : g \in Futures /\ g # f /\ Alive(g) /\ future[g].state # "polled"
  <2>1. TypeOK /\ PolledOnce /\ \A t \in Threads : PollsOK(t)
    BY DEF IInv
  <2>2. \A g \in lost : future[g].state # "polled"
    BY <2>1, LeftoversNotPolled
  <2>3. \A g \in lost : g \in Futures /\ g # f /\ Alive(g)
    BY DEF Leftovers, Parts
  <2> QED
    BY <2>2, <2>3
<1>3. ASSUME NEW g \in Futures
      PROVE  /\ g = f => future'[g] = Gone(future[g], fate, panicking)
             /\ g \in lost => future'[g] = Gone(future[g], "dropped", panicking)
             /\ g # f /\ g \notin lost => future'[g] = future[g]
  BY <1>2 DEF After
<1>4. ASSUME NEW g \in Futures, g \in lost \cup {f}
      PROVE  /\ future'[g] \in FutureRecords
             /\ future'[g].state = "done" /\ Alive(g)
             /\ future'[g].kind = future[g].kind /\ future'[g].owner = future[g].owner
             /\ future'[g].captured = future[g].captured
             /\ future'[g].started = future[g].started
             /\ future'[g].parent = future[g].parent
             /\ future'[g].invoker = future[g].invoker
             /\ future'[g].kind = "dependency" =>
                  /\ future'[g].fate \in {"ok", "err"} <=> future'[g].outcome = "completed"
                  /\ future'[g].fate = "panicked" => future'[g].outcome = "unwound"
                  /\ future'[g].outcome = "none" <=> ~future'[g].started
                  /\ future'[g].error <=> future'[g].fate = "err"
  <2>1. CASE g = f
    BY <1>1, <1>3, <2>1, GoneRecord
  <2>2. CASE g \in lost
    <3>1. "dropped" \in Fates
      BY DEF Fates
    <3> QED
      BY <1>1, <1>2, <1>3, <2>2, <3>1, GoneRecord
  <2> QED
    BY <1>4, <2>1, <2>2
<1>5. ASSUME NEW g \in Futures, g \notin lost \cup {f}
      PROVE  future'[g] = future[g]
  BY <1>3, <1>5
<1>6. \A g \in Futures : Alive(g) /\ g \in Parts(f) => g \in lost \cup {f}
  BY DEF Leftovers
<1> HIDE DEF lost
<1>7. future' \in [Futures -> FutureRecords]
  <2>1. future' = [g \in Futures |-> future'[g]]
    BY DEF After
  <2>2. \A g \in Futures : future'[g] \in FutureRecords
    BY <1>1, <1>4, <1>5
  <2> QED
    BY <2>1, <2>2
<1>8. ended' \in SUBSET Futures
  BY DEF IInv, TypeOK, EndedIn
<1>9. \A g \in Futures :
        /\ future'[g].kind = future[g].kind /\ future'[g].owner = future[g].owner
        /\ future'[g].captured = future[g].captured
        /\ future'[g].started = future[g].started
        /\ future'[g].parent = future[g].parent
        /\ future'[g].invoker = future[g].invoker
        /\ future'[g].state # "none" <=> future[g].state # "none"
        /\ future[g].state = "done" => future'[g].state = "done"
  BY <1>4, <1>5 DEF Alive
<1>10. Keeps
  BY <1>9 DEF Keeps
<1>11. ASSUME NEW g \in Futures PROVE OriginOK(g)'
  <2>1. OriginOK(g)
    BY DEF IInv
  <2>2. future'[g].state = "none" => future'[g] = future[g]
    BY <1>4, <1>5
  <2>3. future[g].owner \in Futures => SpanOf(future[g].owner)' = SpanOf(future[g].owner)
    BY <1>9 DEF SpanOf
  <2> QED
    BY <1>9, <2>1, <2>2, <2>3 DEF OriginOK, SpanOf
<1>12. LifecycleIsExact'
  <2>1. ASSUME NEW g \in Futures, future'[g].state = "done", future'[g].kind = "dependency"
        PROVE  /\ future'[g].fate \in {"ok", "err"} <=> future'[g].outcome = "completed"
               /\ future'[g].fate = "panicked" => future'[g].outcome = "unwound"
               /\ future'[g].outcome = "none" <=> ~future'[g].started
               /\ future'[g].error <=> future'[g].fate = "err"
    <3>1. CASE g \in lost \cup {f}
      BY <1>4, <2>1, <3>1
    <3>2. CASE g \notin lost \cup {f}
      BY <1>5, <2>1, <3>2 DEF IInv, LifecycleIsExact
    <3> QED
      BY <3>1, <3>2
  <2> QED
    BY <2>1 DEF LifecycleIsExact
<1>13. EndsOK'
  <2>1. \A g \in ended : /\ g \in Futures
                         /\ future[g].state = "done" /\ future[g].started
                         /\ future[g].kind # "plain"
    BY DEF IInv, TypeOK, EndsOK
  <2>2. \A g \in ended : /\ future'[g].state = "done" /\ future'[g].started
                         /\ future'[g].kind # "plain"
    BY <1>9, <2>1
  <2>3. \A g \in EndedIn(future') : /\ future'[g].state = "done" /\ future'[g].started
                                    /\ future'[g].kind # "plain"
    BY DEF EndedIn
  <2> QED
    BY <2>2, <2>3 DEF EndsOK
<1>14. OwnedOK'
  <2> SUFFICES ASSUME NEW g \in Futures, future'[g].state # "none",
                      future'[g].owner \in Futures,
                      future'[future'[g].owner].state = "done"
               PROVE  future'[g].state = "done"
    BY DEF OwnedOK
  <2> DEFINE o == future[g].owner
  <2>1. o \in Futures /\ future[g].state # "none" /\ future'[o].state = "done"
    BY <1>9
  <2>2. CASE o \in lost \cup {f}
    <3>1. o \in Parts(f)
      BY <2>2, PartsClosed DEF lost, Leftovers
    <3>2. g \in Parts(f)
      BY <2>1, <3>1, PartsClosed
    <3>3. CASE Alive(g)
      BY <1>4, <1>6, <3>2, <3>3
    <3>4. CASE ~Alive(g)
      BY <1>9, <2>1, <3>4 DEF Alive
    <3> QED
      BY <3>3, <3>4
  <2>3. CASE o \notin lost \cup {f}
    <3>1. future[o].state = "done"
      BY <1>5, <2>1, <2>3
    <3>2. future[g].state = "done"
      BY <2>1, <3>1 DEF IInv, OwnedOK
    <3> QED
      BY <1>9, <3>2
  <2> QED
    BY <2>2, <2>3
<1>15. \A g \in Futures : g # f =>
         (future'[g].state = "polled" <=> future[g].state = "polled")
  BY <1>2, <1>4, <1>5
<1> QED
  BY <1>4, <1>7, <1>8, <1>10, <1>11, <1>12, <1>13, <1>14, <1>15

-----------------------------------------------------------------------------
(* What a step does to the threads *)

\* Polls and contexts stay, and so does what is being polled.
LEMMA ThreadsStay ==
  ASSUME IInv, Keeps, SamePolled,
         \A t \in Threads : /\ thread'[t].polls = thread[t].polls
                            /\ thread'[t].contexts = thread[t].contexts
  PROVE  (\A t \in Threads : StackOK(t)' /\ PollsOK(t)') /\ PolledOnce'
<1>1. TypeOK /\ PolledOnce /\ \A t \in Threads : StackOK(t) /\ PollsOK(t)
  BY DEF IInv
<1>2. ASSUME NEW t \in Threads PROVE StackOK(t)' /\ PollsOK(t)'
  <2>1. \A i \in 1..Depth(t) : future'[thread[t].polls[i].future].state = "polled"
    BY <1>1, PolledExists DEF SamePolled
  <2> QED
    BY <1>1, <2>1, StackStays, PollsStay
<1> QED
  BY <1>1, <1>2, OnceStays

\* The last poll of t returns.
LEMMA ThreadReturns ==
  ASSUME IInv, Keeps, NEW t \in Threads, Depth(t) > 0,
         NEW n \in Nat, n <= Depth(t) - 1,
         thread' = [u \in Threads |->
           IF u = t
           THEN [polls |-> SubSeq(thread[t].polls, 1, Depth(t) - 1),
                 contexts |-> SubSeq(thread[t].contexts, 1, thread[t].polls[Depth(t)].base),
                 unwinding |-> n]
           ELSE thread[u]],
         future'[Top(t)].state # "polled",
         \A g \in Futures : g # Top(t) =>
           (future'[g].state = "polled" <=> future[g].state = "polled")
  PROVE  /\ thread' \in [Threads -> ThreadRecords]
         /\ \A u \in Threads : thread'[u].unwinding <= Depth(u)'
         /\ \A u \in Threads : StackOK(u)' /\ PollsOK(u)'
         /\ PolledOnce'
<1>1. TypeOK /\ PolledOnce /\ \A u \in Threads : StackOK(u) /\ PollsOK(u)
  BY DEF IInv
<1>2. /\ thread'[t].polls = SubSeq(thread[t].polls, 1, Depth(t) - 1)
      /\ thread'[t].contexts = SubSeq(thread[t].contexts, 1, thread[t].polls[Depth(t)].base)
      /\ thread'[t].unwinding = n
      /\ \A u \in Threads : u # t => thread'[u] = thread[u]
  OBVIOUS
<1>3. /\ StackOK(t)'
      /\ Depth(t)' = Depth(t) - 1
      /\ thread'[t].polls \in Seq(PollRecords)
      /\ thread'[t].contexts \in Seq(Spans)
      /\ \A i \in 1..(Depth(t) - 1) : thread'[t].polls[i] = thread[t].polls[i]
  BY <1>1, <1>2, StackReturns
<1>4. Depth(t) \in Nat /\ Depth(t) \in 1..Depth(t) /\ thread[t].polls[Depth(t)].future = Top(t)
  BY <1>1, ThreadType DEF Top
<1>5. ASSUME NEW u \in Threads, NEW i \in 1..Depth(u), ~(u = t /\ i = Depth(t))
      PROVE  future'[thread[u].polls[i].future].state = "polled"
  <2>1. thread[u].polls[i].future \in Futures
    BY <1>1, PolledExists
  <2>2. thread[u].polls[i].future # Top(t)
    BY <1>1, <1>4, <1>5 DEF PolledOnce
  <2>3. future[thread[u].polls[i].future].state = "polled"
    BY <1>1, PolledExists
  <2> QED
    BY <2>1, <2>2, <2>3
<1>6. PollsOK(t)'
  <2>1. \A i \in 1..(Depth(t) - 1) : i \in 1..Depth(t) /\ i # Depth(t)
    BY <1>4
  <2>2. \A i \in 1..(Depth(t) - 1) :
          /\ thread'[t].polls[i] = thread[t].polls[i]
          /\ future'[thread[t].polls[i].future].state = "polled"
    BY <1>3, <1>5, <2>1
  <2> QED
    BY <1>1, <1>3, <2>2, PollsReturn
<1>7. ASSUME NEW u \in Threads, u # t PROVE StackOK(u)' /\ PollsOK(u)'
  <2>1. thread'[u].polls = thread[u].polls /\ thread'[u].contexts = thread[u].contexts
    BY <1>2, <1>7
  <2>2. \A i \in 1..Depth(u) : future'[thread[u].polls[i].future].state = "polled"
    BY <1>5, <1>7
  <2> QED
    BY <1>1, <2>1, <2>2, StackStays, PollsStay
<1>8. PolledOnce'
  <2>1. \A u \in Threads : u # t => thread'[u].polls = thread[u].polls
    BY <1>2
  <2> QED
    BY <1>1, <1>3, <2>1, OnceReturns
<1>9. /\ thread' \in [Threads -> ThreadRecords]
      /\ \A u \in Threads : thread'[u].unwinding <= Depth(u)'
  <2>1. [polls |-> thread'[t].polls, contexts |-> thread'[t].contexts, unwinding |-> n]
          \in ThreadRecords
    BY <1>3 DEF ThreadRecords, PollRecords, Spans
  <2>2. \A u \in Threads : u # t => thread[u] \in ThreadRecords /\ Depth(u)' = Depth(u)
    BY <1>1, <1>2 DEF TypeOK, Depth
  <2>3. \A u \in Threads : thread[u].unwinding <= Depth(u)
    BY <1>1 DEF TypeOK
  <2>4. thread' \in [Threads -> ThreadRecords]
    BY <1>2, <2>1, <2>2
  <2> QED
    BY <1>2, <1>3, <2>2, <2>3, <2>4
<1> QED
  BY <1>3, <1>6, <1>7, <1>8, <1>9

LEMMA ReturnedIs ==
  ASSUME TypeOK, NEW t \in Threads
  PROVE  Returned(t) = [u \in Threads |->
           IF u = t
           THEN [polls |-> SubSeq(thread[t].polls, 1, Depth(t) - 1),
                 contexts |-> SubSeq(thread[t].contexts, 1, thread[t].polls[Depth(t)].base),
                 unwinding |-> thread[t].unwinding]
           ELSE thread[u]]
<1>1. thread \in [Threads -> ThreadRecords]
  BY DEF TypeOK
<1>2. thread[t] = [polls |-> thread[t].polls, contexts |-> thread[t].contexts,
                   unwinding |-> thread[t].unwinding]
  BY <1>1 DEF ThreadRecords
<1> DEFINE P == SubSeq(thread[t].polls, 1, Depth(t) - 1)
           C == SubSeq(thread[t].contexts, 1, thread[t].polls[Depth(t)].base)
<1>3. Returned(t) = [thread EXCEPT ![t].polls = P, ![t].contexts = C]
  BY DEF Returned
<1> HIDE DEF P, C
<1>4. Returned(t) = [u \in Threads |-> IF u = t THEN Returned(t)[t] ELSE thread[u]]
  BY <1>1, <1>3
<1>5. Returned(t)[t] = [polls |-> P, contexts |-> C, unwinding |-> thread[t].unwinding]
  BY <1>1, <1>2, <1>3
<1> QED
  BY <1>4, <1>5 DEF P, C

-----------------------------------------------------------------------------
(* The context a call is polled in *)

LEMMA CurrentIs ==
  ASSUME NEW c \in Seq(Spans)
  PROVE  CurrentSpan(c) = SpanAt(c, Len(c)) /\ CurrentSpan(c) \in Spans
<1>1. Len(c) \in Nat /\ (c = <<>> <=> Len(c) = 0)
  BY LenProperties, EmptySeq
<1>2. Len(c) > 0 => c[Len(c)] \in Spans
  BY <1>1, ElementOfSeq
<1> QED
  BY <1>1, <1>2 DEF CurrentSpan, SpanAt, Spans

\* The current span of a thread is that of the body that runs on it.
LEMMA CurrentOfThread ==
  ASSUME TypeOK, NEW t \in Threads, StackOK(t)
  PROVE  /\ CurrentSpan(thread[t].contexts) \in Spans
         /\ Depth(t) = 0 => CurrentSpan(thread[t].contexts) = NoSpan
         /\ Depth(t) > 0 => CurrentSpan(thread[t].contexts) = SpanOf(Top(t))
<1>1. thread[t].contexts \in Seq(Spans) /\ Depth(t) \in Nat
  BY ThreadType
<1>2. /\ CurrentSpan(thread[t].contexts) = SpanAt(thread[t].contexts, Len(thread[t].contexts))
      /\ CurrentSpan(thread[t].contexts) \in Spans
  BY <1>1, CurrentIs
<1>3. ASSUME Depth(t) > 0
      PROVE  SpanAt(thread[t].contexts, Len(thread[t].contexts)) = SpanOf(Top(t))
  <2>1. Depth(t) \in 1..Depth(t) /\ Above(t, Depth(t)) = Len(thread[t].contexts)
    BY <1>1, <1>3 DEF Above
  <2>2. SpanAt(thread[t].contexts, Above(t, Depth(t)))
          = SpanOf(thread[t].polls[Depth(t)].future)
    BY <2>1 DEF StackOK
  <2> QED
    BY <2>1, <2>2 DEF Top
<1>4. Depth(t) = 0 => CurrentSpan(thread[t].contexts) = NoSpan
  BY DEF StackOK, CurrentSpan
<1> QED
  BY <1>2, <1>3, <1>4

\* Whoever polls a call, it runs in the context of the code that made it.
LEMMA CurrentIsInvoker ==
  ASSUME IInv, NEW t \in Threads, NEW f \in Futures, future[f].state # "none", CanPoll(t, f)
  PROVE  CurrentSpan(WithCaptured(thread[t].contexts, f)) = future[f].invoker
<1>1. TypeOK /\ StackOK(t) /\ OriginOK(f)
  BY DEF IInv
<1>2. thread[t].contexts \in Seq(Spans) /\ Depth(t) \in Nat
  BY <1>1, ThreadType
<1>3. CASE future[f].captured # NotWrapped
  <2> DEFINE x == future[f].captured
             c == thread[t].contexts
             d == Append(c, x)
  <2>1. x \in Spans /\ x = future[f].invoker
    BY <1>1, <1>3 DEF OriginOK, TypeOK, FutureRecords, Spans
  <2>2. d \in Seq(Spans) /\ Len(d) = Len(c) + 1 /\ d[Len(c) + 1] = x /\ Len(c) \in Nat
    BY <1>2, <2>1, AppendProperties, LenProperties
  <2>3. WithCaptured(thread[t].contexts, f) = d
    BY <1>3 DEF WithCaptured
  <2> HIDE DEF d, x
  <2>4. SpanAt(d, Len(d)) = x
    BY <2>2 DEF SpanAt
  <2> QED
    BY <2>1, <2>2, <2>3, <2>4, CurrentIs DEF x
<1>4. CASE future[f].captured = NotWrapped
  <2>1. WithCaptured(thread[t].contexts, f) = thread[t].contexts
    BY <1>4 DEF WithCaptured
  <2>2. CASE Depth(t) = 0
    BY <1>1, <1>4, <2>1, <2>2, CurrentOfThread DEF CanPoll, OriginOK
  <2>3. CASE Depth(t) > 0
    <3>1. future[f].owner = Top(t) /\ Top(t) \in Futures
      BY <1>1, <1>2, <2>3, ThreadType DEF CanPoll
    <3> QED
      BY <1>1, <2>1, <2>3, <3>1, CurrentOfThread DEF OriginOK
  <2> QED
    BY <1>2, <2>2, <2>3
<1> QED
  BY <1>3, <1>4

LEMMA AttachedEnds ==
  ASSUME IInv, NEW t \in Threads, NEW f \in Futures, future[f].state # "none", CanPoll(t, f)
  PROVE  LET all == Attached(thread[t].contexts, f) IN SpanAt(all, Len(all)) = SpanOf(f)
<1> DEFINE c == WithCaptured(thread[t].contexts, f)
           all == Attached(thread[t].contexts, f)
<1>1. TypeOK
  BY DEF IInv
<1>2. thread[t].contexts \in Seq(Spans)
  BY <1>1, ThreadType
<1>3. all \in Seq(Spans)
  BY <1>1, <1>2, AttachedAppends
<1>4. CASE future[f].kind = "plain"
  <2>1. all = c /\ CurrentSpan(c) = future[f].invoker
    BY <1>4, CurrentIsInvoker DEF Attached
  <2> QED
    BY <1>3, <1>4, <2>1, CurrentIs DEF SpanOf
<1>5. CASE future[f].kind # "plain"
  <2>1. all = Append(c, f)
    BY <1>5 DEF Attached
  <2>2. c \in Seq(Spans)
    <3>1. future[f].captured # NotWrapped => future[f].captured \in Spans
      BY <1>1 DEF TypeOK, FutureRecords, Spans
    <3> QED
      BY <1>2, <3>1, AppendProperties DEF WithCaptured
  <2> HIDE DEF c
  <2>3. /\ Append(c, f) \in Seq(Spans) /\ Len(Append(c, f)) = Len(c) + 1
        /\ Append(c, f)[Len(c) + 1] = f /\ Len(c) \in Nat
    <3>1. f \in Spans
      BY DEF Spans
    <3> QED
      BY <2>2, <3>1, AppendProperties, LenProperties
  <2> HIDE DEF all
  <2>4. Len(all) = Len(c) + 1 /\ all[Len(c) + 1] = f /\ Len(c) \in Nat
    BY <2>1, <2>3
  <2>5. SpanAt(all, Len(all)) = f
    BY <2>4 DEF SpanAt
  <2> QED
    BY <1>5, <2>5 DEF SpanOf, all
<1> QED
  BY <1>4, <1>5

-----------------------------------------------------------------------------
(* The steps *)

LEMMA Created ==
  ASSUME IInv, NEW f \in Futures, future[f].state = "none",
         NEW r \in FutureRecords, r.state = "created", r.started = FALSE,
         future' = [future EXCEPT ![f] = r],
         UNCHANGED <<thread, ended>>,
         r.captured # NotWrapped => r.owner = NoFuture /\ r.captured = r.invoker,
         r.captured = NotWrapped /\ r.owner = NoFuture => r.invoker = NoSpan,
         r.owner \in Futures => /\ r.captured = NotWrapped
                                /\ r.invoker = SpanOf(r.owner)
                                /\ future[r.owner].state = "polled"
  PROVE  IInv'
<1>1. /\ TypeOK /\ future' \in [Futures -> FutureRecords] /\ future'[f] = r
      /\ \A g \in Futures : g # f => future'[g] = future[g]
  BY DEF IInv, TypeOK
<1>2. \A g \in Futures : OriginOK(g)
  BY DEF IInv
<1>3. future[f].captured = NotWrapped
  BY <1>2 DEF OriginOK, NewFuture
<1>4. TypeOK'
  BY <1>1 DEF TypeOK, Depth
<1>5. Keeps /\ SamePolled
  BY <1>1 DEF Keeps, SamePolled
<1>6. (\A t \in Threads : StackOK(t)' /\ PollsOK(t)') /\ PolledOnce'
  BY <1>5, ThreadsStay
<1>7. ASSUME NEW g \in Futures PROVE OriginOK(g)'
  <2>1. ASSUME NEW o \in Futures, future[o].state # "none"
        PROVE  SpanOf(o)' = SpanOf(o) /\ future'[o].state # "none"
    BY <1>1, <2>1 DEF SpanOf
  <2>2. CASE g = f
    <3>1. r.owner \in Futures => /\ r.invoker = SpanOf(r.owner)'
                                 /\ future'[r.owner].state # "none"
      BY <2>1
    <3> QED
      BY <1>1, <2>2, <3>1 DEF OriginOK, SpanOf
  <2>3. CASE g # f
    <3>1. future'[g] = future[g]
      BY <1>1, <2>3
    <3>2. future[g].owner \in Futures /\ future[g].state # "none" =>
            /\ SpanOf(future[g].owner)' = SpanOf(future[g].owner)
            /\ future'[future[g].owner].state # "none"
      BY <1>2, <2>1 DEF OriginOK
    <3> QED
      BY <1>2, <3>1, <3>2 DEF OriginOK, SpanOf
  <2> QED
    BY <2>2, <2>3
<1>8. LifecycleIsExact'
  BY <1>1 DEF IInv, LifecycleIsExact
<1>9. EndsOK'
  <2>1. ASSUME NEW s \in EndedIn(future') PROVE s \in ended
    <3>1. s \in Futures /\ s # f /\ future'[s] = future[s]
      BY <1>1 DEF EndedIn
    <3>2. ASSUME future[s].kind = "application", NEW g \in Futures, future[g].captured = s
          PROVE  future[g].state = "done"
      <4>1. g # f
        BY <1>3, <3>1, <3>2
      <4> QED
        BY <1>1, <3>1, <3>2, <4>1 DEF EndedIn
    <3>3. s \in EndedIn(future)
      BY <3>1, <3>2 DEF EndedIn
    <3> QED
      BY <3>3 DEF IInv, EndsOK
  <2>2. \A s \in ended : s \in Futures /\ s # f
    BY DEF IInv, TypeOK, EndsOK
  <2> QED
    BY <1>1, <2>1, <2>2 DEF IInv, EndsOK
<1>10. OwnedOK'
  <2> SUFFICES ASSUME NEW g \in Futures, future'[g].state # "none",
                      future'[g].owner \in Futures,
                      future'[future'[g].owner].state = "done"
               PROVE  future'[g].state = "done"
    BY DEF OwnedOK
  <2>1. future'[g].owner # f
    BY <1>1
  <2>2. g # f
    BY <1>1, <2>1
  <2> QED
    BY <1>1, <2>1, <2>2 DEF IInv, OwnedOK
<1> QED
  BY <1>4, <1>6, <1>7, <1>8, <1>9, <1>10 DEF IInv

LEMMA NewTyped == NewFuture \in FutureRecords
BY DEF NewFuture, FutureRecords, Kinds

LEMMA CreateBareKeeps ==
  ASSUME IInv, NEW f \in Futures, NEW kind \in Kinds, CreateBare(f, kind)
  PROVE  IInv'
<1> DEFINE r == [NewFuture EXCEPT !.state = "created", !.kind = kind]
<1>1. /\ r \in FutureRecords /\ r.state = "created" /\ r.started = FALSE
      /\ r.captured = NotWrapped /\ r.owner = NoFuture /\ r.invoker = NoSpan
  BY DEF NewFuture, FutureRecords
<1>2. future[f].state = "none" /\ future' = [future EXCEPT ![f] = r]
      /\ UNCHANGED <<thread, ended>>
  BY DEF CreateBare
<1> HIDE DEF r
<1> QED
  BY <1>1, <1>2, Created

LEMMA TopPolled ==
  ASSUME IInv, NEW t \in Threads, Depth(t) > 0
  PROVE  /\ Top(t) \in Futures /\ future[Top(t)].state = "polled" /\ future[Top(t)].started
         /\ Alive(Top(t)) /\ Depth(t) \in Nat
         /\ SpanOf(Top(t)) \in Spans
<1>1. TypeOK /\ PollsOK(t)
  BY DEF IInv
<1>2. Depth(t) \in Nat /\ Depth(t) \in 1..Depth(t)
  BY <1>1, ThreadType
<1>3. Top(t) \in Futures /\ future[Top(t)].state = "polled" /\ future[Top(t)].started
  BY <1>1, <1>2, PolledExists DEF Top
<1> QED
  BY <1>1, <1>2, <1>3 DEF Alive, SpanOf, TypeOK, FutureRecords, Spans

LEMMA CallKeeps ==
  ASSUME IInv, NEW t \in Threads, NEW f \in Futures, NEW kind \in Kinds, Call(t, f, kind)
  PROVE  IInv'
<1> DEFINE r == [NewFuture EXCEPT !.state = "created", !.kind = kind, !.owner = Top(t),
                                  !.invoker = SpanOf(Top(t))]
<1>1. /\ future[f].state = "none" /\ future' = [future EXCEPT ![f] = r]
      /\ UNCHANGED <<thread, ended>> /\ Depth(t) > 0
  BY DEF Call, BodyRuns
<1>2. /\ Top(t) \in Futures /\ future[Top(t)].state = "polled"
      /\ SpanOf(Top(t)) \in Futures \cup {NoSpan}
  BY <1>1, TopPolled DEF Spans
<1>3. /\ r \in FutureRecords /\ r.state = "created" /\ r.started = FALSE
      /\ r.captured = NotWrapped /\ r.owner = Top(t) /\ r.invoker = SpanOf(Top(t))
  BY <1>2 DEF NewFuture, FutureRecords
<1> HIDE DEF r
<1> QED
  BY <1>1, <1>2, <1>3, Created

LEMMA SpawnKeeps ==
  ASSUME IInv, NEW t \in Threads, NEW f \in Futures, NEW kind \in Kinds, Spawn(t, f, kind)
  PROVE  IInv'
<1> DEFINE x == CurrentSpan(thread[t].contexts)
           r == [NewFuture EXCEPT !.state = "created", !.kind = kind, !.captured = x,
                                  !.invoker = SpanOf(Top(t))]
<1>1. /\ future[f].state = "none" /\ future' = [future EXCEPT ![f] = r]
      /\ UNCHANGED <<thread, ended>> /\ Depth(t) > 0
  BY DEF Spawn, BodyRuns
<1>2. x \in Futures \cup {NoSpan} /\ x = SpanOf(Top(t))
  BY <1>1, CurrentOfThread DEF IInv, Spans
<1> HIDE DEF x
<1>3. /\ r \in FutureRecords /\ r.state = "created" /\ r.started = FALSE
      /\ r.captured = x /\ r.owner = NoFuture /\ r.invoker = x
  BY <1>2 DEF NewFuture, FutureRecords
<1> HIDE DEF r
<1> QED
  BY <1>1, <1>2, <1>3, Created

\* A call that is polled or suspended goes on.
LEMMA Lives ==
  ASSUME IInv, NEW f \in Futures, Alive(f),
         NEW r \in FutureRecords, r.state \in {"polled", "suspended"},
         r.kind = future[f].kind, r.captured = future[f].captured,
         r.owner = future[f].owner, r.invoker = future[f].invoker,
         future[f].started => r.started,
         r.started /\ r.kind # "plain" => r.parent = r.invoker,
         future' = [future EXCEPT ![f] = r],
         UNCHANGED ended
  PROVE  /\ future' \in [Futures -> FutureRecords] /\ ended' \in SUBSET Futures
         /\ Keeps
         /\ \A g \in Futures : OriginOK(g)'
         /\ LifecycleIsExact' /\ EndsOK' /\ OwnedOK'
         /\ future'[f] = r
         /\ \A g \in Futures : g # f => future'[g] = future[g]
<1>1. /\ future' \in [Futures -> FutureRecords] /\ future'[f] = r
      /\ \A g \in Futures : g # f => future'[g] = future[g]
      /\ ended' \in SUBSET Futures
  BY DEF IInv, TypeOK
<1>2. \A g \in Futures :
        /\ future'[g].kind = future[g].kind /\ future'[g].captured = future[g].captured
        /\ future'[g].owner = future[g].owner /\ future'[g].invoker = future[g].invoker
        /\ future'[g].state # "none" <=> future[g].state # "none"
        /\ future'[g].state = "done" <=> future[g].state = "done"
  BY <1>1 DEF Alive
<1>3. Keeps
  BY <1>1, <1>2 DEF Keeps
<1>4. ASSUME NEW g \in Futures PROVE OriginOK(g)'
  <2>1. OriginOK(g)
    BY DEF IInv
  <2>2. future[g].owner \in Futures => SpanOf(future[g].owner)' = SpanOf(future[g].owner)
    BY <1>2 DEF SpanOf
  <2>3. future'[g].state = "none" => future'[g] = future[g]
    BY <1>1, <1>2 DEF Alive
  <2>4. future'[g].started /\ future'[g].kind # "plain" /\ future'[g].state # "none" =>
          future'[g].parent = future'[g].invoker
    BY <1>1, <2>1 DEF OriginOK
  <2> QED
    BY <1>2, <2>1, <2>2, <2>3, <2>4 DEF OriginOK, SpanOf
<1>5. LifecycleIsExact'
  BY <1>1 DEF IInv, LifecycleIsExact
<1>6. EndsOK'
  <2>1. ASSUME NEW s \in EndedIn(future') PROVE s \in EndedIn(future)
    <3>1. s \in Futures /\ s # f /\ future'[s] = future[s]
      BY <1>1 DEF EndedIn
    <3> QED
      BY <1>2, <3>1 DEF EndedIn
  <2>2. \A s \in ended : s \in Futures /\ s # f
    BY DEF IInv, TypeOK, EndsOK, Alive
  <2> QED
    BY <1>1, <2>1, <2>2 DEF IInv, EndsOK
<1>7. OwnedOK'
  BY <1>2 DEF IInv, OwnedOK
<1> QED
  BY <1>1, <1>3, <1>4, <1>5, <1>6, <1>7

LEMMA PollKeeps ==
  ASSUME IInv, NEW t \in Threads, NEW f \in Futures, Poll(t, f)
  PROVE  IInv'
<1> DEFINE c == thread[t].contexts
           p == thread[t].polls
           parent == IF future[f].started \/ future[f].kind = "plain" THEN future[f].parent
                     ELSE CurrentSpan(WithCaptured(c, f))
           r == [future[f] EXCEPT !.state = "polled", !.started = TRUE, !.parent = parent]
           all == Attached(c, f)
           added == Attached(<<>>, f)
           entry == [future |-> f, base |-> Len(c)]
           q == Append(p, entry)
<1>1. /\ TypeOK /\ PolledOnce /\ \A u \in Threads : StackOK(u) /\ PollsOK(u)
      /\ OriginOK(f) /\ future[f] \in FutureRecords
  BY DEF IInv, TypeOK
<1>2. /\ future[f].state \in {"created", "suspended"} /\ CanPoll(t, f)
      /\ UNCHANGED ended
  BY DEF Poll
<1>3. /\ p \in Seq(PollRecords) /\ c \in Seq(Spans) /\ Depth(t) \in Nat /\ Depth(t) = Len(p)
      /\ Len(c) \in Nat
  BY <1>1, ThreadType, LenProperties DEF Depth
<1>4. CurrentSpan(WithCaptured(c, f)) = future[f].invoker
  BY <1>2, CurrentIsInvoker
<1>5. parent \in Futures \cup {NoSpan}
  BY <1>1, <1>4 DEF FutureRecords
<1>6. future[f].kind # "plain" => parent = future[f].invoker
  BY <1>1, <1>2, <1>4 DEF OriginOK
<1>7. future' = [future EXCEPT ![f] = r]
  <2>1. future \in [Futures -> FutureRecords]
    BY <1>1 DEF TypeOK
  <2>2. future' = [future EXCEPT ![f].state = "polled", ![f].started = TRUE,
                                 ![f].parent = parent]
    BY DEF Poll
  <2> HIDE DEF parent
  <2> QED
    BY <2>1, <2>2
<1> HIDE DEF parent
<1>8. /\ r \in FutureRecords /\ r.state = "polled" /\ r.started = TRUE /\ r.parent = parent
      /\ r.kind = future[f].kind /\ r.captured = future[f].captured
      /\ r.owner = future[f].owner /\ r.invoker = future[f].invoker
  BY <1>1, <1>5 DEF FutureRecords
<1> HIDE DEF r
<1>9. /\ future' \in [Futures -> FutureRecords] /\ ended' \in SUBSET Futures
      /\ Keeps
      /\ \A g \in Futures : OriginOK(g)'
      /\ LifecycleIsExact' /\ EndsOK' /\ OwnedOK'
      /\ future'[f] = r
      /\ \A g \in Futures : g # f => future'[g] = future[g]
  BY <1>2, <1>6, <1>7, <1>8, Lives DEF Alive
<1>10. /\ thread'[t] = [polls |-> q, contexts |-> all, unwinding |-> thread[t].unwinding]
       /\ thread' = [u \in Threads |-> thread'[u]]
       /\ \A u \in Threads : u # t => thread'[u] = thread[u]
  <2>1. thread \in [Threads -> ThreadRecords]
    BY <1>1 DEF TypeOK
  <2>2. thread' = [thread EXCEPT ![t].polls = q, ![t].contexts = all]
    BY DEF Poll
  <2> HIDE DEF q, all
  <2>3. thread'[t] = [polls |-> q, contexts |-> all, unwinding |-> thread[t].unwinding]
    BY <2>1, <2>2 DEF ThreadRecords
  <2>4. \A u \in Threads : u # t => thread'[u] = thread[u]
    BY <2>1, <2>2
  <2>5. thread' = [u \in Threads |-> thread'[u]]
    BY <2>1, <2>2
  <2> QED
    BY <2>3, <2>4, <2>5
<1>11. /\ added \in Seq(Spans) /\ all \in Seq(Spans)
       /\ Len(all) = Len(c) + Len(added)
       /\ \A k \in 1..Len(c) : all[k] = c[k]
       /\ \A k \in 1..Len(added) : all[Len(c) + k] = added[k]
       /\ Len(added) \in Nat
  BY <1>1, <1>3, AttachedAppends, LenProperties
<1>12. SpanAt(all, Len(all)) = SpanOf(f)
  BY <1>2, AttachedEnds
<1>13. SubSeq(all, Len(c) + 1, Len(all)) = added
  <2> HIDE DEF c, all, added
  <2> QED
    BY <1>3, <1>11, AddedPart
<1>14. /\ q \in Seq(PollRecords) /\ Len(q) = Len(p) + 1 /\ q[Len(p) + 1] = entry
       /\ \A i \in 1..Len(p) : q[i] = p[i]
  <2>1. entry \in PollRecords
    BY <1>3 DEF PollRecords
  <2> HIDE DEF entry, p, c
  <2> QED
    BY <1>3, <2>1, AppendProperties
<1>15. /\ Depth(t)' = Depth(t) + 1
       /\ thread'[t].polls = q /\ thread'[t].contexts = all
       /\ thread'[t].unwinding = thread[t].unwinding
  <2> HIDE DEF c, p, all, added, q, entry
  <2>1. /\ thread'[t].polls = q /\ thread'[t].contexts = all
        /\ thread'[t].unwinding = thread[t].unwinding
    BY <1>10
  <2> QED
    BY <1>3, <1>14, <2>1 DEF Depth
<1> HIDE DEF c, p, all, added, q, entry
<1>16. TypeOK'
  <2>1. thread'[t] \in ThreadRecords
    <3>1. thread[t].unwinding \in Nat
      BY <1>1, ThreadType
    <3>2. q \in Seq([future : Futures, base : Nat]) /\ all \in Seq(Futures \cup {NoSpan})
      BY <1>11, <1>14 DEF Spans, PollRecords
    <3> QED
      BY <1>10, <3>1, <3>2 DEF ThreadRecords
  <2>2. thread' \in [Threads -> ThreadRecords]
    BY <1>1, <1>10, <2>1 DEF TypeOK
  <2>3. \A u \in Threads : thread'[u].unwinding <= Depth(u)'
    <3>1. thread'[t].unwinding = thread[t].unwinding /\ thread[t].unwinding \in Nat
          /\ thread[t].unwinding <= Depth(t)
      BY <1>1, <1>15, ThreadType
    <3>2. thread'[t].unwinding <= Depth(t)'
      BY <1>3, <1>15, <3>1
    <3>3. ASSUME NEW u \in Threads, u # t PROVE thread'[u].unwinding <= Depth(u)'
      BY <1>1, <1>10, <3>3 DEF TypeOK, Depth
    <3> QED
      BY <3>2, <3>3
  <2> QED
    BY <1>9, <2>2, <2>3 DEF TypeOK
<1>17. ASSUME NEW u \in Threads, NEW i \in 1..Depth(u)
       PROVE  /\ thread[u].polls[i].future \in Futures
              /\ thread[u].polls[i].future # f
              /\ future'[thread[u].polls[i].future].state = "polled"
              /\ future'[thread[u].polls[i].future] = future[thread[u].polls[i].future]
  <2>1. /\ thread[u].polls[i].future \in Futures
        /\ future[thread[u].polls[i].future].state = "polled"
    BY <1>1, PolledExists
  <2>2. thread[u].polls[i].future # f
    BY <1>2, <2>1
  <2> QED
    BY <1>9, <2>1, <2>2
<1>18. ASSUME NEW u \in Threads, u # t PROVE StackOK(u)' /\ PollsOK(u)'
  <2>1. thread'[u].polls = thread[u].polls /\ thread'[u].contexts = thread[u].contexts
    BY <1>10, <1>18
  <2>2. \A i \in 1..Depth(u) : future'[thread[u].polls[i].future].state = "polled"
    BY <1>17
  <2> QED
    BY <1>1, <1>9, <2>1, <2>2, StackStays, PollsStay
<1>19. /\ \A i \in 1..Depth(t) : q[i] = p[i] /\ thread[t].polls[i] = p[i]
       /\ q[Depth(t) + 1].future = f /\ q[Depth(t) + 1].base = Len(c)
  BY <1>3, <1>14 DEF p, entry
<1>20. PollsOK(t)'
  <2>1. ASSUME NEW i \in 1..(Depth(t) + 1)
        PROVE  /\ future'[q[i].future].state = "polled"
               /\ future'[q[i].future].started
               /\ future'[q[i].future].owner = IF i = 1 THEN NoFuture ELSE q[i - 1].future
    <3>1. CASE i = Depth(t) + 1
      <4>1. q[i].future = f /\ future'[f].state = "polled" /\ future'[f].started
            /\ future'[f].owner = future[f].owner
        BY <1>8, <1>9, <1>19, <3>1
      <4>2. CASE Depth(t) = 0
        BY <1>2, <3>1, <4>1, <4>2 DEF CanPoll
      <4>3. CASE Depth(t) # 0
        <5>1. i # 1 /\ i - 1 = Depth(t) /\ Depth(t) \in 1..Depth(t)
          BY <1>3, <3>1, <4>3
        <5>2. future[f].owner = Top(t) /\ Top(t) = q[i - 1].future
          BY <1>2, <1>19, <4>3, <5>1 DEF CanPoll, Top, p
        <5> QED
          BY <4>1, <5>1, <5>2
      <4> QED
        BY <4>2, <4>3
    <3>2. CASE i # Depth(t) + 1
      <4>1. i \in 1..Depth(t) /\ (i # 1 => i - 1 \in 1..Depth(t))
        BY <1>3, <3>2
      <4>2. /\ future[p[i].future].started
            /\ future[p[i].future].owner = IF i = 1 THEN NoFuture ELSE p[i - 1].future
        BY <1>1, <4>1 DEF PollsOK, p
      <4>3. /\ future'[p[i].future].state = "polled"
            /\ future'[p[i].future] = future[p[i].future]
        BY <1>17, <4>1 DEF p
      <4> QED
        BY <1>19, <4>1, <4>2, <4>3
    <3> QED
      BY <3>1, <3>2
  <2> QED
    BY <1>15, <2>1 DEF PollsOK
<1>21. StackOK(t)'
  <2>1. \A i \in 1..Depth(t) : Above(t, i)' = Above(t, i)
    <3>1. ASSUME NEW i \in 1..Depth(t), i = Depth(t) PROVE Above(t, i)' = Above(t, i)
      BY <1>3, <1>15, <1>19, <3>1 DEF Above, c
    <3>2. ASSUME NEW i \in 1..Depth(t), i # Depth(t) PROVE Above(t, i)' = Above(t, i)
      <4>1. i + 1 \in 1..Depth(t) /\ i # Depth(t) + 1
        BY <1>3, <3>2
      <4> QED
        BY <1>15, <1>19, <3>2, <4>1 DEF Above
    <3> QED
      BY <3>1, <3>2
  <2>2. ASSUME NEW n, n = Depth(t) + 1 PROVE Above(t, n)' = Len(all)
    BY <1>15, <2>2 DEF Above
  <2>3. \A i \in 1..Depth(t) :
          /\ p[i].base \in Nat
          /\ p[i].base <= Above(t, i) /\ Above(t, i) <= Len(c) /\ Above(t, i) \in Nat
    <3>1. \A i \in 1..Depth(t) : p[i].base \in Nat
      BY <1>1, ThreadType DEF p
    <3>2. \A i \in 1..Depth(t) : p[i].base <= Above(t, i) /\ Above(t, i) <= Len(c)
      BY <1>1 DEF StackOK, p, c
    <3>3. \A i \in 1..Depth(t) : i # Depth(t) => i + 1 \in 1..Depth(t)
      BY <1>3
    <3>4. \A i \in 1..Depth(t) : Above(t, i) \in Nat
      BY <1>3, <3>1, <3>3 DEF Above, p, c
    <3> QED
      BY <3>1, <3>2, <3>4
  <2>4. ASSUME NEW i \in 1..Depth(t)
        PROVE  (LET poll == thread[t].polls[i] IN
                /\ poll.base <= Above(t, i)
                /\ Above(t, i) <= Len(thread[t].contexts)
                /\ SubSeq(thread[t].contexts, poll.base + 1, Above(t, i))
                     = Attached(<<>>, poll.future)
                /\ SpanAt(thread[t].contexts, Above(t, i)) = SpanOf(poll.future))'
    <3> DEFINE g == p[i].future
               from == p[i].base
               to == Above(t, i)
               n == Len(c)
    <3>1. /\ g \in Futures /\ future'[g] = future[g]
          /\ SubSeq(c, from + 1, to) = Attached(<<>>, g)
          /\ SpanAt(c, to) = SpanOf(g)
          /\ thread'[t].polls[i] = p[i]
      BY <1>1, <1>15, <1>17, <1>19 DEF StackOK, p, c
    <3>2. /\ from \in Nat /\ to \in Nat /\ to <= n /\ n \in Nat /\ n <= Len(all) /\ from <= to
      BY <1>3, <1>11, <2>3
    <3>3. SpanAt(all, to) = SpanAt(c, to)
      BY <1>11, <3>2 DEF SpanAt
    <3>4. SubSeq(all, from + 1, to) = SubSeq(c, from + 1, to)
      <4>1. n <= Len(c) /\ \A k \in 1..n : all[k] = c[k]
        BY <1>11, <3>2
      <4> HIDE DEF from, to, n
      <4> QED
        BY <1>3, <1>11, <3>2, <4>1, SamePart
    <3>5. Above(t, i)' = to /\ to <= Len(all)
      BY <1>11, <2>1, <3>2
    <3>6. SpanOf(thread[t].polls[i].future)' = SpanOf(g)
      BY <3>1 DEF SpanOf
    <3>7. Attached(<<>>, thread[t].polls[i].future)' = Attached(<<>>, g)
      BY <3>1 DEF Attached, WithCaptured
    <3> HIDE DEF g, from, to, n
    <3> QED
      BY <1>15, <3>1, <3>2, <3>3, <3>4, <3>5, <3>6, <3>7 DEF from, SpanAt
  <2>5. ASSUME NEW i \in 1..(Depth(t) + 1), i = Depth(t) + 1
        PROVE  (LET poll == thread[t].polls[i] IN
                /\ poll.base <= Above(t, i)
                /\ Above(t, i) <= Len(thread[t].contexts)
                /\ SubSeq(thread[t].contexts, poll.base + 1, Above(t, i))
                     = Attached(<<>>, poll.future)
                /\ SpanAt(thread[t].contexts, Above(t, i)) = SpanOf(poll.future))'
    <3>1. thread'[t].polls[i].future = f /\ thread'[t].polls[i].base = Len(c)
      BY <1>15, <1>19, <2>5
    <3>2. Above(t, i)' = Len(all) /\ Len(c) <= Len(all)
      BY <1>3, <1>11, <2>2, <2>5
    <3>3. SpanOf(thread[t].polls[i].future)' = SpanOf(f)
      BY <1>8, <1>9, <3>1 DEF SpanOf
    <3>4. Attached(<<>>, thread[t].polls[i].future)' = added
      BY <1>8, <1>9, <3>1 DEF Attached, WithCaptured, added
    <3>5. Len(all) <= Len(all)
      BY <1>3, <1>11
    <3> QED
      BY <1>12, <1>13, <1>15, <3>1, <3>2, <3>3, <3>4, <3>5 DEF SpanAt
  <2>6. \A i \in 1..(Depth(t) + 1) : i \in 1..Depth(t) \/ i = Depth(t) + 1
    BY <1>3
  <2>7. (Depth(t) > 0 => thread[t].polls[1].base = 0)'
    <3>1. CASE Depth(t) = 0
      <4>1. c = <<>> /\ Len(c) = 0
        BY <1>1, <3>1 DEF StackOK, c
      <4> QED
        BY <1>15, <1>19, <3>1, <4>1
    <3>2. CASE Depth(t) # 0
      <4>1. 1 \in 1..Depth(t) /\ Depth(t) > 0
        BY <1>3, <3>2
      <4> QED
        BY <1>1, <1>15, <1>19, <4>1 DEF StackOK
    <3> QED
      BY <3>1, <3>2
  <2>8. \A i, j \in 1..(Depth(t) + 1) : i <= j => q[i].base <= q[j].base
    <3>1. \A i, j \in 1..Depth(t) : i <= j => p[i].base <= p[j].base
      BY <1>1 DEF StackOK, p
    <3>2. \A i \in 1..Depth(t) : p[i].base <= Len(c)
      BY <1>3, <2>3
    <3>3. \A i \in 1..Depth(t) : ~(Depth(t) + 1 <= i)
      BY <1>3
    <3>4. Len(c) <= Len(c)
      BY <1>3
    <3> QED
      BY <1>19, <2>6, <3>1, <3>2, <3>3, <3>4
  <2>9. Depth(t)' # 0
    BY <1>3, <1>15
  <2> QED
    BY <1>15, <2>4, <2>5, <2>6, <2>7, <2>8, <2>9 DEF StackOK
<1>22. PolledOnce'
  <2>1. \A u \in Threads : u # t => Depth(u)' = Depth(u) /\ thread'[u].polls = thread[u].polls
    BY <1>10 DEF Depth
  <2>2. ASSUME NEW u \in Threads, NEW i \in 1..Depth(u)'
        PROVE  \/ u = t /\ i = Depth(t) + 1 /\ thread'[u].polls[i].future = f
               \/ /\ i \in 1..Depth(u) /\ thread'[u].polls[i] = thread[u].polls[i]
                  /\ thread'[u].polls[i].future # f
    <3>1. CASE u = t /\ i = Depth(t) + 1
      BY <1>15, <1>19, <3>1
    <3>2. CASE u = t /\ i # Depth(t) + 1
      <4>1. i \in 1..Depth(t)
        BY <1>3, <1>15, <3>2
      <4> QED
        BY <1>15, <1>17, <1>19, <3>2, <4>1
    <3>3. CASE u # t
      BY <1>17, <2>1, <3>3
    <3> QED
      BY <3>1, <3>2, <3>3
  <2>3. ASSUME NEW u \in Threads, NEW v \in Threads,
               NEW i \in 1..Depth(u)', NEW j \in 1..Depth(v)',
               thread'[u].polls[i].future = thread'[v].polls[j].future
        PROVE  u = v /\ i = j
    <3>1. \/ u = t /\ i = Depth(t) + 1 /\ v = t /\ j = Depth(t) + 1
          \/ /\ i \in 1..Depth(u) /\ j \in 1..Depth(v)
             /\ thread[u].polls[i].future = thread[v].polls[j].future
      BY <2>2, <2>3
    <3> QED
      BY <1>1, <3>1 DEF PolledOnce
  <2>4. ASSUME NEW g \in Futures, future'[g].state = "polled"
        PROVE  \E u \in Threads : \E i \in 1..Depth(u)' : thread'[u].polls[i].future = g
    <3>1. CASE g = f
      <4>1. Depth(t) + 1 \in 1..Depth(t)'
        BY <1>3, <1>15
      <4> QED
        BY <1>15, <1>19, <3>1, <4>1
    <3>2. CASE g # f
      <4>1. future[g].state = "polled"
        BY <1>9, <2>4, <3>2
      <4>2. PICK u \in Threads : \E i \in 1..Depth(u) : thread[u].polls[i].future = g
        BY <1>1, <4>1 DEF PolledOnce
      <4>3. PICK i \in 1..Depth(u) : thread[u].polls[i].future = g
        BY <4>2
      <4>4. i \in 1..Depth(u)' /\ thread'[u].polls[i] = thread[u].polls[i]
        <5>1. CASE u = t
          <6>1. i \in 1..(Depth(t) + 1)
            BY <1>3, <5>1
          <6> QED
            BY <1>15, <1>19, <5>1, <6>1
        <5>2. CASE u # t
          BY <2>1, <5>2
        <5> QED
          BY <5>1, <5>2
      <4> QED
        BY <4>3, <4>4
    <3> QED
      BY <3>1, <3>2
  <2> QED
    BY <2>3, <2>4 DEF PolledOnce
<1> QED
  BY <1>9, <1>16, <1>18, <1>20, <1>21, <1>22 DEF IInv

LEMMA SuspendKeeps ==
  ASSUME IInv, NEW t \in Threads, Suspend(t)
  PROVE  IInv'
<1> DEFINE f == Top(t)
           r == [future[f] EXCEPT !.state = "suspended"]
<1>1. TypeOK /\ Depth(t) > 0 /\ thread[t].unwinding # Depth(t) /\ thread' = Returned(t)
      /\ UNCHANGED ended
  BY DEF IInv, Suspend, BodyReturns
<1>2. f \in Futures /\ future[f].started /\ Alive(f) /\ Depth(t) \in Nat
  BY <1>1, TopPolled
<1>3. OriginOK(f) /\ future[f] \in FutureRecords
  BY <1>2 DEF IInv, TypeOK
<1>4. future' = [future EXCEPT ![f] = r]
  BY DEF Suspend
<1>5. /\ r \in FutureRecords /\ r.state = "suspended" /\ r.started = future[f].started
      /\ r.parent = future[f].parent
      /\ r.kind = future[f].kind /\ r.captured = future[f].captured
      /\ r.owner = future[f].owner /\ r.invoker = future[f].invoker
  BY <1>3 DEF FutureRecords
<1>6. r.started /\ r.kind # "plain" => r.parent = r.invoker
  BY <1>2, <1>3, <1>5 DEF OriginOK, Alive
<1> HIDE DEF r
<1>7. /\ future' \in [Futures -> FutureRecords] /\ ended' \in SUBSET Futures
      /\ Keeps
      /\ \A g \in Futures : OriginOK(g)'
      /\ LifecycleIsExact' /\ EndsOK' /\ OwnedOK'
      /\ future'[f] = r
      /\ \A g \in Futures : g # f => future'[g] = future[g]
  <2> HIDE DEF f
  <2> QED
    BY <1>1, <1>2, <1>4, <1>5, <1>6, Lives
<1>8. /\ thread' \in [Threads -> ThreadRecords]
      /\ \A u \in Threads : thread'[u].unwinding <= Depth(u)'
      /\ \A u \in Threads : StackOK(u)' /\ PollsOK(u)'
      /\ PolledOnce'
  <2>1. thread[t].unwinding \in Nat /\ thread[t].unwinding <= Depth(t) - 1
    BY <1>1, <1>2, ThreadType
  <2> QED
    BY <1>1, <1>5, <1>7, <2>1, ReturnedIs, ThreadReturns
<1> QED
  BY <1>7, <1>8 DEF IInv, TypeOK

\* The last poll of t ends with its call.
LEMMA TopEnds ==
  ASSUME IInv, NEW t \in Threads, Depth(t) > 0,
         NEW fate \in Fates, NEW panicking \in BOOLEAN, NEW n \in Nat, n <= Depth(t) - 1,
         fate = "panicked" => panicking,
         future' = After(Top(t), fate, Leftovers(Top(t)), panicking),
         ended' = ended \cup EndedIn(future'),
         thread' = [u \in Threads |->
           IF u = t
           THEN [polls |-> SubSeq(thread[t].polls, 1, Depth(t) - 1),
                 contexts |-> SubSeq(thread[t].contexts, 1, thread[t].polls[Depth(t)].base),
                 unwinding |-> n]
           ELSE thread[u]]
  PROVE  IInv'
<1> DEFINE f == Top(t)
<1>1. f \in Futures /\ future[f].started /\ Alive(f)
  BY TopPolled
<1>2. \E u \in Threads : Depth(u) > 0 /\ f = Top(u)
  OBVIOUS
<1>3. /\ future' \in [Futures -> FutureRecords]
      /\ ended' \in SUBSET Futures
      /\ Keeps
      /\ \A g \in Futures : OriginOK(g)'
      /\ LifecycleIsExact' /\ EndsOK' /\ OwnedOK'
      /\ future'[f].state = "done"
      /\ \A g \in Futures : g # f =>
           (future'[g].state = "polled" <=> future[g].state = "polled")
  <2>1. /\ future' = After(f, fate, Leftovers(f), panicking)
        /\ ended' = ended \cup EndedIn(future')
    OBVIOUS
  <2> HIDE DEF f
  <2> QED
    BY <1>1, <1>2, <2>1, Finish
<1>4. /\ thread' \in [Threads -> ThreadRecords]
      /\ \A u \in Threads : thread'[u].unwinding <= Depth(u)'
      /\ \A u \in Threads : StackOK(u)' /\ PollsOK(u)'
      /\ PolledOnce'
  BY <1>3, ThreadReturns
<1> QED
  BY <1>3, <1>4 DEF IInv, TypeOK

LEMMA ReturnKeeps ==
  ASSUME IInv, NEW t \in Threads, NEW fate \in {"ok", "err"}, Return(t, fate)
  PROVE  IInv'
<1>1. TypeOK /\ Depth(t) > 0 /\ thread[t].unwinding # Depth(t) /\ thread' = Returned(t)
      /\ ended' = ended \cup EndedIn(future')
      /\ future' = After(Top(t), fate, Leftovers(Top(t)), thread[t].unwinding # 0)
  BY DEF IInv, Return, BodyReturns
<1>2. thread[t].unwinding \in Nat /\ thread[t].unwinding <= Depth(t) - 1
  BY <1>1, ThreadType
<1>3. fate \in Fates /\ fate # "panicked" /\ (thread[t].unwinding # 0) \in BOOLEAN
  BY DEF Fates
<1> QED
  BY <1>1, <1>2, <1>3, ReturnedIs, TopEnds

LEMMA UnwindKeeps ==
  ASSUME IInv, NEW t \in Threads, NEW caught \in BOOLEAN, Unwind(t, caught)
  PROVE  IInv'
<1> DEFINE n == IF caught THEN 0 ELSE Depth(t) - 1
<1>1. TypeOK /\ Depth(t) > 0
      /\ ended' = ended \cup EndedIn(future')
      /\ future' = After(Top(t), "panicked", Leftovers(Top(t)), TRUE)
      /\ thread' = [Returned(t) EXCEPT ![t].unwinding = n]
  BY DEF IInv, Unwind, BodyRuns
<1>2. n \in Nat /\ n <= Depth(t) - 1
  BY <1>1, TopPolled
<1>3. thread' = [u \in Threads |->
           IF u = t
           THEN [polls |-> SubSeq(thread[t].polls, 1, Depth(t) - 1),
                 contexts |-> SubSeq(thread[t].contexts, 1, thread[t].polls[Depth(t)].base),
                 unwinding |-> n]
           ELSE thread[u]]
  <2> DEFINE P == SubSeq(thread[t].polls, 1, Depth(t) - 1)
             C == SubSeq(thread[t].contexts, 1, thread[t].polls[Depth(t)].base)
             R == Returned(t)
  <2>1. R = [u \in Threads |->
               IF u = t THEN [polls |-> P, contexts |-> C, unwinding |-> thread[t].unwinding]
               ELSE thread[u]]
    BY <1>1, ReturnedIs
  <2>2. thread' = [R EXCEPT ![t].unwinding = n]
    BY <1>1
  <2> HIDE DEF n, P, C, R
  <2>3. thread' = [u \in Threads |->
               IF u = t THEN [R[t] EXCEPT !.unwinding = n] ELSE thread[u]]
    BY <2>1, <2>2
  <2>4. [R[t] EXCEPT !.unwinding = n] = [polls |-> P, contexts |-> C, unwinding |-> n]
    BY <2>1
  <2> QED
    BY <2>3, <2>4 DEF P, C
<1>4. "panicked" \in Fates
  BY DEF Fates
<1> HIDE DEF n
<1> QED
  BY <1>1, <1>2, <1>3, <1>4, TopEnds

LEMMA DropKeeps ==
  ASSUME IInv, NEW t \in Threads, NEW f \in Futures, Drop(t, f)
  PROVE  IInv'
<1>1. /\ future[f].state \in {"created", "suspended"}
      /\ future' = After(f, "dropped", Leftovers(f), thread[t].unwinding # 0)
      /\ ended' = ended \cup EndedIn(future')
      /\ UNCHANGED thread
  BY DEF Drop
<1>2. /\ "dropped" \in Fates /\ (thread[t].unwinding # 0) \in BOOLEAN
      /\ Alive(f) /\ future[f].state # "polled"
  BY <1>1 DEF Fates, Alive
<1>3. /\ future' \in [Futures -> FutureRecords]
      /\ ended' \in SUBSET Futures
      /\ Keeps
      /\ \A g \in Futures : OriginOK(g)'
      /\ LifecycleIsExact' /\ EndsOK' /\ OwnedOK'
      /\ future'[f].state = "done"
      /\ \A g \in Futures : g # f =>
           (future'[g].state = "polled" <=> future[g].state = "polled")
  BY <1>1, <1>2, Finish
<1>4. SamePolled
  BY <1>2, <1>3 DEF SamePolled
<1>5. (\A u \in Threads : StackOK(u)' /\ PollsOK(u)') /\ PolledOnce'
  BY <1>1, <1>3, <1>4, ThreadsStay
<1> QED
  BY <1>1, <1>3, <1>5 DEF IInv, TypeOK, Depth

LEMMA PanicKeeps ==
  ASSUME IInv, NEW t \in Threads, Panic(t)
  PROVE  IInv'
<1>1. /\ thread' = [thread EXCEPT ![t].unwinding = Depth(t)]
      /\ UNCHANGED <<future, ended>>
      /\ TypeOK
  BY DEF Panic, IInv
<1>2. Depth(t) \in Nat
  BY <1>1, ThreadType
<1>3. /\ thread' \in [Threads -> ThreadRecords]
      /\ \A u \in Threads : /\ thread'[u].polls = thread[u].polls
                            /\ thread'[u].contexts = thread[u].contexts
      /\ thread'[t].unwinding = Depth(t)
      /\ \A u \in Threads : u # t => thread'[u] = thread[u]
  <2> DEFINE d == Depth(t)
  <2>1. d \in Nat /\ thread' = [thread EXCEPT ![t].unwinding = d]
    BY <1>1, <1>2
  <2> HIDE DEF d
  <2>2. thread \in [Threads -> ThreadRecords]
    BY <1>1 DEF TypeOK
  <2>3. thread'[t].unwinding = d
    BY <2>1, <2>2 DEF ThreadRecords
  <2> QED
    BY <2>1, <2>2, <2>3 DEF ThreadRecords, d
<1>4. TypeOK'
  BY <1>1, <1>2, <1>3 DEF TypeOK, Depth
<1>5. Keeps /\ SamePolled
  BY <1>1 DEF Keeps, SamePolled
<1>6. (\A u \in Threads : StackOK(u)' /\ PollsOK(u)') /\ PolledOnce'
  BY <1>3, <1>5, ThreadsStay
<1>7. \A g \in Futures : OriginOK(g)'
  BY <1>1 DEF IInv, OriginOK, SpanOf
<1>8. LifecycleIsExact' /\ EndsOK' /\ OwnedOK'
  BY <1>1 DEF IInv, LifecycleIsExact, EndsOK, OwnedOK
<1> QED
  BY <1>4, <1>6, <1>7, <1>8 DEF IInv

-----------------------------------------------------------------------------
(* The invariant *)

LEMMA InitHolds == Init => IInv
<1> SUFFICES ASSUME Init PROVE IInv
  OBVIOUS
<1>1. \A f \in Futures : future[f] = NewFuture
  BY DEF Init
<1>2. \A t \in Threads : Depth(t) = 0 /\ thread[t] = IdleThread
  BY DEF Init, Depth, IdleThread
<1>3. TypeOK
  <2>1. IdleThread \in ThreadRecords
    BY DEF IdleThread, ThreadRecords
  <2> QED
    BY <1>2, <2>1, NewTyped DEF Init, TypeOK, IdleThread
<1>4. \A f \in Futures : OriginOK(f)
  <2>1. NewFuture.state = "none"
    BY DEF NewFuture
  <2> QED
    BY <1>1, <2>1 DEF OriginOK
<1>5. \A t \in Threads : StackOK(t) /\ PollsOK(t)
  BY <1>2 DEF StackOK, PollsOK, IdleThread
<1>6. PolledOnce
  BY <1>1, <1>2 DEF PolledOnce, NewFuture
<1>7. LifecycleIsExact /\ EndsOK /\ OwnedOK
  BY <1>1 DEF LifecycleIsExact, EndsOK, OwnedOK, NewFuture, EndedIn, Init
<1> QED
  BY <1>3, <1>4, <1>5, <1>6, <1>7 DEF IInv

LEMMA NextKeeps == IInv /\ [Next]_vars => IInv'
<1> SUFFICES ASSUME IInv, [Next]_vars PROVE IInv'
  OBVIOUS
<1>1. CASE \E f \in Futures, kind \in Kinds : CreateBare(f, kind)
  BY <1>1, CreateBareKeeps
<1>2. CASE \E t \in Threads, f \in Futures, kind \in Kinds : Call(t, f, kind)
  BY <1>2, CallKeeps
<1>3. CASE \E t \in Threads, f \in Futures, kind \in Kinds : Spawn(t, f, kind)
  BY <1>3, SpawnKeeps
<1>4. CASE \E t \in Threads, f \in Futures : Poll(t, f)
  BY <1>4, PollKeeps
<1>5. CASE \E t \in Threads, f \in Futures : Drop(t, f)
  BY <1>5, DropKeeps
<1>6. CASE \E t \in Threads : Suspend(t)
  BY <1>6, SuspendKeeps
<1>7. CASE \E t \in Threads, fate \in {"ok", "err"} : Return(t, fate)
  BY <1>7, ReturnKeeps
<1>8. CASE \E t \in Threads : Panic(t)
  BY <1>8, PanicKeeps
<1>9. CASE \E t \in Threads, caught \in BOOLEAN : Unwind(t, caught)
  BY <1>9, UnwindKeeps
<1>10. CASE UNCHANGED vars
  <2>1. future' = future /\ thread' = thread /\ ended' = ended
    BY <1>10 DEF vars
  <2>2. Keeps /\ SamePolled
    BY <2>1 DEF Keeps, SamePolled
  <2>3. (\A t \in Threads : StackOK(t)' /\ PollsOK(t)') /\ PolledOnce'
    BY <2>1, <2>2, ThreadsStay
  <2>4. \A f \in Futures : OriginOK(f)'
    BY <2>1 DEF IInv, OriginOK, SpanOf
  <2>5. TypeOK' /\ LifecycleIsExact' /\ EndsOK' /\ OwnedOK'
    BY <2>1 DEF IInv, TypeOK, Depth, LifecycleIsExact, EndsOK, OwnedOK
  <2> QED
    BY <2>3, <2>4, <2>5 DEF IInv
<1> QED
  BY <1>1, <1>2, <1>3, <1>4, <1>5, <1>6, <1>7, <1>8, <1>9, <1>10 DEF Next

LEMMA Invariant == Spec => []IInv
<1> QED
  BY InitHolds, NextKeeps, PTL DEF Spec

-----------------------------------------------------------------------------
(* Theorems *)

\* Futures, threads and ended spans keep their types.
THEOREM AsyncTypeOK == Spec => []TypeOK
<1>1. IInv => TypeOK
  BY DEF IInv
<1> QED
  BY <1>1, Invariant, PTL

\* The parent of a span is the span of the code that called the function or spawned
\* it, whichever thread first polled it (the span's start on the first poll).
THEOREM AsyncParentIsInvoker == Spec => []ParentIsInvoker
<1>1. IInv => ParentIsInvoker
  BY DEF IInv, OriginOK, ParentIsInvoker, NewFuture
<1> QED
  BY <1>1, Invariant, PTL

\* A thread has attached the contexts of its polls, in order, and no other: each
\* poll detaches what it attached (with_context).
THEOREM AsyncContextsAreOfPolls == Spec => []ContextsAreOfPolls
<1>1. IInv => ContextsAreOfPolls
  BY DEF IInv, StackOK, Above, ContextsAreOfPolls
<1> QED
  BY <1>1, Invariant, PTL

\* The lifecycle guard records how each call went (Drop of __OtelLifecycle).
THEOREM AsyncLifecycleIsExact == Spec => []LifecycleIsExact
<1>1. IInv => LifecycleIsExact
  BY DEF IInv
<1> QED
  BY <1>1, Invariant, PTL

\* Spans end with their futures and none stays open when all are gone.
THEOREM AsyncSpansEndWithFutures == Spec => []SpansEndWithFutures
<1>1. ASSUME IInv PROVE SpansEndWithFutures
  <2>1. \A f \in Futures : future[f].started => future[f].state # "none"
    BY <1>1 DEF IInv, OriginOK, NewFuture
  <2>2. \A f \in Futures : future[f].state = "none" => future[f].captured = NotWrapped
    BY <1>1 DEF IInv, OriginOK, NewFuture
  <2>3. ASSUME NEW f \in Futures
        PROVE  /\ future[f].kind = "dependency" =>
                    (f \in ended <=> future[f].state = "done" /\ future[f].started)
               /\ future[f].kind = "application" =>
                    (f \in ended => future[f].state = "done" /\ future[f].started)
    BY <1>1 DEF IInv, EndsOK, EndedIn
  <2>4. ASSUME \A g \in Futures : ~Alive(g),
               NEW f \in Futures, future[f].started, future[f].kind # "plain"
        PROVE  f \in ended
    <3>1. future[f].state = "done"
      BY <2>1, <2>4 DEF Alive
    <3>2. \A g \in Futures : future[g].captured = f => future[g].state = "done"
      BY <2>2, <2>4 DEF Alive
    <3> QED
      BY <1>1, <2>4, <3>1, <3>2 DEF IInv, EndsOK, EndedIn
  <2> QED
    BY <2>3, <2>4 DEF SpansEndWithFutures
<1> QED
  BY <1>1, Invariant, PTL

\* The span of an awaited call of a dependency ends before that of the body.
THEOREM AsyncAwaitedEndFirst == Spec => []AwaitedEndFirst
<1>1. ASSUME IInv PROVE AwaitedEndFirst
  <2> SUFFICES ASSUME NEW f \in Futures, future[f].owner \in ended,
                      future[f].kind = "dependency", future[f].started
               PROVE  f \in ended
    BY DEF AwaitedEndFirst
  <2>1. future[f].owner \in Futures /\ future[future[f].owner].state = "done"
    BY <1>1 DEF IInv, TypeOK, EndsOK
  <2>2. future[f].state # "none"
    BY <1>1 DEF IInv, OriginOK, NewFuture
  <2>3. future[f].state = "done"
    BY <1>1, <2>1, <2>2 DEF IInv, OwnedOK
  <2> QED
    BY <1>1, <2>3 DEF IInv, EndsOK, EndedIn
<1> QED
  BY <1>1, Invariant, PTL
=============================================================================
