--------------------------- MODULE OtelShimProofs ---------------------------
(***************************************************************************)
(* Proofs about OtelShim for any threads, handle width and bounds.         *)
(***************************************************************************)
EXTENDS OtelShim, SequenceTheorems, TLAPS

-----------------------------------------------------------------------------
(* Sequences that change at their end only *)

\* d is c with one more element f.
Grown(c, d, f) ==
  /\ Len(d) = Len(c) + 1
  /\ \A i \in 1 .. Len(c) : d[i] = c[i]
  /\ d[Len(c) + 1] = f

\* d is c with its last element replaced by f.
Replaced(c, d, f) ==
  /\ c # <<>>
  /\ Len(d) = Len(c)
  /\ \A i \in 1 .. Len(c) - 1 : d[i] = c[i]
  /\ d[Len(c)] = f

\* d is c without its last element.
Shrunk(c, d) ==
  /\ c # <<>>
  /\ Len(d) = Len(c) - 1
  /\ \A i \in 1 .. Len(c) - 1 : d[i] = c[i]

\* Append, EXCEPT at the last index and Front are these three changes.
LEMMA AppendGrows ==
  ASSUME NEW S, NEW c \in Seq(S), NEW f \in S
  PROVE  Append(c, f) \in Seq(S) /\ Grown(c, Append(c, f), f)
BY DEF Grown

LEMMA ExceptReplaces ==
  ASSUME NEW S, NEW c \in Seq(S), c # <<>>, NEW f \in S
  PROVE  /\ [c EXCEPT ![Len(c)] = f] \in Seq(S)
         /\ Replaced(c, [c EXCEPT ![Len(c)] = f], f)
BY DEF Replaced

LEMMA FrontShrinks ==
  ASSUME NEW S, NEW c \in Seq(S), c # <<>>
  PROVE  Front(c) \in Seq(S) /\ Shrunk(c, Front(c))
<1>1. Len(c) \in Nat /\ Len(c) # 0 /\ \A i \in 1 .. Len(c) : c[i] \in S
  OBVIOUS
<1>2. [i \in 1 .. Len(c) - 1 |-> c[i]] \in Seq(S)
  BY <1>1
<1>3. SubSeq(c, 1, Len(c) - 1) = [i \in 1 .. Len(c) - 1 |-> c[i]]
  BY SMTT(60)
<1>4. Len(SubSeq(c, 1, Len(c) - 1)) = Len(c) - 1
  <2> DEFINE n == Len(c) - 1
  <2>1. n \in Nat
    BY <1>1
  <2> HIDE DEF n
  <2>2. Len([i \in 1 .. n |-> c[i]]) = n
    BY <2>1
  <2> QED
    BY <1>3, <2>2 DEF n
<1> QED
  BY <1>1, <1>2, <1>3, <1>4 DEF Front, Shrunk

LEMMA LastIn ==
  ASSUME NEW S, NEW c \in Seq(S), c # <<>>
  PROVE  Last(c) \in S /\ Last(c) = c[Len(c)] /\ Len(c) \in Nat \ {0} /\ Len(c) \in DOMAIN c
BY DEF Last

\* The fields of the frames of a call stack that are numbers.
LEMMA FrameNumbers ==
  ASSUME NEW c \in Seq(Frames)
  PROVE  /\ Len(c) \in Nat
         /\ \A i \in 1 .. Len(c) : /\ c[i] \in Frames
                                   /\ c[i].slot \in Nat
                                   /\ c[i].pos \in Nat
                                   /\ c[i].handle \in Handles
<1>1. \A i \in 1 .. Len(c) : c[i] \in Frames
  OBVIOUS
<1>2. \A f \in Frames : f.slot \in Nat /\ f.pos \in Nat /\ f.handle \in Handles
  BY DEF Frames
<1> QED
  BY <1>1, <1>2

-----------------------------------------------------------------------------
(* How the changes of the call stack and of STACK keep the one the mirror  *)
(* of the other.                                                           *)

\* A frame without a handle comes or goes.
LEMMA StackPlainGrow ==
  ASSUME NEW c \in Seq(Frames), NEW d \in Seq(Frames), NEW s \in Seq(Entries),
         NEW f \in Frames, f.handle = 0, f.slot = 0,
         Grown(c, d, f), StackMirrors(c, s)
  PROVE  StackMirrors(d, s)
<1>1. Len(c) \in Nat /\ Len(d) = Len(c) + 1
  BY FrameNumbers DEF Grown
<1>2. \A i \in 1 .. Len(d) : i \in 1 .. Len(c) \/ d[i] = f
  BY <1>1 DEF Grown
<1>3. \A i \in 1 .. Len(c) : i \in 1 .. Len(d) /\ d[i] = c[i]
  BY <1>1 DEF Grown
<1> QED
  BY <1>1, <1>2, <1>3 DEF StackMirrors

LEMMA StackPlainShrink ==
  ASSUME NEW c \in Seq(Frames), NEW d \in Seq(Frames), NEW s \in Seq(Entries),
         Last(c).handle = 0, Shrunk(c, d), StackMirrors(c, s)
  PROVE  StackMirrors(d, s)
<1>1. /\ Len(c) \in Nat /\ Len(d) = Len(c) - 1
      /\ Len(c) # 0 /\ Len(c) \in 1 .. Len(c)
  BY FrameNumbers DEF Shrunk
<1>2. c[Len(c)].slot = 0
  BY <1>1 DEF Last, StackMirrors
<1>3. \A i \in 1 .. Len(c) : i = Len(c) \/ i \in 1 .. Len(d)
  BY <1>1
<1>4. \A i \in 1 .. Len(d) : i \in 1 .. Len(c) /\ d[i] = c[i]
  BY <1>1 DEF Shrunk
<1>5. \A k \in 1 .. Len(s) : k # 0
  BY <1>1
<1> QED
  BY <1>1, <1>2, <1>3, <1>4, <1>5 DEF StackMirrors

\* The last frame changes otherwise than in what STACK has of it.
LEMMA StackSame ==
  ASSUME NEW c \in Seq(Frames), NEW d \in Seq(Frames), NEW s \in Seq(Entries),
         NEW f \in Frames, Replaced(c, d, f), StackMirrors(c, s),
         f.handle = Last(c).handle, f.slot = Last(c).slot,
         f.handle = 0 \/ (f.span = Last(c).span /\ f.pos = Last(c).pos)
  PROVE  StackMirrors(d, s)
<1>1. /\ Len(c) \in Nat /\ Len(d) = Len(c)
      /\ Len(c) # 0 /\ Len(c) \in 1 .. Len(c)
  BY FrameNumbers DEF Replaced
<1>2. \A i \in 1 .. Len(c) : i = Len(c) \/ d[i] = c[i]
  BY <1>1 DEF Replaced
<1>3. /\ d[Len(c)] = f
      /\ \A i \in 1 .. Len(c) : d[i].slot = c[i].slot /\ d[i].handle = c[i].handle
  BY <1>1, <1>2 DEF Replaced, Last
<1>4. \A i \in 1 .. Len(c) : c[i].slot # 0 => d[i].span = c[i].span /\ d[i].pos = c[i].pos
  BY <1>1, <1>2, <1>3 DEF Last, StackMirrors
<1>5. \A i \in 1 .. Len(d) :
        /\ d[i].slot = 0 <=> d[i].handle = 0
        /\ d[i].slot # 0 =>
             /\ d[i].slot \in 1 .. Len(s)
             /\ s[d[i].slot] = [handle |-> d[i].handle, span |-> d[i].span, pos |-> d[i].pos]
  <2> SUFFICES ASSUME NEW i \in 1 .. Len(c)
               PROVE /\ d[i].slot = 0 <=> d[i].handle = 0
                     /\ d[i].slot # 0 =>
                          /\ d[i].slot \in 1 .. Len(s)
                          /\ s[d[i].slot] = [handle |-> d[i].handle, span |-> d[i].span, pos |-> d[i].pos]
    BY <1>1
  <2>1. d[i].slot = c[i].slot /\ d[i].handle = c[i].handle
    BY <1>3
  <2>2. c[i].slot # 0 => d[i].span = c[i].span /\ d[i].pos = c[i].pos
    BY <1>4
  <2> QED
    BY <2>1, <2>2 DEF StackMirrors
<1>6. \A i, j \in 1 .. Len(d) :
        i < j /\ d[i].slot # 0 /\ d[j].slot # 0 => d[i].slot < d[j].slot
  BY <1>1, <1>3 DEF StackMirrors
<1>7. \A k \in 1 .. Len(s) : \E i \in 1 .. Len(d) : d[i].slot = k
  <2> SUFFICES ASSUME NEW k \in 1 .. Len(s) PROVE \E i \in 1 .. Len(d) : d[i].slot = k
    OBVIOUS
  <2>1. PICK i \in 1 .. Len(c) : c[i].slot = k
    BY DEF StackMirrors
  <2> QED
    BY <2>1, <1>1, <1>3
<1> QED
  BY <1>5, <1>6, <1>7 DEF StackMirrors

\* enter_span pushes the entry of the last frame.
LEMMA StackPush ==
  ASSUME NEW c \in Seq(Frames), NEW d \in Seq(Frames),
         NEW s \in Seq(Entries), NEW r \in Seq(Entries),
         NEW f \in Frames, NEW e \in Entries,
         Replaced(c, d, f), Grown(s, r, e), StackMirrors(c, s),
         Last(c).handle = 0, f.handle # 0, f.slot = Len(s) + 1,
         e = [handle |-> f.handle, span |-> f.span, pos |-> f.pos]
  PROVE  StackMirrors(d, r)
<1>1. /\ Len(c) \in Nat /\ Len(d) = Len(c)
      /\ Len(s) \in Nat /\ 1 .. Len(s) = 1 .. Len(s) /\ Len(r) = Len(s) + 1
      /\ Len(c) # 0 /\ Len(c) \in 1 .. Len(c)
  BY FrameNumbers DEF Replaced, Grown
<1>2. \A i \in 1 .. Len(c) : i = Len(c) \/ (d[i] = c[i] /\ i < Len(c))
  BY <1>1 DEF Replaced
<1>3. c[Len(c)].slot = 0 /\ d[Len(c)] = f
  BY <1>1 DEF Last, StackMirrors, Replaced
<1>4. (\A k \in 1 .. Len(s) : k \in 1 .. Len(r) /\ r[k] = s[k]) /\ r[Len(s) + 1] = e
  BY <1>1 DEF Grown
<1>5. \A i \in 1 .. Len(c) : c[i].slot # 0 => c[i].slot \in 1 .. Len(s) /\ i # Len(c)
  BY <1>1, <1>3 DEF StackMirrors
<1>6. \A i \in 1 .. Len(d) :
        /\ d[i].slot = 0 <=> d[i].handle = 0
        /\ d[i].slot # 0 =>
             /\ d[i].slot \in 1 .. Len(r)
             /\ r[d[i].slot] = [handle |-> d[i].handle, span |-> d[i].span, pos |-> d[i].pos]
  BY <1>1, <1>2, <1>3, <1>4, <1>5 DEF StackMirrors
<1>7. \A i, j \in 1 .. Len(d) :
        i < j /\ d[i].slot # 0 /\ d[j].slot # 0 => d[i].slot < d[j].slot
  BY <1>1, <1>2, <1>3, <1>5 DEF StackMirrors
<1>8. \A k \in 1 .. Len(r) : \E i \in 1 .. Len(d) : d[i].slot = k
  <2> SUFFICES ASSUME NEW k \in 1 .. Len(r) PROVE \E i \in 1 .. Len(d) : d[i].slot = k
    OBVIOUS
  <2>1. CASE k = Len(s) + 1
    BY <2>1, <1>1, <1>3
  <2>2. CASE k \in 1 .. Len(s)
    <3>1. PICK i \in 1 .. Len(c) : c[i].slot = k
      BY <2>2 DEF StackMirrors
    <3>2. c[i].slot # 0
      BY <3>1, <2>2, <1>1
    <3> QED
      BY <3>1, <3>2, <1>1, <1>2, <1>5
  <2> QED
    BY <2>1, <2>2, <1>1
<1> QED
  BY <1>6, <1>7, <1>8 DEF StackMirrors

\* The entry of the last frame that holds a handle is the top of STACK.
LEMMA StackTop ==
  ASSUME NEW c \in Seq(Frames), NEW s \in Seq(Entries), c # <<>>,
         Last(c).handle # 0, StackMirrors(c, s)
  PROVE  /\ s # <<>>
         /\ Last(c).slot = Len(s)
         /\ Last(s) = [handle |-> Last(c).handle, span |-> Last(c).span, pos |-> Last(c).pos]
<1>1. /\ Len(c) \in Nat /\ Len(c) # 0
      /\ Len(s) \in Nat /\ 1 .. Len(s) = 1 .. Len(s)
      /\ Len(c) \in 1 .. Len(c)
  OBVIOUS
<1>2. c[Len(c)].slot # 0 /\ c[Len(c)].slot \in 1 .. Len(s)
  BY <1>1 DEF Last, StackMirrors
<1>3. PICK i \in 1 .. Len(c) : c[i].slot = Len(s)
  BY <1>1, <1>2 DEF StackMirrors
<1>4. i = Len(c)
  BY <1>1, <1>2, <1>3 DEF StackMirrors
<1> QED
  BY <1>1, <1>2, <1>3, <1>4 DEF Last, StackMirrors

\* exit pops the entry of the last frame.
LEMMA StackPop ==
  ASSUME NEW c \in Seq(Frames), NEW d \in Seq(Frames),
         NEW s \in Seq(Entries), NEW r \in Seq(Entries), NEW f \in Frames,
         Replaced(c, d, f), Shrunk(s, r), StackMirrors(c, s),
         Last(c).handle # 0, f.handle = 0, f.slot = 0
  PROVE  StackMirrors(d, r)
<1>1. /\ Len(c) \in Nat /\ Len(d) = Len(c)
      /\ Len(s) \in Nat /\ 1 .. Len(s) = 1 .. Len(s) /\ Len(r) = Len(s) - 1
      /\ Len(c) # 0 /\ Len(c) \in 1 .. Len(c) /\ c # <<>>
  BY DEF Replaced, Shrunk
<1>2. \A i \in 1 .. Len(c) : i = Len(c) \/ (d[i] = c[i] /\ i < Len(c))
  BY <1>1 DEF Replaced
<1>3. c[Len(c)].slot = Len(s) /\ Len(s) # 0 /\ d[Len(c)] = f
  <2>1. Last(c).slot = Len(s) /\ s # <<>>
    BY <1>1, StackTop
  <2> QED
    BY <2>1, <1>1 DEF Last, Replaced
<1>4. \A k \in 1 .. Len(r) : k \in 1 .. Len(s) /\ r[k] = s[k]
  BY <1>1 DEF Shrunk
<1>5. \A i \in 1 .. Len(c) : i # Len(c) /\ c[i].slot # 0 => c[i].slot \in 1 .. Len(r)
  <2> SUFFICES ASSUME NEW i \in 1 .. Len(c), i # Len(c), c[i].slot # 0
               PROVE  c[i].slot \in 1 .. Len(r)
    OBVIOUS
  <2>1. c[i].slot \in 1 .. Len(s)
    BY DEF StackMirrors
  <2>2. i < Len(c) /\ c[i].slot < c[Len(c)].slot
    BY <1>1, <1>3 DEF StackMirrors
  <2> QED
    BY <1>1, <1>3, <2>1, <2>2
<1>6. \A i \in 1 .. Len(d) :
        /\ d[i].slot = 0 <=> d[i].handle = 0
        /\ d[i].slot # 0 =>
             /\ d[i].slot \in 1 .. Len(r)
             /\ r[d[i].slot] = [handle |-> d[i].handle, span |-> d[i].span, pos |-> d[i].pos]
  <2> SUFFICES ASSUME NEW i \in 1 .. Len(c)
               PROVE /\ d[i].slot = 0 <=> d[i].handle = 0
                     /\ d[i].slot # 0 =>
                          /\ d[i].slot \in 1 .. Len(r)
                          /\ r[d[i].slot] = [handle |-> d[i].handle, span |-> d[i].span, pos |-> d[i].pos]
    BY <1>1
  <2>1. CASE i = Len(c)
    BY <2>1, <1>3
  <2>2. CASE i # Len(c)
    <3>1. d[i] = c[i] /\ (c[i].slot # 0 => c[i].slot \in 1 .. Len(r))
      BY <2>2, <1>2, <1>5
    <3> QED
      BY <3>1, <1>4 DEF StackMirrors
  <2> QED
    BY <2>1, <2>2
<1>7. \A i, j \in 1 .. Len(d) :
        i < j /\ d[i].slot # 0 /\ d[j].slot # 0 => d[i].slot < d[j].slot
  BY <1>1, <1>2, <1>3 DEF StackMirrors
<1>8. \A k \in 1 .. Len(r) : \E i \in 1 .. Len(d) : d[i].slot = k
  <2> SUFFICES ASSUME NEW k \in 1 .. Len(r) PROVE \E i \in 1 .. Len(d) : d[i].slot = k
    OBVIOUS
  <2>1. PICK i \in 1 .. Len(c) : c[i].slot = k
    BY <1>4 DEF StackMirrors
  <2>2. i # Len(c)
    BY <2>1, <1>1, <1>3
  <2> QED
    BY <2>1, <2>2, <1>1, <1>2
<1> QED
  BY <1>6, <1>7, <1>8 DEF StackMirrors

-----------------------------------------------------------------------------
(* The same for OpenTelemetry's context stack.                             *)

\* A frame with nothing attached comes or goes.
LEMMA ContextPlainGrow ==
  ASSUME NEW c \in Seq(Frames), NEW d \in Seq(Frames), NEW x,
         NEW f \in Frames, f.handle = 0, f.pos = 0,
         Grown(c, d, f), ContextMirrors(c, x)
  PROVE  ContextMirrors(d, x)
<1>1. Len(c) \in Nat /\ Len(d) = Len(c) + 1
  BY FrameNumbers DEF Grown
<1>2. \A i \in 1 .. Len(d) : i \in 1 .. Len(c) \/ d[i] = f
  BY <1>1 DEF Grown
<1>3. \A i \in 1 .. Len(c) : i \in 1 .. Len(d) /\ d[i] = c[i]
  BY <1>1 DEF Grown
<1> QED
  BY <1>1, <1>2, <1>3 DEF ContextMirrors

LEMMA ContextPlainShrink ==
  ASSUME NEW c \in Seq(Frames), NEW d \in Seq(Frames), NEW S, NEW x \in Seq(S),
         Last(c).pos = 0, Shrunk(c, d), ContextMirrors(c, x)
  PROVE  ContextMirrors(d, x)
<1>1. /\ Len(c) \in Nat /\ Len(d) = Len(c) - 1
      /\ Len(c) # 0 /\ Len(c) \in 1 .. Len(c)
  BY FrameNumbers DEF Shrunk
<1>2. c[Len(c)].pos = 0
  BY <1>1 DEF Last
<1>3. \A i \in 1 .. Len(c) : i = Len(c) \/ i \in 1 .. Len(d)
  BY <1>1
<1>4. \A i \in 1 .. Len(d) : i \in 1 .. Len(c) /\ d[i] = c[i]
  BY <1>1 DEF Shrunk
<1>5. \A k \in 1 .. Len(x) : k # 0
  OBVIOUS
<1> QED
  BY <1>1, <1>2, <1>3, <1>4, <1>5 DEF ContextMirrors

\* The last frame changes otherwise than in what it has attached.
LEMMA ContextSame ==
  ASSUME NEW c \in Seq(Frames), NEW d \in Seq(Frames), NEW x,
         NEW f \in Frames, Replaced(c, d, f), ContextMirrors(c, x),
         f.pos = Last(c).pos, f.pos = 0 \/ f.span = Last(c).span,
         f.handle = 0 \/ f.pos # 0
  PROVE  ContextMirrors(d, x)
<1>1. /\ Len(c) \in Nat /\ Len(d) = Len(c)
      /\ Len(c) # 0 /\ Len(c) \in 1 .. Len(c)
  BY FrameNumbers DEF Replaced
<1>2. \A i \in 1 .. Len(c) : i = Len(c) \/ d[i] = c[i]
  BY <1>1 DEF Replaced
<1>3. d[Len(c)] = f /\ c[Len(c)] = Last(c)
  BY <1>1 DEF Replaced, Last
<1>4. \A i \in 1 .. Len(c) :
        /\ d[i].pos = c[i].pos
        /\ c[i].pos # 0 => d[i].span = c[i].span
        /\ d[i].handle # 0 => d[i].pos # 0
  BY <1>1, <1>2, <1>3 DEF ContextMirrors
<1>5. \A k \in 1 .. Len(x) : \E i \in 1 .. Len(d) : d[i].pos = k
  <2> SUFFICES ASSUME NEW k \in 1 .. Len(x) PROVE \E i \in 1 .. Len(d) : d[i].pos = k
    OBVIOUS
  <2>1. PICK i \in 1 .. Len(c) : c[i].pos = k
    BY DEF ContextMirrors
  <2> QED
    BY <2>1, <1>1, <1>4
<1> QED
  BY <1>1, <1>4, <1>5 DEF ContextMirrors

\* The last frame attaches its context.
LEMMA ContextAttach ==
  ASSUME NEW c \in Seq(Frames), NEW d \in Seq(Frames),
         NEW S, NEW x \in Seq(S), NEW y \in Seq(S), NEW f \in Frames,
         Replaced(c, d, f), Grown(x, y, f.span), ContextMirrors(c, x),
         Last(c).pos = 0, f.pos = Len(x) + 1
  PROVE  ContextMirrors(d, y)
<1>1. /\ Len(c) \in Nat /\ Len(d) = Len(c)
      /\ Len(x) \in Nat /\ Len(y) = Len(x) + 1
      /\ Len(c) # 0 /\ Len(c) \in 1 .. Len(c)
  BY FrameNumbers DEF Replaced, Grown
<1>2. \A i \in 1 .. Len(c) : i = Len(c) \/ (d[i] = c[i] /\ i < Len(c))
  BY <1>1 DEF Replaced
<1>3. c[Len(c)].pos = 0 /\ d[Len(c)] = f
  BY <1>1 DEF Last, Replaced
<1>4. (\A k \in 1 .. Len(x) : k \in 1 .. Len(y) /\ y[k] = x[k]) /\ y[Len(x) + 1] = f.span
  BY <1>1 DEF Grown
<1>5. \A i \in 1 .. Len(c) : c[i].pos # 0 => c[i].pos \in 1 .. Len(x) /\ i # Len(c)
  BY <1>1, <1>3 DEF ContextMirrors
<1>6. \A i \in 1 .. Len(d) :
        /\ d[i].pos # 0 => d[i].pos \in 1 .. Len(y) /\ y[d[i].pos] = d[i].span
        /\ d[i].handle # 0 => d[i].pos # 0
  BY <1>1, <1>2, <1>3, <1>4, <1>5 DEF ContextMirrors
<1>7. \A i, j \in 1 .. Len(d) :
        i < j /\ d[i].pos # 0 /\ d[j].pos # 0 => d[i].pos < d[j].pos
  BY <1>1, <1>2, <1>3, <1>5 DEF ContextMirrors
<1>8. \A k \in 1 .. Len(y) : \E i \in 1 .. Len(d) : d[i].pos = k
  <2> SUFFICES ASSUME NEW k \in 1 .. Len(y) PROVE \E i \in 1 .. Len(d) : d[i].pos = k
    OBVIOUS
  <2>1. CASE k = Len(x) + 1
    BY <2>1, <1>1, <1>3
  <2>2. CASE k \in 1 .. Len(x)
    <3>1. PICK i \in 1 .. Len(c) : c[i].pos = k
      BY <2>2 DEF ContextMirrors
    <3>2. c[i].pos # 0
      BY <3>1, <2>2, <1>1
    <3> QED
      BY <3>1, <3>2, <1>1, <1>2, <1>5
  <2>3. k = Len(x) + 1 \/ k \in 1 .. Len(x)
    BY <1>1
  <2> QED
    BY <2>1, <2>2, <2>3
<1> QED
  BY <1>6, <1>7, <1>8 DEF ContextMirrors

\* A frame comes with its context attached.
LEMMA ContextPush ==
  ASSUME NEW c \in Seq(Frames), NEW d \in Seq(Frames),
         NEW S, NEW x \in Seq(S), NEW y \in Seq(S), NEW f \in Frames,
         Grown(c, d, f), Grown(x, y, f.span), ContextMirrors(c, x),
         f.handle = 0, f.pos = Len(x) + 1
  PROVE  ContextMirrors(d, y)
<1> DEFINE g == [f EXCEPT !.pos = 0]
           m == Append(c, g)
<1>1. g \in Frames /\ g.pos = 0 /\ g.handle = 0
  BY DEF Frames
<1> HIDE DEF g
<1>2. m \in Seq(Frames) /\ Grown(c, m, g)
  BY <1>1, AppendGrows
<1> HIDE DEF m
<1>3. ContextMirrors(m, x)
  BY <1>1, <1>2, ContextPlainGrow
<1>4. Len(c) \in Nat /\ Len(m) = Len(c) + 1 /\ m # <<>>
  BY <1>2, FrameNumbers DEF Grown
<1>5. Replaced(m, d, f) /\ Last(m).pos = 0
  BY <1>1, <1>2, <1>4 DEF Grown, Replaced, Last
<1> QED
  BY <1>2, <1>3, <1>5, ContextAttach

\* What the last frame has attached is the current context.
LEMMA ContextTop ==
  ASSUME NEW c \in Seq(Frames), NEW S, NEW x \in Seq(S), c # <<>>,
         Last(c).pos # 0, ContextMirrors(c, x)
  PROVE  x # <<>> /\ Last(c).pos = Len(x) /\ Last(x) = Last(c).span
<1>1. /\ Len(c) \in Nat /\ Len(c) # 0 /\ Len(c) \in 1 .. Len(c)
      /\ Len(x) \in Nat
  BY FrameNumbers
<1>2. c[Len(c)].pos # 0 /\ c[Len(c)].pos \in 1 .. Len(x)
  BY <1>1 DEF Last, ContextMirrors
<1>3. PICK i \in 1 .. Len(c) : c[i].pos = Len(x)
  BY <1>1, <1>2 DEF ContextMirrors
<1>4. i = Len(c)
  BY <1>1, <1>2, <1>3 DEF ContextMirrors
<1> QED
  BY <1>1, <1>2, <1>3, <1>4 DEF Last, ContextMirrors

\* The last frame detaches its context.
LEMMA ContextDetach ==
  ASSUME NEW c \in Seq(Frames), NEW d \in Seq(Frames),
         NEW S, NEW x \in Seq(S), NEW y \in Seq(S), NEW f \in Frames,
         Replaced(c, d, f), Shrunk(x, y), ContextMirrors(c, x),
         Last(c).pos # 0, f.handle = 0, f.pos = 0
  PROVE  ContextMirrors(d, y)
<1>1. /\ Len(c) \in Nat /\ Len(d) = Len(c)
      /\ Len(x) \in Nat /\ Len(y) = Len(x) - 1
      /\ Len(c) # 0 /\ Len(c) \in 1 .. Len(c) /\ c # <<>>
  BY FrameNumbers DEF Replaced, Shrunk
<1>2. \A i \in 1 .. Len(c) : i = Len(c) \/ (d[i] = c[i] /\ i < Len(c))
  BY <1>1 DEF Replaced
<1>3. c[Len(c)].pos = Len(x) /\ Len(x) # 0 /\ d[Len(c)] = f
  <2>1. Last(c).pos = Len(x) /\ x # <<>>
    BY <1>1, ContextTop
  <2> QED
    BY <2>1, <1>1 DEF Last, Replaced
<1>4. \A k \in 1 .. Len(y) : k \in 1 .. Len(x) /\ y[k] = x[k]
  BY <1>1 DEF Shrunk
<1>5. \A i \in 1 .. Len(c) : i # Len(c) /\ c[i].pos # 0 => c[i].pos \in 1 .. Len(y)
  <2> SUFFICES ASSUME NEW i \in 1 .. Len(c), i # Len(c), c[i].pos # 0
               PROVE  c[i].pos \in 1 .. Len(y)
    OBVIOUS
  <2>1. c[i].pos \in 1 .. Len(x)
    BY DEF ContextMirrors
  <2>2. i < Len(c) /\ c[i].pos < c[Len(c)].pos
    BY <1>1, <1>3 DEF ContextMirrors
  <2> QED
    BY <1>1, <1>3, <2>1, <2>2
<1>6. \A i \in 1 .. Len(d) :
        /\ d[i].pos # 0 => d[i].pos \in 1 .. Len(y) /\ y[d[i].pos] = d[i].span
        /\ d[i].handle # 0 => d[i].pos # 0
  <2> SUFFICES ASSUME NEW i \in 1 .. Len(c)
               PROVE /\ d[i].pos # 0 => d[i].pos \in 1 .. Len(y) /\ y[d[i].pos] = d[i].span
                     /\ d[i].handle # 0 => d[i].pos # 0
    BY <1>1
  <2>1. CASE i = Len(c)
    BY <2>1, <1>3
  <2>2. CASE i # Len(c)
    <3>1. d[i] = c[i] /\ (c[i].pos # 0 => c[i].pos \in 1 .. Len(y))
      BY <2>2, <1>2, <1>5
    <3> QED
      BY <3>1, <1>4 DEF ContextMirrors
  <2> QED
    BY <2>1, <2>2
<1>7. \A i, j \in 1 .. Len(d) :
        i < j /\ d[i].pos # 0 /\ d[j].pos # 0 => d[i].pos < d[j].pos
  BY <1>1, <1>2, <1>3 DEF ContextMirrors
<1>8. \A k \in 1 .. Len(y) : \E i \in 1 .. Len(d) : d[i].pos = k
  <2> SUFFICES ASSUME NEW k \in 1 .. Len(y) PROVE \E i \in 1 .. Len(d) : d[i].pos = k
    OBVIOUS
  <2>1. PICK i \in 1 .. Len(c) : c[i].pos = k
    BY <1>4 DEF ContextMirrors
  <2>2. i # Len(c)
    BY <2>1, <1>1, <1>3
  <2> QED
    BY <2>1, <2>2, <1>1, <1>2
<1> QED
  BY <1>6, <1>7, <1>8 DEF ContextMirrors

-----------------------------------------------------------------------------
(* What may be below what on a call stack, and what IN_SHIM says of it.    *)

\* A frame holds what it should at its place in the code when NEXT_HANDLE has
\* been incremented n times: a second draw comes after the one that gave 0.
FrameOK(f, n) ==
  /\ f.kind = "hook" => f.pc = "body" /\ f.handle = 0 /\ f.pos = 0
  /\ f.kind = "native" => /\ f.pc \notin EnterPcs /\ f.handle = 0
                          /\ f.pos # 0 <=> f.pc \in {"body", "failed"}
  /\ f.kind = "call" => (f.pos # 0 <=> f.handle # 0 \/ f.pc \in {"alloc", "retake"})
  /\ f.handle # 0 => f.pc \in {"body", "failed"}
  /\ f.pos # 0 \/ f.pc \in EnterPcs => f.span \in Spans
  /\ f.pc = "retake" => n > HandleSpace

\* A frame below the last waits in its body, or for the hook above it.
Suspended(c) ==
  \A i \in 1 .. Len(c) - 1 :
    c[i].pc = "body" \/ (c[i].pc \in {"hooked", "exporting"} /\ c[i + 1].kind = "hook")

\* Above a shim call in progress every trampoline function runs without a span.
FailsOpenAbove(c) ==
  \A i, j \in 1 .. Len(c) :
    i < j /\ InShimCall(c[i]) /\ c[j].kind = "call"
    => c[j].handle = 0 /\ c[j].pc \in {"body", "failed"}

Nested(c, flag) ==
  /\ Suspended(c)
  /\ FailsOpenAbove(c)
  /\ flag <=> \E i \in 1 .. Len(c) : InShimCall(c[i])

\* No shim call is in progress below one that has a span or is in progress.
LEMMA NoShimCallBelow ==
  ASSUME NEW c \in Seq(Frames), NEW flag \in BOOLEAN, c # <<>>, Nested(c, flag),
         Last(c).kind = "call", Last(c).handle # 0 \/ Last(c).pc \notin {"body", "failed"}
  PROVE  /\ \A i \in 1 .. Len(c) - 1 : ~InShimCall(c[i])
         /\ flag = InShimCall(Last(c))
<1>1. Len(c) \in Nat /\ Len(c) # 0 /\ Len(c) \in 1 .. Len(c) /\ c[Len(c)] = Last(c)
  BY FrameNumbers DEF Last
<1>2. \A i \in 1 .. Len(c) - 1 : ~InShimCall(c[i])
  BY <1>1 DEF Nested, FailsOpenAbove
<1>3. \A i \in 1 .. Len(c) : i \in 1 .. Len(c) - 1 \/ i = Len(c)
  BY <1>1
<1>4. flag <=> InShimCall(Last(c))
  BY <1>1, <1>2, <1>3 DEF Nested
<1>5. InShimCall(Last(c)) \in BOOLEAN
  BY DEF InShimCall
<1> QED
  BY <1>2, <1>4, <1>5

LEMMA NestedGrow ==
  ASSUME NEW c \in Seq(Frames), NEW d \in Seq(Frames), NEW f \in Frames,
         NEW flag \in BOOLEAN, NEW flag1 \in BOOLEAN,
         Grown(c, d, f), Nested(c, flag),
         c # <<>> => \/ Last(c).pc = "body"
                     \/ Last(c).pc \in {"hooked", "exporting"} /\ f.kind = "hook",
         \/ f.kind # "call"
         \/ f.handle = 0 /\ f.pc \in {"body", "failed"}
         \/ ~flag,
         flag1 <=> flag \/ InShimCall(f)
  PROVE  Nested(d, flag1)
<1>1. Len(c) \in Nat /\ Len(d) = Len(c) + 1 /\ d[Len(c) + 1] = f /\ Len(d) \in 1 .. Len(d)
  BY FrameNumbers DEF Grown
<1>2. \A i \in 1 .. Len(d) : i = Len(c) + 1 \/ (i \in 1 .. Len(c) /\ d[i] = c[i])
  BY <1>1 DEF Grown
<1>3. \A i \in 1 .. Len(c) : i \in 1 .. Len(d) /\ d[i] = c[i]
  BY <1>1 DEF Grown
<1>4. Suspended(d)
  <2> SUFFICES ASSUME NEW i \in 1 .. Len(d) - 1
               PROVE  \/ d[i].pc = "body"
                      \/ d[i].pc \in {"hooked", "exporting"} /\ d[i + 1].kind = "hook"
    BY DEF Suspended
  <2>1. CASE i = Len(c)
    <3>1. c # <<>> /\ d[i] = Last(c) /\ d[i + 1] = f
      BY <2>1, <1>1, <1>3 DEF Last
    <3> QED
      BY <3>1
  <2>2. CASE i \in 1 .. Len(c) - 1
    <3>1. d[i] = c[i] /\ d[i + 1] = c[i + 1]
      BY <2>2, <1>1, <1>3
    <3> QED
      BY <2>2, <3>1 DEF Nested, Suspended
  <2>3. i = Len(c) \/ i \in 1 .. Len(c) - 1
    BY <1>1
  <2> QED
    BY <2>1, <2>2, <2>3
<1>5. FailsOpenAbove(d)
  <2> SUFFICES ASSUME NEW i \in 1 .. Len(d), NEW j \in 1 .. Len(d), i < j,
                      InShimCall(d[i]), d[j].kind = "call"
               PROVE  d[j].handle = 0 /\ d[j].pc \in {"body", "failed"}
    BY DEF FailsOpenAbove
  <2>1. i \in 1 .. Len(c) /\ d[i] = c[i]
    BY <1>1, <1>2
  <2>2. flag
    BY <2>1 DEF Nested
  <2>3. CASE j = Len(c) + 1
    BY <2>2, <2>3, <1>1
  <2>4. CASE j \in 1 .. Len(c) /\ d[j] = c[j]
    BY <2>1, <2>4 DEF Nested, FailsOpenAbove
  <2> QED
    BY <2>3, <2>4, <1>2
<1>6. flag1 <=> \E i \in 1 .. Len(d) : InShimCall(d[i])
  BY <1>1, <1>2, <1>3 DEF Nested
<1> QED
  BY <1>4, <1>5, <1>6 DEF Nested

LEMMA NestedShrink ==
  ASSUME NEW c \in Seq(Frames), NEW d \in Seq(Frames),
         NEW flag \in BOOLEAN, NEW flag1 \in BOOLEAN,
         Shrunk(c, d), Nested(c, flag),
         flag1 <=> flag /\ ~InShimCall(Last(c))
  PROVE  Nested(d, flag1)
<1>1. /\ Len(c) \in Nat /\ Len(d) = Len(c) - 1 /\ Len(c) # 0 /\ c # <<>>
      /\ Len(c) \in 1 .. Len(c) /\ c[Len(c)] = Last(c)
  BY FrameNumbers DEF Shrunk, Last
<1>2. \A i \in 1 .. Len(d) : i \in 1 .. Len(c) /\ d[i] = c[i]
  BY <1>1 DEF Shrunk
<1>3. \A i \in 1 .. Len(c) : i = Len(c) \/ i \in 1 .. Len(d)
  BY <1>1
<1>4. Suspended(d)
  <2> SUFFICES ASSUME NEW i \in 1 .. Len(d) - 1
               PROVE  \/ d[i].pc = "body"
                      \/ d[i].pc \in {"hooked", "exporting"} /\ d[i + 1].kind = "hook"
    BY DEF Suspended
  <2>1. /\ i \in 1 .. Len(c) - 1
        /\ d[i] = c[i] /\ d[i + 1] = c[i + 1]
    BY <1>1, <1>2
  <2> QED
    BY <2>1 DEF Nested, Suspended
<1>5. FailsOpenAbove(d)
  BY <1>2 DEF Nested, FailsOpenAbove
<1>6. flag1 <=> \E i \in 1 .. Len(d) : InShimCall(d[i])
  <2>1. CASE InShimCall(Last(c))
    <3>1. Last(c).kind = "call" /\ Last(c).pc \notin {"body", "failed"}
      BY <2>1 DEF InShimCall, EnterPcs, EndPcs
    <3>2. \A i \in 1 .. Len(c) - 1 : ~InShimCall(c[i])
      BY <3>1, <1>1, NoShimCallBelow
    <3> QED
      BY <2>1, <3>2, <1>1, <1>2
  <2>2. CASE ~InShimCall(Last(c))
    BY <2>2, <1>1, <1>2, <1>3 DEF Nested
  <2> QED
    BY <2>1, <2>2
<1> QED
  BY <1>4, <1>5, <1>6 DEF Nested

LEMMA NestedReplace ==
  ASSUME NEW c \in Seq(Frames), NEW d \in Seq(Frames), NEW f \in Frames,
         NEW flag \in BOOLEAN, NEW flag1 \in BOOLEAN,
         Replaced(c, d, f), Nested(c, flag), f.kind = Last(c).kind,
         \/ /\ \A i \in 1 .. Len(c) - 1 : ~InShimCall(c[i])
            /\ flag1 <=> InShimCall(f)
         \/ /\ ~InShimCall(f) /\ ~InShimCall(Last(c))
            /\ f.kind # "call" \/ (f.handle = 0 /\ f.pc \in {"body", "failed"})
            /\ flag1 = flag
  PROVE  Nested(d, flag1)
<1>1. /\ Len(c) \in Nat /\ Len(d) = Len(c) /\ Len(c) # 0
      /\ Len(c) \in 1 .. Len(c) /\ c[Len(c)] = Last(c) /\ d[Len(c)] = f
  BY FrameNumbers DEF Replaced, Last
<1>2. \A i \in 1 .. Len(c) : i = Len(c) \/ (i \in 1 .. Len(c) - 1 /\ d[i] = c[i])
  BY <1>1 DEF Replaced
<1>3. \A i \in 1 .. Len(c) : d[i].kind = c[i].kind
  BY <1>1, <1>2
<1>4. Suspended(d)
  <2> SUFFICES ASSUME NEW i \in 1 .. Len(d) - 1
               PROVE  \/ d[i].pc = "body"
                      \/ d[i].pc \in {"hooked", "exporting"} /\ d[i + 1].kind = "hook"
    BY DEF Suspended
  <2>1. /\ i \in 1 .. Len(c) - 1 /\ i + 1 \in 1 .. Len(c)
        /\ d[i] = c[i] /\ d[i + 1].kind = c[i + 1].kind
    BY <1>1, <1>2, <1>3
  <2> QED
    BY <2>1 DEF Nested, Suspended
<1>5. FailsOpenAbove(d)
  <2> SUFFICES ASSUME NEW i \in 1 .. Len(d), NEW j \in 1 .. Len(d), i < j,
                      InShimCall(d[i]), d[j].kind = "call"
               PROVE  d[j].handle = 0 /\ d[j].pc \in {"body", "failed"}
    BY DEF FailsOpenAbove
  <2>1. i \in 1 .. Len(c) - 1 /\ d[i] = c[i] /\ i \in 1 .. Len(c)
    BY <1>1, <1>2
  <2>2. InShimCall(c[i])
    BY <2>1
  <2>3. CASE j = Len(c)
    BY <2>1, <2>2, <2>3, <1>1
  <2>4. CASE j \in 1 .. Len(c) - 1 /\ d[j] = c[j]
    BY <2>1, <2>2, <2>4, <1>1 DEF Nested, FailsOpenAbove
  <2> QED
    BY <2>3, <2>4, <1>1, <1>2
<1>6. flag1 <=> \E i \in 1 .. Len(d) : InShimCall(d[i])
  BY <1>1, <1>2 DEF Nested
<1> QED
  BY <1>4, <1>5, <1>6 DEF Nested

-----------------------------------------------------------------------------
(* The inductive invariant *)

\* The call stack c of a thread, its STACK, its context stack and its IN_SHIM
\* belong together.
ThreadOK(c, s, x, flag, n) ==
  /\ \A i \in 1 .. Len(c) : FrameOK(c[i], n)
  /\ Nested(c, flag)
  /\ StackMirrors(c, s)
  /\ ContextMirrors(c, x)

IInv ==
  /\ TypeOK
  /\ \A t \in Threads : ThreadOK(calls[t], stack[t], context[t], inShim[t], nextHandle)
  /\ errored = failed

\* Increments by other threads do no harm.
LEMMA FrameOKMonotone ==
  ASSUME NEW f \in Frames, NEW n \in Nat, NEW m \in Nat, n <= m, FrameOK(f, n)
  PROVE  FrameOK(f, m)
BY ShimAssumption DEF FrameOK

\* What a change at the end of the call stack leaves is well-formed.
LEMMA FramesOK ==
  ASSUME NEW c \in Seq(Frames), NEW d \in Seq(Frames), NEW f \in Frames, NEW n \in Nat,
         Shrunk(c, d) \/ ((Grown(c, d, f) \/ Replaced(c, d, f)) /\ FrameOK(f, n)),
         \A i \in 1 .. Len(c) : FrameOK(c[i], n)
  PROVE  \A i \in 1 .. Len(d) : FrameOK(d[i], n)
<1>1. Len(c) \in Nat
  BY FrameNumbers
<1>2. CASE Shrunk(c, d)
  <2>1. \A i \in 1 .. Len(d) : i \in 1 .. Len(c) /\ d[i] = c[i]
    BY <1>1, <1>2 DEF Shrunk
  <2> QED
    BY <2>1
<1>3. CASE Grown(c, d, f) /\ FrameOK(f, n)
  <2>1. \A i \in 1 .. Len(d) : d[i] = f \/ (i \in 1 .. Len(c) /\ d[i] = c[i])
    BY <1>1, <1>3 DEF Grown
  <2> QED
    BY <2>1, <1>3
<1>4. CASE Replaced(c, d, f) /\ FrameOK(f, n)
  <2>1. \A i \in 1 .. Len(d) : d[i] = f \/ (i \in 1 .. Len(c) /\ d[i] = c[i])
    BY <1>1, <1>4 DEF Replaced
  <2> QED
    BY <2>1, <1>4
<1> QED
  BY <1>2, <1>3, <1>4

\* A frame with neither handle nor context comes.
LEMMA PlainGrow ==
  ASSUME NEW c \in Seq(Frames), NEW d \in Seq(Frames), NEW f \in Frames,
         NEW s \in Seq(Entries), NEW x, NEW n \in Nat,
         NEW flag \in BOOLEAN, NEW flag1 \in BOOLEAN,
         Grown(c, d, f), f.handle = 0, f.pos = 0, f.slot = 0, FrameOK(f, n),
         ThreadOK(c, s, x, flag, n),
         c # <<>> => \/ Last(c).pc = "body"
                     \/ Last(c).pc \in {"hooked", "exporting"} /\ f.kind = "hook",
         f.kind # "call" \/ f.pc \in {"body", "failed"} \/ ~flag,
         flag1 <=> flag \/ InShimCall(f)
  PROVE  ThreadOK(d, s, x, flag1, n)
<1>1. \A i \in 1 .. Len(d) : FrameOK(d[i], n)
  BY FramesOK DEF ThreadOK
<1>2. Nested(d, flag1)
  BY NestedGrow DEF ThreadOK
<1>3. StackMirrors(d, s)
  BY StackPlainGrow DEF ThreadOK
<1>4. ContextMirrors(d, x)
  BY ContextPlainGrow DEF ThreadOK
<1> QED
  BY <1>1, <1>2, <1>3, <1>4 DEF ThreadOK

\* A frame with neither handle nor context goes.
LEMMA PlainShrink ==
  ASSUME NEW c \in Seq(Frames), NEW d \in Seq(Frames),
         NEW s \in Seq(Entries), NEW S, NEW x \in Seq(S), NEW n \in Nat,
         NEW flag \in BOOLEAN, NEW flag1 \in BOOLEAN,
         Shrunk(c, d), Last(c).handle = 0, Last(c).pos = 0,
         ThreadOK(c, s, x, flag, n),
         flag1 <=> flag /\ ~InShimCall(Last(c))
  PROVE  ThreadOK(d, s, x, flag1, n)
<1>1. \A i \in 1 .. Len(d) : FrameOK(d[i], n)
  <2>1. Last(c) \in Frames
    BY LastIn DEF Shrunk
  <2> QED
    BY <2>1, FramesOK DEF ThreadOK
<1>2. Nested(d, flag1)
  <2>1. Nested(c, flag)
    BY DEF ThreadOK
  <2> QED
    BY <2>1, NestedShrink
<1>3. StackMirrors(d, s)
  BY StackPlainShrink DEF ThreadOK
<1>4. ContextMirrors(d, x)
  BY ContextPlainShrink DEF ThreadOK
<1> QED
  BY <1>1, <1>2, <1>3, <1>4 DEF ThreadOK

\* The last frame goes on, with the handle and the context it has.
LEMMA PlainReplace ==
  ASSUME NEW c \in Seq(Frames), NEW d \in Seq(Frames), NEW f \in Frames,
         NEW s \in Seq(Entries), NEW x, NEW n \in Nat,
         NEW flag \in BOOLEAN, NEW flag1 \in BOOLEAN,
         Replaced(c, d, f), f.kind = Last(c).kind,
         f.handle = Last(c).handle, f.pos = Last(c).pos, f.slot = Last(c).slot,
         f.pos = 0 \/ f.span = Last(c).span, f.handle = 0 \/ f.pos # 0,
         FrameOK(f, n), ThreadOK(c, s, x, flag, n),
         \/ /\ \A i \in 1 .. Len(c) - 1 : ~InShimCall(c[i])
            /\ flag1 <=> InShimCall(f)
         \/ /\ ~InShimCall(f) /\ ~InShimCall(Last(c))
            /\ f.kind # "call" \/ (f.handle = 0 /\ f.pc \in {"body", "failed"})
            /\ flag1 = flag
  PROVE  ThreadOK(d, s, x, flag1, n)
<1>1. \A i \in 1 .. Len(d) : FrameOK(d[i], n)
  BY FramesOK DEF ThreadOK
<1>2. Nested(d, flag1)
  BY NestedReplace DEF ThreadOK
<1>3. StackMirrors(d, s)
  BY StackSame DEF ThreadOK
<1>4. ContextMirrors(d, x)
  BY ContextSame DEF ThreadOK
<1> QED
  BY <1>1, <1>2, <1>3, <1>4 DEF ThreadOK

\* The step of one thread preserves the invariant if it does so for that thread.
LEMMA OneThread ==
  ASSUME IInv, TypeOK', NEW t \in Threads,
         ThreadOK(calls'[t], stack'[t], context'[t], inShim'[t], nextHandle'),
         nextHandle <= nextHandle',
         \A u \in Threads : u # t => /\ calls'[u] = calls[u]
                                     /\ stack'[u] = stack[u]
                                     /\ context'[u] = context[u]
                                     /\ inShim'[u] = inShim[u],
         errored' = failed'
  PROVE  IInv'
<1>1. ASSUME NEW u \in Threads
      PROVE  ThreadOK(calls'[u], stack'[u], context'[u], inShim'[u], nextHandle')
  <2>1. CASE u = t
    BY <2>1
  <2>2. CASE u # t
    <3>1. ThreadOK(calls[u], stack[u], context[u], inShim[u], nextHandle)
      BY DEF IInv
    <3>2. nextHandle \in Nat /\ nextHandle' \in Nat /\ calls[u] \in Seq(Frames)
      BY DEF IInv, TypeOK
    <3>3. \A i \in 1 .. Len(calls[u]) : calls[u][i] \in Frames
      BY <3>2
    <3>4. \A i \in 1 .. Len(calls[u]) : FrameOK(calls[u][i], nextHandle')
      BY <3>1, <3>2, <3>3, FrameOKMonotone DEF ThreadOK
    <3> QED
      BY <2>2, <3>1, <3>4 DEF ThreadOK
  <2> QED
    BY <2>1, <2>2
<1> QED
  BY <1>1 DEF IInv

-----------------------------------------------------------------------------
(* What the actions make of the call stack of their thread *)

LEMMA Pushes ==
  ASSUME TypeOK, NEW t \in Threads, NEW f \in Frames, PushFrame(t, f)
  PROVE  /\ calls' \in [Threads -> Seq(Frames)]
         /\ Grown(calls[t], calls'[t], f)
         /\ \A u \in Threads : u # t => calls'[u] = calls[u]
<1>1. calls \in [Threads -> Seq(Frames)] /\ calls[t] \in Seq(Frames)
  BY DEF TypeOK
<1>2. Append(calls[t], f) \in Seq(Frames) /\ Grown(calls[t], Append(calls[t], f), f)
  BY <1>1, AppendGrows
<1> QED
  BY <1>1, <1>2 DEF PushFrame

LEMMA Sets ==
  ASSUME TypeOK, NEW t \in Threads, calls[t] # <<>>, NEW f \in Frames, SetFrame(t, f)
  PROVE  /\ calls' \in [Threads -> Seq(Frames)]
         /\ Replaced(calls[t], calls'[t], f)
         /\ \A u \in Threads : u # t => calls'[u] = calls[u]
<1>1. calls \in [Threads -> Seq(Frames)] /\ calls[t] \in Seq(Frames)
  BY DEF TypeOK
<1> DEFINE d == [calls[t] EXCEPT ![Len(calls[t])] = f]
<1>2. d \in Seq(Frames) /\ Replaced(calls[t], d, f)
  BY <1>1, ExceptReplaces
<1>3. calls' = [calls EXCEPT ![t] = d]
  BY DEF SetFrame
<1> QED
  BY <1>1, <1>2, <1>3

LEMMA Pops ==
  ASSUME TypeOK, NEW t \in Threads, calls[t] # <<>>, PopFrame(t)
  PROVE  /\ calls' \in [Threads -> Seq(Frames)]
         /\ Shrunk(calls[t], calls'[t])
         /\ \A u \in Threads : u # t => calls'[u] = calls[u]
<1>1. calls \in [Threads -> Seq(Frames)] /\ calls[t] \in Seq(Frames)
  BY DEF TypeOK
<1>2. Front(calls[t]) \in Seq(Frames) /\ Shrunk(calls[t], Front(calls[t]))
  BY <1>1, FrontShrinks
<1> QED
  BY <1>1, <1>2 DEF PopFrame

HookFrame == Frame("hook", "body", NoSpan)

\* The last frame goes on to pc p and a hook is called above it.
LEMMA CallsHook ==
  ASSUME TypeOK, NEW t \in Threads, calls[t] # <<>>, NEW p \in Pcs,
         CallHook(t, p)
  PROVE  /\ calls' \in [Threads -> Seq(Frames)]
         /\ \E m \in Seq(Frames) :
              /\ Replaced(calls[t], m, [Running(t) EXCEPT !.pc = p])
              /\ Grown(m, calls'[t], HookFrame)
         /\ \A u \in Threads : u # t => calls'[u] = calls[u]
<1>1. calls \in [Threads -> Seq(Frames)] /\ calls[t] \in Seq(Frames)
  BY DEF TypeOK
<1> DEFINE f == [Running(t) EXCEPT !.pc = p]
           m == [calls[t] EXCEPT ![Len(calls[t])] = f]
<1>2. Running(t) \in Frames /\ Running(t) = calls[t][Len(calls[t])]
  BY <1>1, LastIn DEF Running
<1>3. f \in Frames
  BY <1>2 DEF Frames
<1>4. m \in Seq(Frames) /\ Replaced(calls[t], m, f)
  BY <1>1, <1>3, ExceptReplaces
<1>5. HookFrame \in Frames
  BY ShimAssumption DEF HookFrame, Frame, Frames, Kinds, Pcs, Handles
<1>6. Append(m, HookFrame) \in Seq(Frames) /\ Grown(m, Append(m, HookFrame), HookFrame)
  BY <1>4, <1>5, AppendGrows
<1>7. m = [calls[t] EXCEPT ![Len(calls[t])].pc = p]
  BY <1>2
<1>8. calls' = [calls EXCEPT ![t] = Append(m, HookFrame)]
  BY <1>7 DEF CallHook, HookFrame
<1> QED
  BY <1>1, <1>4, <1>6, <1>8

\* What is known of the running frame.
LEMMA RunningFrame ==
  ASSUME IInv, NEW t \in Threads, calls[t] # <<>>
  PROVE  /\ Running(t) \in Frames
         /\ Running(t) = Last(calls[t])
         /\ FrameOK(Running(t), nextHandle)
         /\ calls[t] \in Seq(Frames)
         /\ Running(t).handle # 0 \/ Running(t).slot = 0
<1>1. calls[t] \in Seq(Frames)
  BY DEF IInv, TypeOK
<1>2. /\ Running(t) \in Frames /\ Running(t) = calls[t][Len(calls[t])]
      /\ Len(calls[t]) \in 1 .. Len(calls[t])
  BY <1>1, LastIn, FrameNumbers DEF Running
<1>3. ThreadOK(calls[t], stack[t], context[t], inShim[t], nextHandle)
  BY DEF IInv
<1>4. FrameOK(Running(t), nextHandle)
  BY <1>2, <1>3 DEF ThreadOK
<1>5. Running(t).handle # 0 \/ Running(t).slot = 0
  BY <1>2, <1>3 DEF ThreadOK, StackMirrors
<1> QED
  BY <1>1, <1>2, <1>4, <1>5 DEF Running

-----------------------------------------------------------------------------
(* Every action preserves the invariant *)

\* What an action that only pushes, sets or pops a frame leaves to show.
LEMMA FrameFields ==
  ASSUME NEW k \in Kinds, NEW p \in Pcs, NEW sp \in Spans \cup {NoSpan}
  PROVE  /\ Frame(k, p, sp) \in Frames
         /\ Frame(k, p, sp).kind = k
         /\ Frame(k, p, sp).pc = p
         /\ Frame(k, p, sp).span = sp
         /\ Frame(k, p, sp).handle = 0
         /\ Frame(k, p, sp).pos = 0
         /\ Frame(k, p, sp).slot = 0
BY ShimAssumption DEF Frame, Frames, Handles

LEMMA EnterReturnsZeroKeeps ==
  ASSUME IInv, NEW t \in Threads, NEW accepted \in BOOLEAN, EnterReturnsZero(t, accepted)
  PROVE  IInv'
<1> DEFINE f == Frame("call", "body", NoSpan)
<1>1. f \in Frames /\ f.kind = "call" /\ f.pc = "body" /\ f.handle = 0 /\ f.pos = 0 /\ f.slot = 0
  BY FrameFields DEF Kinds, Pcs
<1>2. PushFrame(t, f) /\ TypeOK
  BY DEF EnterReturnsZero, IInv
<1> HIDE DEF f
<1>3. /\ calls' \in [Threads -> Seq(Frames)]
      /\ Grown(calls[t], calls'[t], f)
      /\ \A u \in Threads : u # t => calls'[u] = calls[u]
  BY <1>1, <1>2, Pushes
<1>4. UNCHANGED <<stack, inShim, nextHandle, context, exporter, trace>>
  BY DEF EnterReturnsZero
<1>5. TypeOK'
  BY <1>2, <1>3, <1>4 DEF TypeOK, trace
<1>6. ThreadOK(calls'[t], stack'[t], context'[t], inShim'[t], nextHandle')
  <2>1. calls[t] # <<>> => Last(calls[t]).pc = "body"
    BY DEF EnterReturnsZero, UserCodeRuns, Running
  <2>2. FrameOK(f, nextHandle) /\ ~InShimCall(f)
    BY <1>1 DEF FrameOK, EnterPcs, EndPcs, InShimCall
  <2>3. /\ calls[t] \in Seq(Frames) /\ calls'[t] \in Seq(Frames) /\ stack[t] \in Seq(Entries)
        /\ nextHandle \in Nat /\ inShim[t] \in BOOLEAN
    BY <1>2, <1>3 DEF TypeOK
  <2>4. ThreadOK(calls[t], stack[t], context[t], inShim[t], nextHandle)
    BY DEF IInv
  <2>5. ThreadOK(calls'[t], stack[t], context[t], inShim[t], nextHandle)
    BY <1>1, <1>3, <2>1, <2>2, <2>3, <2>4, PlainGrow
  <2> QED
    BY <1>4, <2>5
<1> QED
  BY <1>2, <1>3, <1>4, <1>5, <1>6, OneThread DEF IInv, TypeOK, trace

LEMMA EnterBeginsKeeps ==
  ASSUME IInv, NEW t \in Threads, EnterBegins(t)
  PROVE  IInv'
<1> DEFINE f == Frame("call", "start", begun + 1)
<1>1. begun + 1 \in Spans /\ begun' = begun + 1
  BY ShimAssumption DEF IInv, TypeOK, EnterBegins, Spans
<1>2. /\ f \in Frames /\ f.kind = "call" /\ f.pc = "start" /\ f.span \in Spans
      /\ f.handle = 0 /\ f.pos = 0 /\ f.slot = 0
  BY <1>1, FrameFields DEF Kinds, Pcs, EnterPcs
<1>3. PushFrame(t, f) /\ TypeOK
  BY DEF EnterBegins, IInv
<1> HIDE DEF f
<1>4. /\ calls' \in [Threads -> Seq(Frames)]
      /\ Grown(calls[t], calls'[t], f)
      /\ \A u \in Threads : u # t => calls'[u] = calls[u]
  BY <1>2, <1>3, Pushes
<1>5. /\ inShim' = [inShim EXCEPT ![t] = TRUE] /\ ~inShim[t]
      /\ UNCHANGED <<stack, nextHandle, context, exporter, parent, errored, ended, failed>>
  BY DEF EnterBegins, Reentrant
<1>6. TypeOK'
  BY <1>1, <1>3, <1>4, <1>5, ShimAssumption DEF TypeOK, Spans
<1>7. ThreadOK(calls'[t], stack'[t], context'[t], inShim'[t], nextHandle')
  <2>1. calls[t] # <<>> => Last(calls[t]).pc = "body"
    BY DEF EnterBegins, UserCodeRuns, Running
  <2>2. FrameOK(f, nextHandle) /\ InShimCall(f)
    BY <1>2 DEF FrameOK, EnterPcs, EndPcs, InShimCall
  <2>3. /\ calls[t] \in Seq(Frames) /\ calls'[t] \in Seq(Frames) /\ stack[t] \in Seq(Entries)
        /\ nextHandle \in Nat /\ inShim[t] \in BOOLEAN /\ inShim'[t] = TRUE
    BY <1>3, <1>4, <1>5 DEF TypeOK
  <2>4. ThreadOK(calls[t], stack[t], context[t], inShim[t], nextHandle)
    BY DEF IInv
  <2>5. ThreadOK(calls'[t], stack[t], context[t], TRUE, nextHandle)
    BY <1>2, <1>4, <1>5, <2>1, <2>2, <2>3, <2>4, PlainGrow
  <2> QED
    BY <1>5, <2>3, <2>5
<1> QED
  BY <1>3, <1>4, <1>5, <1>6, <1>7, OneThread DEF IInv, TypeOK

\* The last frame goes on to f and waits there for a hook above it.
LEMMA HookAbove ==
  ASSUME NEW c \in Seq(Frames), NEW m \in Seq(Frames), NEW d \in Seq(Frames),
         NEW f \in Frames, NEW s \in Seq(Entries), NEW x, NEW n \in Nat,
         NEW flag \in BOOLEAN,
         Replaced(c, m, f), Grown(m, d, HookFrame),
         f.kind \in {"call", "native"}, f.kind = Last(c).kind,
         f.pc \in {"hooked", "exporting"}, Last(c).pc \notin {"body", "failed"},
         f.handle = 0, Last(c).handle = 0, f.pos = 0, Last(c).pos = 0,
         f.slot = Last(c).slot, FrameOK(f, n),
         InShimCall(f) <=> InShimCall(Last(c)),
         ThreadOK(c, s, x, flag, n)
  PROVE  ThreadOK(d, s, x, flag, n)
<1>1. \/ /\ \A i \in 1 .. Len(c) - 1 : ~InShimCall(c[i])
         /\ flag <=> InShimCall(f)
      \/ ~InShimCall(f) /\ ~InShimCall(Last(c)) /\ f.kind # "call"
  <2>1. CASE f.kind = "call"
    <3>1. Nested(c, flag) /\ c # <<>>
      BY DEF ThreadOK, Replaced
    <3>2. /\ \A i \in 1 .. Len(c) - 1 : ~InShimCall(c[i])
          /\ flag = InShimCall(Last(c))
      BY <2>1, <3>1, NoShimCallBelow
    <3> QED
      BY <3>2
  <2>2. CASE f.kind = "native"
    BY <2>2 DEF InShimCall
  <2> QED
    BY <2>1, <2>2
<1>2. ThreadOK(m, s, x, flag, n)
  BY <1>1, PlainReplace
<1>3. /\ HookFrame \in Frames /\ HookFrame.kind = "hook" /\ HookFrame.pc = "body"
      /\ HookFrame.handle = 0 /\ HookFrame.pos = 0 /\ HookFrame.slot = 0
  <2>1. "hook" \in Kinds /\ "body" \in Pcs
    BY DEF Kinds, Pcs
  <2> QED
    BY <2>1, FrameFields DEF HookFrame
<1>4. FrameOK(HookFrame, n) /\ ~InShimCall(HookFrame)
  BY <1>3 DEF FrameOK, InShimCall, EnterPcs
<1>5. m # <<>> /\ Last(m) = f
  BY DEF Replaced, Last
<1> QED
  BY <1>2, <1>3, <1>4, <1>5, PlainGrow

LEMMA HookCallKeeps ==
  ASSUME IInv, NEW t \in Threads, calls[t] # <<>>,
         NEW p \in {"hooked", "exporting"},
         Running(t).kind \in {"call", "native"},
         p = "hooked" => Running(t).kind = "call" /\ Running(t).pc = "start",
         p = "exporting" => Running(t).pc = "locking",
         CallHook(t, p),
         exporter' \in Threads \cup {NoThread},
         UNCHANGED <<stack, inShim, nextHandle, context, trace>>
  PROVE  IInv'
<1> DEFINE f == [Running(t) EXCEPT !.pc = p]
<1>1. TypeOK /\ p \in Pcs
  BY DEF IInv, Pcs, EnterPcs, EndPcs
<1>2. /\ calls' \in [Threads -> Seq(Frames)]
      /\ \E m \in Seq(Frames) : Replaced(calls[t], m, f) /\ Grown(m, calls'[t], HookFrame)
      /\ \A u \in Threads : u # t => calls'[u] = calls[u]
  BY <1>1, CallsHook
<1>3. PICK m \in Seq(Frames) : Replaced(calls[t], m, f) /\ Grown(m, calls'[t], HookFrame)
  BY <1>2
<1>4. TypeOK'
  BY <1>1, <1>2 DEF TypeOK, trace
<1>5. /\ Running(t) \in Frames /\ Running(t) = Last(calls[t])
      /\ FrameOK(Running(t), nextHandle)
      /\ calls[t] \in Seq(Frames)
  BY RunningFrame
<1>6. /\ f \in Frames /\ f.kind = Running(t).kind /\ f.pc = p
      /\ f.handle = Running(t).handle /\ f.pos = Running(t).pos
      /\ f.slot = Running(t).slot /\ f.span = Running(t).span
  BY <1>1, <1>5 DEF Frames
<1> HIDE DEF f
<1>7. Running(t).handle = 0 /\ Running(t).pos = 0 /\ Running(t).pc \notin {"body", "failed"}
  BY <1>5 DEF FrameOK
<1>8. FrameOK(f, nextHandle) /\ (InShimCall(f) <=> InShimCall(Last(calls[t])))
  BY <1>5, <1>6, <1>7 DEF FrameOK, InShimCall, EnterPcs, EndPcs
<1>9. /\ ThreadOK(calls[t], stack[t], context[t], inShim[t], nextHandle)
      /\ stack[t] \in Seq(Entries) /\ nextHandle \in Nat /\ inShim[t] \in BOOLEAN
      /\ calls'[t] \in Seq(Frames)
  BY <1>1, <1>2 DEF IInv, TypeOK
<1>10. ThreadOK(calls'[t], stack[t], context[t], inShim[t], nextHandle)
  BY <1>3, <1>5, <1>6, <1>7, <1>8, <1>9, HookAbove
<1> QED
  BY <1>2, <1>4, <1>10, OneThread DEF IInv, TypeOK, trace

LEMMA RunStartHookKeeps ==
  ASSUME IInv, NEW t \in Threads, RunStartHook(t)
  PROVE  IInv'
BY HookCallKeeps DEF RunStartHook, At, IInv, TypeOK

LEMMA LockExporterKeeps ==
  ASSUME IInv, NEW t \in Threads, LockExporter(t)
  PROVE  IInv'
BY HookCallKeeps DEF LockExporter, At

\* Increments of NEXT_HANDLE do no harm.
LEMMA ThreadOKMonotone ==
  ASSUME NEW c \in Seq(Frames), NEW s, NEW x, NEW flag,
         NEW n \in Nat, NEW m \in Nat, n <= m, ThreadOK(c, s, x, flag, n)
  PROVE  ThreadOK(c, s, x, flag, m)
<1>1. \A i \in 1 .. Len(c) : c[i] \in Frames /\ FrameOK(c[i], n)
  BY FrameNumbers DEF ThreadOK
<1>2. \A i \in 1 .. Len(c) : FrameOK(c[i], m)
  BY <1>1, FrameOKMonotone
<1> QED
  BY <1>2 DEF ThreadOK

\* The span of the last frame has started: its context is attached.
LEMMA AttachOK ==
  ASSUME NEW c \in Seq(Frames), NEW d \in Seq(Frames), NEW f \in Frames,
         NEW s \in Seq(Entries), NEW S, NEW x \in Seq(S), NEW y \in Seq(S),
         NEW n \in Nat, NEW flag \in BOOLEAN,
         Replaced(c, d, f), Grown(x, y, f.span),
         Last(c).kind = "call", Last(c).pc \in {"start", "hooked"},
         Last(c).handle = 0, Last(c).pos = 0, Last(c).slot = 0,
         f.kind = "call", f.pc = "alloc", f.span \in Spans,
         f.handle = 0, f.pos = Len(x) + 1, f.slot = 0,
         ThreadOK(c, s, x, flag, n)
  PROVE  ThreadOK(d, s, y, flag, n)
<1>1. Nested(c, flag) /\ c # <<>> /\ Len(x) \in Nat
  BY DEF ThreadOK, Replaced
<1>2. FrameOK(f, n) /\ InShimCall(f) /\ InShimCall(Last(c))
  BY <1>1 DEF FrameOK, InShimCall, EnterPcs
<1>3. /\ \A i \in 1 .. Len(c) - 1 : ~InShimCall(c[i])
      /\ flag <=> InShimCall(f)
      /\ f.kind = Last(c).kind
  BY <1>1, <1>2, NoShimCallBelow
<1>4. \A i \in 1 .. Len(d) : FrameOK(d[i], n)
  BY <1>2, FramesOK DEF ThreadOK
<1>5. Nested(d, flag)
  BY <1>1, <1>3, NestedReplace
<1>6. StackMirrors(d, s)
  BY StackSame DEF ThreadOK
<1>7. ContextMirrors(d, y)
  BY ContextAttach DEF ThreadOK
<1> QED
  BY <1>4, <1>5, <1>6, <1>7 DEF ThreadOK

\* The triple enter_span pushes for a frame.
EntryOf(f) == [handle |-> f.handle, span |-> f.span, pos |-> f.pos]

\* enter_span is done: the last frame has a handle and an entry.
LEMMA EntryOK ==
  ASSUME NEW c \in Seq(Frames), NEW d \in Seq(Frames), NEW f \in Frames,
         NEW s \in Seq(Entries), NEW r \in Seq(Entries), EntryOf(f) \in Entries,
         NEW x, NEW n \in Nat, NEW flag \in BOOLEAN,
         Replaced(c, d, f), Grown(s, r, EntryOf(f)),
         Last(c).kind = "call", Last(c).pc \in {"alloc", "retake"},
         Last(c).handle = 0, Last(c).pos # 0,
         f.kind = "call", f.pc = "body", f.span = Last(c).span, f.span \in Spans,
         f.handle # 0, f.pos = Last(c).pos, f.slot = Len(s) + 1,
         ThreadOK(c, s, x, flag, n)
  PROVE  ThreadOK(d, r, x, FALSE, n)
<1>1. Nested(c, flag) /\ c # <<>>
  BY DEF ThreadOK, Replaced
<1>2. FrameOK(f, n) /\ ~InShimCall(f)
  BY DEF FrameOK, InShimCall, EnterPcs, EndPcs
<1>3. \A i \in 1 .. Len(c) - 1 : ~InShimCall(c[i])
  BY <1>1, NoShimCallBelow
<1>4. \A i \in 1 .. Len(d) : FrameOK(d[i], n)
  BY <1>2, FramesOK DEF ThreadOK
<1>5. Nested(d, FALSE)
  BY <1>1, <1>2, <1>3, NestedReplace
<1>6. StackMirrors(d, r)
  BY StackPush DEF ThreadOK, EntryOf
<1>7. ContextMirrors(d, x)
  BY ContextSame DEF ThreadOK
<1> QED
  BY <1>4, <1>5, <1>6, <1>7 DEF ThreadOK

\* A native function is called and attaches its context.
LEMMA NativeEnterOK ==
  ASSUME NEW c \in Seq(Frames), NEW d \in Seq(Frames), NEW f \in Frames,
         NEW s \in Seq(Entries), NEW S, NEW x \in Seq(S), NEW y \in Seq(S),
         NEW n \in Nat, NEW flag \in BOOLEAN,
         Grown(c, d, f), Grown(x, y, f.span),
         c # <<>> => Last(c).pc = "body",
         f.kind = "native", f.pc = "body", f.span \in Spans,
         f.handle = 0, f.pos = Len(x) + 1, f.slot = 0,
         ThreadOK(c, s, x, flag, n)
  PROVE  ThreadOK(d, s, y, flag, n)
<1>1. FrameOK(f, n) /\ ~InShimCall(f)
  <2>1. Len(x) \in Nat
    OBVIOUS
  <2> QED
    BY <2>1 DEF FrameOK, InShimCall, EnterPcs
<1>2. \A i \in 1 .. Len(d) : FrameOK(d[i], n)
  BY <1>1, FramesOK DEF ThreadOK
<1>3. Nested(d, flag)
  BY <1>1, NestedGrow DEF ThreadOK
<1>4. StackMirrors(d, s)
  BY StackPlainGrow DEF ThreadOK
<1>5. ContextMirrors(d, y)
  BY ContextPush DEF ThreadOK
<1> QED
  BY <1>2, <1>3, <1>4, <1>5 DEF ThreadOK

\* A native function is over and has detached its context.
LEMMA NativeExitOK ==
  ASSUME NEW c \in Seq(Frames), NEW d \in Seq(Frames), NEW f \in Frames,
         NEW s \in Seq(Entries), NEW S, NEW x \in Seq(S), NEW y \in Seq(S),
         NEW n \in Nat, NEW flag \in BOOLEAN,
         Replaced(c, d, f), Shrunk(x, y),
         Last(c).kind = "native", Last(c).handle = 0, Last(c).pos # 0, Last(c).slot = 0,
         f.kind = "native", f.pc = "ending", f.handle = 0, f.pos = 0, f.slot = 0,
         ThreadOK(c, s, x, flag, n)
  PROVE  ThreadOK(d, s, y, flag, n)
<1>1. FrameOK(f, n) /\ ~InShimCall(f) /\ ~InShimCall(Last(c))
  BY DEF FrameOK, InShimCall, EnterPcs
<1>2. \A i \in 1 .. Len(d) : FrameOK(d[i], n)
  BY <1>1, FramesOK DEF ThreadOK
<1>3. Nested(d, flag)
  BY <1>1, NestedReplace DEF ThreadOK
<1>4. StackMirrors(d, s)
  BY StackSame DEF ThreadOK
<1>5. ContextMirrors(d, y)
  BY ContextDetach DEF ThreadOK
<1> QED
  BY <1>2, <1>3, <1>4, <1>5 DEF ThreadOK

LEMMA StartSpanKeeps ==
  ASSUME IInv, NEW t \in Threads, StartSpan(t)
  PROVE  IInv'
<1> DEFINE g == Running(t)
           f == [g EXCEPT !.pc = "alloc", !.pos = Len(context[t]) + 1]
<1>1. /\ TypeOK /\ calls[t] # <<>> /\ g.kind = "call" /\ g.pc \in {"start", "hooked"}
      /\ SetFrame(t, f)
      /\ context' = [context EXCEPT ![t] = Append(@, g.span)]
      /\ parent' = [parent EXCEPT ![g.span] = Current(t)]
      /\ UNCHANGED <<stack, inShim, nextHandle, exporter, begun, errored, ended, failed>>
  BY DEF StartSpan, At, IInv
<1>2. /\ g \in Frames /\ g = Last(calls[t]) /\ FrameOK(g, nextHandle)
      /\ calls[t] \in Seq(Frames) /\ (g.handle # 0 \/ g.slot = 0)
  BY <1>1, RunningFrame
<1>3. g.handle = 0 /\ g.pos = 0 /\ g.slot = 0 /\ g.span \in Spans
  BY <1>1, <1>2 DEF FrameOK, EnterPcs
<1> DEFINE S == Spans \cup {NoSpan}
<1>4. /\ context \in [Threads -> Seq(S)] /\ context[t] \in Seq(S)
      /\ Len(context[t]) \in Nat
  BY <1>1 DEF TypeOK
<1>5. /\ f \in Frames /\ f.kind = "call" /\ f.pc = "alloc" /\ f.span = g.span
      /\ f.handle = 0 /\ f.slot = 0 /\ f.pos = Len(context[t]) + 1
  <2>1. "alloc" \in Pcs /\ Len(context[t]) + 1 \in Nat /\ g.kind = "call" /\ g \in Frames
    BY <1>1, <1>2, <1>4 DEF Pcs, EnterPcs
  <2>2. /\ f \in Frames /\ f.kind = g.kind /\ f.pc = "alloc" /\ f.span = g.span
        /\ f.handle = g.handle /\ f.pos = Len(context[t]) + 1 /\ f.slot = g.slot
    <3>1. f = [g EXCEPT !.pc = "alloc", !.pos = Len(context[t]) + 1]
      OBVIOUS
    <3> HIDE DEF f, g
    <3> QED
      BY <2>1, <3>1 DEF Frames
  <2> QED
    BY <2>1, <2>2, <1>3
<1>6. Current(t) \in S
  BY <1>4, LastIn DEF Current
<1> HIDE DEF f, g
<1>7. /\ calls' \in [Threads -> Seq(Frames)]
      /\ Replaced(calls[t], calls'[t], f)
      /\ \A u \in Threads : u # t => calls'[u] = calls[u]
  BY <1>1, <1>5, Sets
<1>8. /\ Append(context[t], f.span) \in Seq(S)
      /\ Grown(context[t], Append(context[t], f.span), f.span)
  BY <1>3, <1>4, <1>5, AppendGrows
<1>9. /\ context' \in [Threads -> Seq(S)]
      /\ Grown(context[t], context'[t], f.span)
      /\ \A u \in Threads : u # t => context'[u] = context[u]
  BY <1>1, <1>4, <1>5, <1>8
<1>10. TypeOK'
  BY <1>1, <1>3, <1>6, <1>7, <1>9 DEF TypeOK
<1>11. ThreadOK(calls'[t], stack'[t], context'[t], inShim'[t], nextHandle')
  <2>1. /\ ThreadOK(calls[t], stack[t], context[t], inShim[t], nextHandle)
        /\ stack[t] \in Seq(Entries) /\ nextHandle \in Nat /\ inShim[t] \in BOOLEAN
        /\ calls'[t] \in Seq(Frames) /\ context'[t] \in Seq(S)
    BY <1>1, <1>7, <1>9 DEF IInv, TypeOK
  <2>2. /\ Last(calls[t]).kind = "call" /\ Last(calls[t]).pc \in {"start", "hooked"}
        /\ Last(calls[t]).handle = 0 /\ Last(calls[t]).pos = 0 /\ Last(calls[t]).slot = 0
        /\ f.span \in Spans /\ calls[t] \in Seq(Frames) /\ context[t] \in Seq(S)
    <3>1. g.kind = "call" /\ g.pc \in {"start", "hooked"}
      BY <1>1
    <3>2. g = Last(calls[t]) /\ calls[t] \in Seq(Frames)
      BY <1>2
    <3> QED
      BY <3>1, <3>2, <1>3, <1>4, <1>5
  <2>3. Replaced(calls[t], calls'[t], f) /\ Grown(context[t], context'[t], f.span)
    BY <1>7, <1>9
  <2>4. ThreadOK(calls'[t], stack[t], context'[t], inShim[t], nextHandle)
    BY <2>1, <2>2, <2>3, <1>5, AttachOK
  <2> QED
    BY <1>1, <2>4
<1> QED
  BY <1>1, <1>7, <1>9, <1>10, <1>11, OneThread DEF IInv, TypeOK

LEMMA StartPanicsKeeps ==
  ASSUME IInv, NEW t \in Threads, StartPanics(t)
  PROVE  IInv'
<1> DEFINE g == Running(t)
           f == Frame("call", "body", NoSpan)
<1>1. /\ TypeOK /\ calls[t] # <<>> /\ g.kind = "call" /\ g.pc \in {"start", "hooked"}
      /\ SetFrame(t, f)
      /\ inShim' = [inShim EXCEPT ![t] = FALSE]
      /\ UNCHANGED <<stack, nextHandle, context, exporter, trace>>
  BY DEF StartPanics, At, IInv
<1>2. /\ g \in Frames /\ g = Last(calls[t]) /\ FrameOK(g, nextHandle)
      /\ calls[t] \in Seq(Frames) /\ (g.handle # 0 \/ g.slot = 0)
  BY <1>1, RunningFrame
<1>3. g.handle = 0 /\ g.pos = 0 /\ g.slot = 0
  BY <1>1, <1>2 DEF FrameOK
<1>4. f \in Frames /\ f.kind = "call" /\ f.pc = "body" /\ f.handle = 0 /\ f.pos = 0 /\ f.slot = 0
  BY FrameFields DEF Kinds, Pcs
<1> HIDE DEF f, g
<1>5. /\ calls' \in [Threads -> Seq(Frames)]
      /\ Replaced(calls[t], calls'[t], f)
      /\ \A u \in Threads : u # t => calls'[u] = calls[u]
  BY <1>1, <1>4, Sets
<1>6. TypeOK'
  BY <1>1, <1>5 DEF TypeOK, trace
<1>7. ThreadOK(calls'[t], stack'[t], context'[t], inShim'[t], nextHandle')
  <2>1. ThreadOK(calls[t], stack[t], context[t], inShim[t], nextHandle)
    BY DEF IInv
  <2>2. /\ stack[t] \in Seq(Entries) /\ nextHandle \in Nat /\ inShim[t] \in BOOLEAN
        /\ calls'[t] \in Seq(Frames) /\ calls[t] \in Seq(Frames)
    BY <1>5 DEF TypeOK, IInv
  <2>3. /\ f.kind = Last(calls[t]).kind /\ f.handle = Last(calls[t]).handle
        /\ f.pos = Last(calls[t]).pos /\ f.slot = Last(calls[t]).slot
        /\ Last(calls[t]).kind = "call" /\ Last(calls[t]).pc \notin {"body", "failed"}
    BY <1>1, <1>2, <1>3, <1>4
  <2>4. Nested(calls[t], inShim[t])
    BY <2>1 DEF ThreadOK
  <2>5. \A i \in 1 .. Len(calls[t]) - 1 : ~InShimCall(calls[t][i])
    <3>1. calls[t] # <<>>
      BY <1>1
    <3> QED
      BY <3>1, <2>2, <2>3, <2>4, NoShimCallBelow
  <2>6. ~InShimCall(f) /\ FrameOK(f, nextHandle)
    BY <1>4 DEF InShimCall, EnterPcs, EndPcs, FrameOK
  <2>7. Replaced(calls[t], calls'[t], f)
    BY <1>5
  <2>8. ThreadOK(calls'[t], stack[t], context[t], FALSE, nextHandle)
    BY <2>1, <2>2, <2>3, <2>5, <2>6, <2>7, <1>4, PlainReplace
  <2>9. inShim'[t] = FALSE
    BY <1>1 DEF TypeOK
  <2> QED
    BY <1>1, <2>8, <2>9
<1> QED
  BY <1>1, <1>5, <1>6, <1>7, OneThread DEF IInv, TypeOK, trace

\* A draw of NEXT_HANDLE is below HandleSpace, and not 0 after the one that was.
LEMMA HandleDrawn ==
  ASSUME NEW n \in Nat, n # 0, n < 2 * HandleSpace
  PROVE  /\ HandleAt(n) \in Handles
         /\ HandleAt(n) = 0 => n = HandleSpace
BY ShimAssumption DEF HandleAt, Handles

LEMMA PushEntryKeeps ==
  ASSUME IInv, NEW t \in Threads, calls[t] # <<>>, Running(t).kind = "call",
         Running(t).pc \in {"alloc", "retake"},
         NEW h \in Handles, h # 0, PushEntry(t, h),
         nextHandle < 2 * HandleSpace, nextHandle' = nextHandle + 1,
         UNCHANGED <<context, exporter, trace>>
  PROVE  IInv'
<1> DEFINE g == Running(t)
           f == [g EXCEPT !.pc = "body", !.handle = h, !.slot = Len(stack[t]) + 1]
           e == [handle |-> h, span |-> g.span, pos |-> g.pos]
<1>1. /\ TypeOK /\ SetFrame(t, f)
      /\ stack' = [stack EXCEPT ![t] = Append(@, e)]
      /\ inShim' = [inShim EXCEPT ![t] = FALSE]
  BY DEF PushEntry, IInv
<1>2. /\ g \in Frames /\ g = Last(calls[t]) /\ FrameOK(g, nextHandle)
      /\ calls[t] \in Seq(Frames)
  BY RunningFrame
<1>3. g.handle = 0 /\ g.pos # 0 /\ g.pos \in Nat /\ g.span \in Spans
  BY <1>2 DEF FrameOK, Frames
<1>4. stack \in [Threads -> Seq(Entries)] /\ stack[t] \in Seq(Entries) /\ Len(stack[t]) \in Nat
  BY <1>1 DEF TypeOK
<1>5. /\ f \in Frames /\ f.kind = "call" /\ f.pc = "body" /\ f.span = g.span
      /\ f.handle = h /\ f.slot = Len(stack[t]) + 1 /\ f.pos = g.pos
  <2>1. "body" \in Pcs /\ Len(stack[t]) + 1 \in Nat /\ g.kind = "call" /\ g \in Frames
    BY <1>2, <1>4 DEF Pcs
  <2>2. /\ f \in Frames /\ f.kind = g.kind /\ f.pc = "body" /\ f.span = g.span
        /\ f.handle = h /\ f.pos = g.pos /\ f.slot = Len(stack[t]) + 1
    <3>1. f = [g EXCEPT !.pc = "body", !.handle = h, !.slot = Len(stack[t]) + 1]
      OBVIOUS
    <3> HIDE DEF f, g
    <3> QED
      BY <2>1, <3>1 DEF Frames
  <2> QED
    BY <2>1, <2>2
<1>6. e \in Entries /\ e = EntryOf(f)
  BY <1>3, <1>5 DEF Entries, EntryOf
<1> HIDE DEF f, g, e
<1>7. /\ calls' \in [Threads -> Seq(Frames)]
      /\ Replaced(calls[t], calls'[t], f)
      /\ \A u \in Threads : u # t => calls'[u] = calls[u]
  BY <1>1, <1>5, Sets
<1>8. Append(stack[t], e) \in Seq(Entries) /\ Grown(stack[t], Append(stack[t], e), e)
  BY <1>4, <1>6, AppendGrows
<1>9. /\ stack' \in [Threads -> Seq(Entries)]
      /\ Grown(stack[t], stack'[t], e)
      /\ \A u \in Threads : u # t => stack'[u] = stack[u]
  BY <1>1, <1>4, <1>8
<1>10. nextHandle \in Nat /\ nextHandle' \in 1 .. 2 * HandleSpace /\ nextHandle <= nextHandle'
  BY <1>1, ShimAssumption DEF TypeOK
<1>11. TypeOK'
  BY <1>1, <1>7, <1>9, <1>10 DEF TypeOK, trace
<1>12. ThreadOK(calls'[t], stack'[t], context'[t], inShim'[t], nextHandle')
  <2>1. ThreadOK(calls[t], stack[t], context[t], inShim[t], nextHandle)
    BY DEF IInv
  <2>2. /\ inShim[t] \in BOOLEAN /\ nextHandle \in Nat
        /\ calls'[t] \in Seq(Frames) /\ calls[t] \in Seq(Frames)
        /\ stack'[t] \in Seq(Entries) /\ stack[t] \in Seq(Entries)
    BY <1>1, <1>2, <1>4, <1>7, <1>9, <1>10 DEF TypeOK
  <2>3. /\ Last(calls[t]).kind = "call" /\ Last(calls[t]).pc \in {"alloc", "retake"}
        /\ Last(calls[t]).handle = 0 /\ Last(calls[t]).pos # 0
        /\ f.span = Last(calls[t]).span /\ f.span \in Spans
        /\ f.pos = Last(calls[t]).pos /\ f.handle # 0
    BY <1>2, <1>3, <1>5 DEF g
  <2>4. Replaced(calls[t], calls'[t], f) /\ Grown(stack[t], stack'[t], EntryOf(f))
    BY <1>6, <1>7, <1>9
  <2>5. ThreadOK(calls'[t], stack'[t], context[t], FALSE, nextHandle)
    <3>1. /\ f \in Frames /\ EntryOf(f) \in Entries
          /\ f.kind = "call" /\ f.pc = "body" /\ f.slot = Len(stack[t]) + 1
      BY <1>5, <1>6
    <3> QED
      BY <2>1, <2>2, <2>3, <2>4, <3>1, EntryOK
  <2>6. nextHandle' \in Nat /\ nextHandle <= nextHandle'
    BY <1>10, ShimAssumption
  <2>7. ThreadOK(calls'[t], stack'[t], context[t], FALSE, nextHandle')
    BY <2>2, <2>5, <2>6, ThreadOKMonotone
  <2>8. inShim'[t] = FALSE
    BY <1>1 DEF TypeOK
  <2> QED
    BY <2>7, <2>8
<1> QED
  BY <1>1, <1>7, <1>9, <1>10, <1>11, <1>12, OneThread DEF IInv, TypeOK, trace

LEMMA TakeHandleKeeps ==
  ASSUME IInv, NEW t \in Threads, TakeHandle(t)
  PROVE  IInv'
<1> DEFINE g == Running(t)
           f == [g EXCEPT !.pc = "retake"]
<1>1. /\ TypeOK /\ calls[t] # <<>> /\ g.kind = "call" /\ g.pc = "alloc"
      /\ nextHandle < 2 * HandleSpace /\ nextHandle' = nextHandle + 1
      /\ UNCHANGED <<context, exporter, trace>>
  BY DEF TakeHandle, At, IInv
<1>2. nextHandle \in Nat /\ nextHandle # 0
  BY <1>1, ShimAssumption DEF TypeOK
<1>3. CASE HandleAt(nextHandle) # 0 /\ PushEntry(t, HandleAt(nextHandle))
  BY <1>1, <1>2, <1>3, HandleDrawn, PushEntryKeeps
<1>4. CASE /\ HandleAt(nextHandle) = 0
           /\ SetFrame(t, f)
           /\ UNCHANGED <<stack, inShim>>
  <2>1. /\ g \in Frames /\ g = Last(calls[t]) /\ FrameOK(g, nextHandle)
        /\ calls[t] \in Seq(Frames)
    BY <1>1, RunningFrame
  <2>2. g.handle = 0 /\ g.pos # 0 /\ g.span \in Spans
    BY <1>1, <2>1 DEF FrameOK, EnterPcs
  <2>3. nextHandle = HandleSpace
    BY <1>1, <1>2, <1>4, HandleDrawn
  <2>4. /\ f \in Frames /\ f.kind = "call" /\ f.pc = "retake" /\ f.span = g.span
        /\ f.handle = 0 /\ f.slot = g.slot /\ f.pos = g.pos
    <3>1. g \in Frames /\ g.kind = "call" /\ "retake" \in Pcs
      BY <1>1, <2>1 DEF Pcs, EnterPcs
    <3>2. f = [g EXCEPT !.pc = "retake"]
      OBVIOUS
    <3> HIDE DEF f, g
    <3> QED
      BY <3>1, <3>2, <2>2 DEF Frames
  <2> HIDE DEF f, g
  <2>5. /\ calls' \in [Threads -> Seq(Frames)]
        /\ Replaced(calls[t], calls'[t], f)
        /\ \A u \in Threads : u # t => calls'[u] = calls[u]
    BY <1>1, <1>4, <2>4, Sets
  <2>6. nextHandle' \in 1 .. 2 * HandleSpace /\ nextHandle' \in Nat /\ nextHandle <= nextHandle'
    BY <1>1, <1>2, ShimAssumption
  <2>7. TypeOK'
    BY <1>1, <1>4, <2>5, <2>6 DEF TypeOK, trace
  <2>8. ThreadOK(calls'[t], stack'[t], context'[t], inShim'[t], nextHandle')
    <3>1. ThreadOK(calls[t], stack[t], context[t], inShim[t], nextHandle)
      BY DEF IInv
    <3>2. ThreadOK(calls[t], stack[t], context[t], inShim[t], nextHandle')
      BY <1>2, <2>1, <2>6, <3>1, ThreadOKMonotone
    <3>3. /\ inShim[t] \in BOOLEAN /\ calls'[t] \in Seq(Frames)
          /\ calls[t] \in Seq(Frames) /\ stack[t] \in Seq(Entries)
      BY <2>5 DEF IInv, TypeOK
    <3>4. /\ f.kind = Last(calls[t]).kind /\ f.handle = Last(calls[t]).handle
          /\ f.pos = Last(calls[t]).pos /\ f.slot = Last(calls[t]).slot
          /\ f.span = Last(calls[t]).span /\ f.handle = 0
          /\ Last(calls[t]).kind = "call" /\ Last(calls[t]).pc = "alloc"
      BY <1>1, <2>1, <2>2, <2>4 DEF g
    <3>5. FrameOK(f, nextHandle') /\ InShimCall(f) /\ InShimCall(Last(calls[t]))
      BY <1>1, <2>2, <2>3, <2>4, <3>4, ShimAssumption DEF FrameOK, InShimCall, EnterPcs
    <3>6. /\ \A i \in 1 .. Len(calls[t]) - 1 : ~InShimCall(calls[t][i])
          /\ inShim[t] <=> InShimCall(f)
      <4>1. Nested(calls[t], inShim[t]) /\ calls[t] # <<>>
        BY <1>1, <3>1 DEF ThreadOK
      <4>2. /\ \A i \in 1 .. Len(calls[t]) - 1 : ~InShimCall(calls[t][i])
            /\ inShim[t] = InShimCall(Last(calls[t]))
        BY <4>1, <3>3, <3>4, NoShimCallBelow
      <4> QED
        BY <4>2, <3>5
    <3>7. Replaced(calls[t], calls'[t], f) /\ f \in Frames
      BY <2>4, <2>5
    <3>8. ThreadOK(calls'[t], stack[t], context[t], inShim[t], nextHandle')
      BY <3>2, <3>3, <3>4, <3>5, <3>6, <3>7, <2>6, PlainReplace
    <3> QED
      BY <3>8, <1>1, <1>4
  <2> QED
    BY <1>1, <1>4, <2>5, <2>6, <2>7, <2>8, OneThread DEF IInv, TypeOK, trace
<1> QED
  BY <1>3, <1>4 DEF TakeHandle

LEMMA RetakeHandleKeeps ==
  ASSUME IInv, NEW t \in Threads, RetakeHandle(t)
  PROVE  IInv'
<1>1. /\ TypeOK /\ calls[t] # <<>> /\ Running(t).kind = "call" /\ Running(t).pc = "retake"
      /\ nextHandle < 2 * HandleSpace /\ nextHandle' = nextHandle + 1
      /\ PushEntry(t, HandleAt(nextHandle))
      /\ UNCHANGED <<context, exporter, trace>>
  BY DEF RetakeHandle, At, IInv
<1>2. nextHandle \in Nat /\ nextHandle # 0
  BY <1>1, ShimAssumption DEF TypeOK
<1>3. nextHandle > HandleSpace
  BY <1>1, RunningFrame DEF FrameOK
<1>4. HandleAt(nextHandle) \in Handles /\ HandleAt(nextHandle) # 0
  BY <1>1, <1>2, <1>3, HandleDrawn, ShimAssumption
<1> QED
  BY <1>1, <1>4, PushEntryKeeps

-----------------------------------------------------------------------------
(* set_error and exit act on the entry of the running frame *)

LEMMA ErrorTargetTop ==
  ASSUME NEW s \in Seq(Entries), s # <<>>, NEW h, Last(s).handle = h
  PROVE  ErrorTarget(s, h) = {Last(s).span}
<1>1. Len(s) \in Nat /\ Len(s) # 0 /\ DOMAIN s = 1 .. Len(s) /\ Last(s) = s[Len(s)]
  BY DEF Last
<1>2. {i \in DOMAIN s : /\ s[i].handle = h
                        /\ \A j \in i + 1 .. Len(s) : s[j].handle # h} = {Len(s)}
  <2>1. ASSUME NEW i \in DOMAIN s, \A j \in i + 1 .. Len(s) : s[j].handle # h
        PROVE  i = Len(s)
    <3>1. i \in Nat /\ i <= Len(s)
      BY <1>1
    <3>2. i = Len(s) \/ Len(s) \in i + 1 .. Len(s)
      BY <1>1, <3>1
    <3> QED
      BY <1>1, <2>1, <3>2
  <2>2. Len(s) \in DOMAIN s /\ s[Len(s)].handle = h
    BY <1>1
  <2>3. Len(s) + 1 .. Len(s) = {}
    BY <1>1
  <2> QED
    BY <2>1, <2>2, <2>3
<1> QED
  BY <1>1, <1>2 DEF ErrorTarget

LEMMA ErrorTargetTyped ==
  ASSUME NEW s \in Seq(Entries), NEW h
  PROVE  ErrorTarget(s, h) \in SUBSET Spans
<1>1. \A i \in DOMAIN s : s[i] \in Entries
  OBVIOUS
<1>2. \A e \in Entries : e.span \in Spans
  BY DEF Entries
<1> QED
  BY <1>1, <1>2 DEF ErrorTarget

LEMMA PopMatchingTop ==
  ASSUME NEW s \in Seq(Entries), s # <<>>, NEW h, Last(s).handle = h
  PROVE  /\ PopMatching(s, h) = Front(s)
         /\ PopMatching(s, h) # s
         /\ PopMatching(s, h) \in Seq(Entries)
         /\ Shrunk(s, PopMatching(s, h))
<1>1. Front(s) \in Seq(Entries) /\ Shrunk(s, Front(s))
  BY FrontShrinks
<1>2. Front(s) # s
  <2>1. Len(Front(s)) = Len(s) - 1 /\ Len(s) \in Nat
    BY <1>1 DEF Shrunk
  <2> QED
    BY <2>1
<1> QED
  BY <1>1, <1>2 DEF PopMatching

\* A trampoline function that has a span finds its entry on top of STACK, its
\* context on top of the context stack and IN_SHIM clear.
LEMMA LiveCall ==
  ASSUME IInv, NEW t \in Threads, At(t, {"call"}, {"body", "failed"}),
         Running(t).handle # 0
  PROVE  /\ ~inShim[t]
         /\ stack[t] # <<>>
         /\ Last(stack[t]).handle = Running(t).handle
         /\ Last(stack[t]).span = Running(t).span
         /\ Last(stack[t]).pos = Running(t).pos
         /\ context[t] # <<>>
         /\ Running(t).pos = Len(context[t])
         /\ Running(t).pos # 0
         /\ Running(t).span \in Spans
         /\ \A i \in 1 .. Len(calls[t]) - 1 : ~InShimCall(calls[t][i])
<1> DEFINE c == calls[t]
<1>1. /\ c # <<>> /\ Last(c) = Running(t) /\ Last(c).kind = "call"
      /\ Last(c).pc \in {"body", "failed"} /\ c \in Seq(Frames)
      /\ FrameOK(Last(c), nextHandle)
  BY RunningFrame DEF At
<1>2. /\ Nested(c, inShim[t]) /\ StackMirrors(c, stack[t]) /\ ContextMirrors(c, context[t])
      /\ inShim[t] \in BOOLEAN /\ stack[t] \in Seq(Entries)
      /\ context[t] \in Seq(Spans \cup {NoSpan})
  BY DEF IInv, ThreadOK, TypeOK
<1>3. Last(c).pos # 0 /\ Last(c).span \in Spans /\ Last(c).handle # 0
  BY <1>1 DEF FrameOK
<1> HIDE DEF c
<1>4. /\ \A i \in 1 .. Len(c) - 1 : ~InShimCall(c[i])
      /\ inShim[t] = InShimCall(Last(c))
  BY <1>1, <1>2, <1>3, NoShimCallBelow
<1>5. ~InShimCall(Last(c))
  BY <1>1 DEF InShimCall, EnterPcs, EndPcs
<1>6. /\ stack[t] # <<>>
      /\ Last(stack[t]) = [handle |-> Last(c).handle, span |-> Last(c).span, pos |-> Last(c).pos]
  BY <1>1, <1>2, <1>3, StackTop
<1>7. context[t] # <<>> /\ Last(c).pos = Len(context[t])
  BY <1>1, <1>2, <1>3, ContextTop
<1>8. c = calls[t]
  BY DEF c
<1> QED
  BY <1>1, <1>3, <1>4, <1>5, <1>6, <1>7, <1>8

\* A body that fails: pc goes to "failed", nothing else of the frame changes.
LEMMA FailKeeps ==
  ASSUME IInv, NEW t \in Threads, NEW k \in {"call", "native"}, At(t, {k}, {"body"}),
         SetFrame(t, [Running(t) EXCEPT !.pc = "failed"]),
         errored' \in SUBSET Spans, errored' = failed',
         UNCHANGED <<stack, inShim, nextHandle, context, exporter, begun, parent, ended>>
  PROVE  IInv'
<1> DEFINE g == Running(t)
           f == [g EXCEPT !.pc = "failed"]
           c == calls[t]
<1>1. TypeOK /\ c # <<>> /\ g.kind = k /\ g.pc = "body" /\ SetFrame(t, f)
  BY DEF At, IInv
<1>2. g \in Frames /\ g = Last(c) /\ FrameOK(g, nextHandle) /\ c \in Seq(Frames)
  BY <1>1, RunningFrame
<1>3. /\ f \in Frames /\ f.kind = k /\ f.pc = "failed" /\ f.span = g.span
      /\ f.handle = g.handle /\ f.pos = g.pos /\ f.slot = g.slot
  <2>1. "failed" \in Pcs /\ f = [g EXCEPT !.pc = "failed"]
    BY DEF Pcs
  <2> HIDE DEF f, g
  <2> QED
    BY <1>1, <1>2, <2>1 DEF Frames
<1> HIDE DEF f, g
<1>4. /\ calls' \in [Threads -> Seq(Frames)]
      /\ Replaced(c, calls'[t], f)
      /\ \A u \in Threads : u # t => calls'[u] = calls[u]
  BY <1>1, <1>3, Sets
<1>5. TypeOK'
  BY <1>1, <1>4 DEF TypeOK
<1>6. ThreadOK(calls'[t], stack[t], context[t], inShim[t], nextHandle)
  <2>1. /\ ThreadOK(c, stack[t], context[t], inShim[t], nextHandle)
        /\ nextHandle \in Nat /\ inShim[t] \in BOOLEAN /\ calls'[t] \in Seq(Frames)
        /\ stack[t] \in Seq(Entries)
    BY <1>4 DEF IInv, TypeOK
  <2>2. /\ f.kind = Last(c).kind /\ f.handle = Last(c).handle /\ f.pos = Last(c).pos
        /\ f.slot = Last(c).slot /\ f.span = Last(c).span /\ Last(c).pc = "body"
    BY <1>1, <1>2, <1>3
  <2>3. /\ FrameOK(f, nextHandle) /\ (f.handle = 0 \/ f.pos # 0)
        /\ ~InShimCall(f) /\ ~InShimCall(Last(c))
    BY <1>1, <1>2, <1>3 DEF FrameOK, InShimCall, EnterPcs, EndPcs
  <2>4. \/ /\ \A i \in 1 .. Len(c) - 1 : ~InShimCall(c[i])
           /\ inShim[t] <=> InShimCall(f)
        \/ f.kind # "call" \/ (f.handle = 0 /\ f.pc \in {"body", "failed"})
    <3>1. CASE k = "call" /\ f.handle # 0
      <4>1. c # <<>> /\ Nested(c, inShim[t]) /\ Last(c).kind = "call" /\ Last(c).handle # 0
        BY <3>1, <1>1, <1>3, <2>1, <2>2 DEF ThreadOK
      <4>2. /\ \A i \in 1 .. Len(c) - 1 : ~InShimCall(c[i])
            /\ inShim[t] = InShimCall(Last(c))
        BY <4>1, <2>1, <1>2, NoShimCallBelow
      <4> QED
        BY <4>2, <2>3
    <3> QED
      BY <3>1, <1>3
  <2>5. Replaced(c, calls'[t], f) /\ c \in Seq(Frames) /\ f \in Frames
    BY <1>2, <1>3, <1>4
  <2> HIDE DEF c
  <2> QED
    BY <2>1, <2>2, <2>3, <2>4, <2>5, PlainReplace
<1> QED
  BY <1>4, <1>5, <1>6, OneThread DEF IInv, TypeOK

LEMMA BodyFailsKeeps ==
  ASSUME IInv, NEW t \in Threads, BodyFails(t)
  PROVE  IInv'
<1>1. /\ At(t, {"call"}, {"body"})
      /\ failed' = failed \cup IF Running(t).handle # 0 THEN {Running(t).span} ELSE {}
      /\ errored' = errored \cup IF Running(t).handle # 0 /\ ~inShim[t]
                                 THEN ErrorTarget(stack[t], Running(t).handle) ELSE {}
      /\ SetFrame(t, [Running(t) EXCEPT !.pc = "failed"])
      /\ UNCHANGED <<stack, inShim, nextHandle, context, exporter, begun, parent, ended>>
  BY DEF BodyFails, Reentrant
<1>2. errored \in SUBSET Spans /\ errored = failed /\ stack[t] \in Seq(Entries)
  BY DEF IInv, TypeOK
<1>3. errored' \in SUBSET Spans /\ errored' = failed'
  <2>1. CASE Running(t).handle = 0
    BY <2>1, <1>1, <1>2
  <2>2. CASE Running(t).handle # 0
    <3>1. At(t, {"call"}, {"body", "failed"})
      BY <1>1 DEF At
    <3>2. /\ ~inShim[t] /\ stack[t] # <<>> /\ Last(stack[t]).handle = Running(t).handle
          /\ Last(stack[t]).span = Running(t).span /\ Running(t).span \in Spans
      BY <2>2, <3>1, LiveCall
    <3>3. ErrorTarget(stack[t], Running(t).handle) = {Running(t).span}
      BY <1>2, <3>2, ErrorTargetTop
    <3> QED
      BY <2>2, <1>1, <1>2, <3>2, <3>3
  <2> QED
    BY <2>1, <2>2
<1> QED
  BY <1>1, <1>3, FailKeeps

LEMMA NativeFailsKeeps ==
  ASSUME IInv, NEW t \in Threads, NativeFails(t)
  PROVE  IInv'
<1>1. /\ At(t, {"native"}, {"body"})
      /\ errored' = errored \cup {Running(t).span}
      /\ failed' = failed \cup {Running(t).span}
      /\ SetFrame(t, [Running(t) EXCEPT !.pc = "failed"])
      /\ UNCHANGED <<stack, inShim, nextHandle, context, exporter, begun, parent, ended>>
  BY DEF NativeFails
<1>2. Running(t).span \in Spans
  BY <1>1, RunningFrame DEF At, FrameOK
<1>3. errored' \in SUBSET Spans /\ errored' = failed'
  BY <1>1, <1>2 DEF IInv, TypeOK
<1> QED
  BY <1>1, <1>3, FailKeeps

\* The last frame, which has neither handle nor context, goes.
LEMMA PopKeeps ==
  ASSUME IInv, NEW t \in Threads, calls[t] # <<>>, PopFrame(t),
         Running(t).handle = 0, Running(t).pos = 0,
         inShim' \in [Threads -> BOOLEAN],
         inShim'[t] <=> inShim[t] /\ ~InShimCall(Running(t)),
         \A u \in Threads : u # t => inShim'[u] = inShim[u],
         exporter' \in Threads \cup {NoThread},
         UNCHANGED <<stack, nextHandle, context, trace>>
  PROVE  IInv'
<1>1. /\ TypeOK /\ Running(t) = Last(calls[t]) /\ calls[t] \in Seq(Frames)
  BY RunningFrame DEF IInv
<1>2. /\ calls' \in [Threads -> Seq(Frames)]
      /\ Shrunk(calls[t], calls'[t])
      /\ \A u \in Threads : u # t => calls'[u] = calls[u]
  BY <1>1, Pops
<1>3. TypeOK'
  BY <1>1, <1>2 DEF TypeOK, trace
<1>4. ThreadOK(calls'[t], stack[t], context[t], inShim'[t], nextHandle)
  <2>1. /\ ThreadOK(calls[t], stack[t], context[t], inShim[t], nextHandle)
        /\ nextHandle \in Nat /\ inShim[t] \in BOOLEAN /\ inShim'[t] \in BOOLEAN
        /\ calls'[t] \in Seq(Frames) /\ stack[t] \in Seq(Entries)
        /\ context[t] \in Seq(Spans \cup {NoSpan})
    BY <1>1, <1>2 DEF IInv, TypeOK
  <2>2. /\ Last(calls[t]).handle = 0 /\ Last(calls[t]).pos = 0
        /\ inShim'[t] <=> inShim[t] /\ ~InShimCall(Last(calls[t]))
    BY <1>1
  <2> QED
    BY <2>1, <2>2, <1>1, <1>2, PlainShrink
<1> QED
  BY <1>2, <1>3, <1>4, OneThread DEF IInv, TypeOK, trace

LEMMA ExitNoopKeeps ==
  ASSUME IInv, NEW t \in Threads, ExitNoop(t)
  PROVE  IInv'
<1>1. /\ At(t, {"call"}, {"body", "failed"}) /\ ~ExitPops(t) /\ PopFrame(t)
      /\ UNCHANGED <<stack, inShim, nextHandle, context, exporter, trace>>
  BY DEF ExitNoop
<1>2. Running(t).handle = 0
  <2> SUFFICES ASSUME Running(t).handle # 0 PROVE FALSE
    OBVIOUS
  <2>1. ~inShim[t] /\ stack[t] # <<>> /\ Last(stack[t]).handle = Running(t).handle
    BY <1>1, LiveCall
  <2>2. stack[t] \in Seq(Entries)
    BY DEF IInv, TypeOK
  <2>3. PopMatching(stack[t], Running(t).handle) # stack[t]
    BY <2>1, <2>2, PopMatchingTop
  <2> QED
    BY <1>1, <2>1, <2>3 DEF ExitPops, Reentrant
<1>3. /\ Running(t).pos = 0 /\ ~InShimCall(Running(t)) /\ calls[t] # <<>>
  BY <1>1, <1>2, RunningFrame DEF At, FrameOK, InShimCall, EnterPcs, EndPcs
<1>4. inShim \in [Threads -> BOOLEAN] /\ exporter \in Threads \cup {NoThread}
  BY DEF IInv, TypeOK
<1> QED
  BY <1>1, <1>2, <1>3, <1>4, PopKeeps

LEMMA HookReturnsKeeps ==
  ASSUME IInv, NEW t \in Threads, HookReturns(t)
  PROVE  IInv'
<1>1. /\ At(t, {"hook"}, {"body"}) /\ PopFrame(t)
      /\ UNCHANGED <<stack, inShim, nextHandle, context, exporter, trace>>
  BY DEF HookReturns
<1>2. /\ Running(t).handle = 0 /\ Running(t).pos = 0 /\ calls[t] # <<>>
      /\ ~InShimCall(Running(t))
  BY <1>1, RunningFrame DEF At, FrameOK, InShimCall
<1>3. inShim \in [Threads -> BOOLEAN] /\ exporter \in Threads \cup {NoThread}
  BY DEF IInv, TypeOK
<1> QED
  BY <1>1, <1>2, <1>3, PopKeeps

\* A frame whose span has ended is left, and IN_SHIM with it if it is the shim's.
LEMMA LeaveEndKeeps ==
  ASSUME IInv, NEW t \in Threads, At(t, {"call", "native"}, {"ending", "exporting"}),
         LeaveEnd(t), exporter' \in Threads \cup {NoThread},
         UNCHANGED <<stack, nextHandle, context, trace>>
  PROVE  IInv'
<1>1. /\ PopFrame(t) /\ calls[t] # <<>>
      /\ inShim' = [inShim EXCEPT ![t] = IF Running(t).kind = "call" THEN FALSE ELSE @]
      /\ inShim \in [Threads -> BOOLEAN]
  BY DEF LeaveEnd, At, IInv, TypeOK
<1>2. /\ FrameOK(Running(t), nextHandle)
      /\ Running(t).kind \in {"call", "native"} /\ Running(t).pc \in {"ending", "exporting"}
  BY <1>1, RunningFrame DEF At
<1>3. Running(t).handle = 0 /\ Running(t).pos = 0
  BY <1>2 DEF FrameOK
<1>4. InShimCall(Running(t)) <=> Running(t).kind = "call"
  BY <1>2 DEF InShimCall, EndPcs
<1>5. /\ inShim' \in [Threads -> BOOLEAN]
      /\ inShim'[t] <=> inShim[t] /\ ~InShimCall(Running(t))
      /\ \A u \in Threads : u # t => inShim'[u] = inShim[u]
  BY <1>1, <1>4
<1> QED
  BY <1>1, <1>3, <1>5, PopKeeps

LEMMA EndQuietlyKeeps ==
  ASSUME IInv, NEW t \in Threads, EndQuietly(t)
  PROVE  IInv'
BY LeaveEndKeeps DEF EndQuietly, At, IInv, TypeOK

LEMMA ExportEndsKeeps ==
  ASSUME IInv, NEW t \in Threads, ExportEnds(t)
  PROVE  IInv'
BY LeaveEndKeeps DEF ExportEnds, At

LEMMA ExportWantedKeeps ==
  ASSUME IInv, NEW t \in Threads, ExportWanted(t)
  PROVE  IInv'
<1> DEFINE g == Running(t)
           f == [g EXCEPT !.pc = "locking"]
           c == calls[t]
<1>1. /\ TypeOK /\ c # <<>> /\ g.kind \in {"call", "native"} /\ g.pc = "ending"
      /\ SetFrame(t, f)
      /\ UNCHANGED <<stack, inShim, nextHandle, context, exporter, trace>>
  BY DEF ExportWanted, At, IInv
<1>2. /\ g \in Frames /\ g = Last(c) /\ FrameOK(g, nextHandle) /\ c \in Seq(Frames)
  BY <1>1, RunningFrame
<1>3. g.handle = 0 /\ g.pos = 0
  BY <1>1, <1>2 DEF FrameOK
<1>4. /\ f \in Frames /\ f.kind = g.kind /\ f.pc = "locking" /\ f.span = g.span
      /\ f.handle = g.handle /\ f.pos = g.pos /\ f.slot = g.slot
  <2>1. "locking" \in Pcs /\ f = [g EXCEPT !.pc = "locking"] /\ g \in Frames
    BY <1>2 DEF Pcs, EndPcs
  <2> HIDE DEF f, g
  <2> QED
    BY <2>1 DEF Frames
<1> HIDE DEF f, g
<1>5. /\ calls' \in [Threads -> Seq(Frames)]
      /\ Replaced(c, calls'[t], f)
      /\ \A u \in Threads : u # t => calls'[u] = calls[u]
  BY <1>1, <1>4, Sets
<1>6. TypeOK'
  BY <1>1, <1>5 DEF TypeOK, trace
<1>7. ThreadOK(calls'[t], stack[t], context[t], inShim[t], nextHandle)
  <2>1. /\ ThreadOK(c, stack[t], context[t], inShim[t], nextHandle)
        /\ nextHandle \in Nat /\ inShim[t] \in BOOLEAN /\ calls'[t] \in Seq(Frames)
        /\ stack[t] \in Seq(Entries)
    BY <1>5 DEF IInv, TypeOK
  <2>2. /\ f.kind = Last(c).kind /\ f.handle = Last(c).handle /\ f.pos = Last(c).pos
        /\ f.slot = Last(c).slot /\ f.handle = 0 /\ f.pos = 0
        /\ f.kind \in {"call", "native"} /\ Last(c).pc = "ending" /\ c # <<>>
    BY <1>1, <1>2, <1>3, <1>4
  <2>3. FrameOK(f, nextHandle)
    BY <2>2, <1>4 DEF FrameOK, EnterPcs
  <2>4. \/ /\ \A i \in 1 .. Len(c) - 1 : ~InShimCall(c[i])
           /\ inShim[t] <=> InShimCall(f)
        \/ ~InShimCall(f) /\ ~InShimCall(Last(c)) /\ f.kind # "call"
    <3>1. CASE f.kind = "call"
      <4>1. Nested(c, inShim[t])
        BY <2>1 DEF ThreadOK
      <4>2. /\ \A i \in 1 .. Len(c) - 1 : ~InShimCall(c[i])
            /\ inShim[t] = InShimCall(Last(c))
        BY <3>1, <4>1, <2>1, <2>2, <1>2, NoShimCallBelow
      <4>3. InShimCall(Last(c)) /\ InShimCall(f)
        BY <3>1, <2>2, <1>4 DEF InShimCall, EndPcs
      <4> QED
        BY <4>2, <4>3
    <3>2. CASE f.kind = "native"
      BY <3>2, <2>2 DEF InShimCall
    <3> QED
      BY <3>1, <3>2, <2>2
  <2>5. Replaced(c, calls'[t], f) /\ c \in Seq(Frames) /\ f \in Frames
    BY <1>2, <1>4, <1>5
  <2> HIDE DEF c
  <2> QED
    BY <2>1, <2>2, <2>3, <2>4, <2>5, PlainReplace
<1> QED
  BY <1>1, <1>5, <1>6, <1>7, OneThread DEF IInv, TypeOK, trace

\* A context attached last is detached by popping it.
LEMMA DetachesTop ==
  ASSUME NEW S, NEW x \in Seq(S), x # <<>>
  PROVE  Detach(x, Len(x)) \in Seq(S) /\ Shrunk(x, Detach(x, Len(x)))
BY FrontShrinks DEF Detach

LEMMA ExitEndsKeeps ==
  ASSUME IInv, NEW t \in Threads, ExitEnds(t)
  PROVE  IInv'
<1> DEFINE g == Running(t)
           f == Frame("call", "ending", g.span)
           c == calls[t]
           S == Spans \cup {NoSpan}
<1>1. /\ TypeOK /\ At(t, {"call"}, {"body", "failed"}) /\ c # <<>> /\ g.kind = "call"
      /\ g.handle # 0 /\ SetFrame(t, f)
      /\ stack' = [stack EXCEPT ![t] = PopMatching(@, g.handle)]
      /\ context' = [context EXCEPT ![t] = Detach(@, Last(stack[t]).pos)]
      /\ ended' = ended \cup {Last(stack[t]).span}
      /\ inShim' = [inShim EXCEPT ![t] = TRUE]
      /\ UNCHANGED <<nextHandle, exporter, begun, parent, errored, failed>>
  BY DEF ExitEnds, At, ExitPops, IInv
<1>2. g \in Frames /\ g = Last(c) /\ c \in Seq(Frames)
  BY <1>1, RunningFrame
<1>3. /\ stack[t] # <<>> /\ Last(stack[t]).handle = g.handle
      /\ Last(stack[t]).pos = Len(context[t]) /\ Last(stack[t]).span \in Spans
      /\ context[t] # <<>> /\ g.pos # 0 /\ g.span \in Spans
  BY <1>1, LiveCall
<1>4. /\ f \in Frames /\ f.kind = "call" /\ f.pc = "ending"
      /\ f.handle = 0 /\ f.pos = 0 /\ f.slot = 0
  <2>1. "call" \in Kinds /\ "ending" \in Pcs /\ g.span \in Spans \cup {NoSpan}
    BY <1>3 DEF Kinds, Pcs, EndPcs
  <2> QED
    BY <2>1, FrameFields
<1> HIDE DEF f, g
<1>5. /\ calls' \in [Threads -> Seq(Frames)]
      /\ Replaced(c, calls'[t], f)
      /\ \A u \in Threads : u # t => calls'[u] = calls[u]
  BY <1>1, <1>4, Sets
<1>6. /\ stack \in [Threads -> Seq(Entries)] /\ stack[t] \in Seq(Entries)
      /\ context \in [Threads -> Seq(S)] /\ context[t] \in Seq(S)
  BY <1>1 DEF TypeOK
<1>7. /\ stack' \in [Threads -> Seq(Entries)]
      /\ Shrunk(stack[t], stack'[t])
      /\ \A u \in Threads : u # t => stack'[u] = stack[u]
  <2>1. /\ PopMatching(stack[t], g.handle) \in Seq(Entries)
        /\ Shrunk(stack[t], PopMatching(stack[t], g.handle))
    BY <1>3, <1>6, PopMatchingTop
  <2> QED
    BY <2>1, <1>1, <1>6
<1>8. /\ context' \in [Threads -> Seq(S)]
      /\ Shrunk(context[t], context'[t])
      /\ \A u \in Threads : u # t => context'[u] = context[u]
  <2>1. /\ Detach(context[t], Len(context[t])) \in Seq(S)
        /\ Shrunk(context[t], Detach(context[t], Len(context[t])))
    BY <1>3, <1>6, DetachesTop
  <2>2. context' = [context EXCEPT ![t] = Detach(context[t], Len(context[t]))]
    BY <1>1, <1>3
  <2> QED
    BY <2>1, <2>2, <1>6
<1>9. TypeOK'
  BY <1>1, <1>3, <1>5, <1>7, <1>8 DEF TypeOK
<1>10. ThreadOK(calls'[t], stack'[t], context'[t], TRUE, nextHandle)
  <2>1. /\ ThreadOK(c, stack[t], context[t], inShim[t], nextHandle)
        /\ nextHandle \in Nat /\ inShim[t] \in BOOLEAN /\ calls'[t] \in Seq(Frames)
        /\ stack'[t] \in Seq(Entries) /\ context'[t] \in Seq(S)
    BY <1>5, <1>7, <1>8 DEF IInv, TypeOK
  <2>2. Last(c).kind = "call" /\ Last(c).handle # 0 /\ Last(c).pos # 0
    BY <1>1, <1>2, <1>3 DEF g
  <2>3. /\ Replaced(c, calls'[t], f) /\ Shrunk(stack[t], stack'[t])
        /\ Shrunk(context[t], context'[t])
        /\ c \in Seq(Frames) /\ stack[t] \in Seq(Entries) /\ context[t] \in Seq(S)
    BY <1>2, <1>5, <1>6, <1>7, <1>8
  <2> HIDE DEF c
  <2>4. FrameOK(f, nextHandle) /\ InShimCall(f)
    BY <1>4 DEF FrameOK, InShimCall, EnterPcs, EndPcs
  <2>5. Nested(c, inShim[t]) /\ c # <<>>
    BY <2>1, <2>3 DEF ThreadOK, Replaced
  <2>6. \A i \in 1 .. Len(c) - 1 : ~InShimCall(c[i])
    BY <2>1, <2>2, <2>3, <2>5, NoShimCallBelow
  <2>7. \A i \in 1 .. Len(calls'[t]) : FrameOK(calls'[t][i], nextHandle)
    BY <2>1, <2>3, <2>4, <1>4, FramesOK DEF ThreadOK
  <2>8. Nested(calls'[t], TRUE)
    BY <2>1, <2>2, <2>3, <2>4, <2>5, <2>6, <1>4, NestedReplace
  <2>9. StackMirrors(calls'[t], stack'[t])
    BY <2>1, <2>2, <2>3, <1>4, StackPop DEF ThreadOK
  <2>10. ContextMirrors(calls'[t], context'[t])
    BY <2>1, <2>2, <2>3, <1>4, ContextDetach DEF ThreadOK
  <2> QED
    BY <2>7, <2>8, <2>9, <2>10 DEF ThreadOK
<1>11. inShim'[t] = TRUE
  BY <1>1 DEF TypeOK
<1> QED
  BY <1>1, <1>5, <1>7, <1>8, <1>9, <1>10, <1>11, OneThread DEF IInv, TypeOK

\* A stray exit finds another handle on top, a stray set_error finds none.
LEMMA StrayExitKeeps ==
  ASSUME IInv, NEW t \in Threads, NEW h, StrayExit(t, h)
  PROVE  IInv'
<1>1. stack \in [Threads -> Seq(Entries)]
  BY DEF IInv, TypeOK
<1>2. PopMatching(stack[t], h) = stack[t]
  BY DEF StrayExit, PopMatching
<1>3. stack' = stack
  BY <1>1, <1>2 DEF StrayExit
<1>4. UNCHANGED vars
  BY <1>3 DEF StrayExit, vars, trace
<1> QED
  BY <1>4 DEF IInv, TypeOK, vars

LEMMA StraySetErrorKeeps ==
  ASSUME IInv, NEW t \in Threads, NEW h, StraySetError(t, h)
  PROVE  IInv'
<1>1. ErrorTarget(stack[t], h) = {}
  BY DEF StraySetError, ErrorTarget
<1>2. errored' = errored
  BY <1>1 DEF StraySetError
<1>3. UNCHANGED vars
  BY <1>2 DEF StraySetError, vars, local
<1> QED
  BY <1>3 DEF IInv, TypeOK, vars

LEMMA NativeEnterKeeps ==
  ASSUME IInv, NEW t \in Threads, NativeEnter(t)
  PROVE  IInv'
<1> DEFINE g == Frame("native", "body", begun + 1)
           f == [g EXCEPT !.pos = Len(context[t]) + 1]
           c == calls[t]
           S == Spans \cup {NoSpan}
<1>1. /\ TypeOK /\ UserCodeRuns(t) /\ PushFrame(t, f)
      /\ begun' = begun + 1
      /\ context' = [context EXCEPT ![t] = Append(@, begun + 1)]
      /\ parent' = [parent EXCEPT ![begun + 1] = Current(t)]
      /\ UNCHANGED <<stack, inShim, nextHandle, exporter, errored, ended, failed>>
  BY DEF NativeEnter, IInv
<1>2. begun + 1 \in Spans /\ begun + 1 \in 0 .. MaxSpans
  BY <1>1, ShimAssumption DEF NativeEnter, TypeOK, Spans
<1>3. /\ context \in [Threads -> Seq(S)] /\ context[t] \in Seq(S)
      /\ Len(context[t]) \in Nat
  BY <1>1 DEF TypeOK
<1>4. /\ g \in Frames /\ g.kind = "native" /\ g.pc = "body" /\ g.span = begun + 1
      /\ g.handle = 0 /\ g.slot = 0
  BY <1>2, FrameFields DEF Kinds, Pcs
<1> HIDE DEF g
<1>5. /\ f \in Frames /\ f.kind = "native" /\ f.pc = "body" /\ f.span = begun + 1
      /\ f.handle = 0 /\ f.slot = 0 /\ f.pos = Len(context[t]) + 1
  <2>1. f = [g EXCEPT !.pos = Len(context[t]) + 1] /\ Len(context[t]) + 1 \in Nat
    BY <1>3
  <2> HIDE DEF f
  <2> QED
    BY <2>1, <1>4 DEF Frames
<1>6. Current(t) \in S
  BY <1>3, LastIn DEF Current
<1> HIDE DEF f
<1>7. /\ calls' \in [Threads -> Seq(Frames)]
      /\ Grown(c, calls'[t], f)
      /\ \A u \in Threads : u # t => calls'[u] = calls[u]
  BY <1>1, <1>5, Pushes
<1>8. /\ context' \in [Threads -> Seq(S)]
      /\ Grown(context[t], context'[t], f.span)
      /\ \A u \in Threads : u # t => context'[u] = context[u]
  <2>1. /\ Append(context[t], begun + 1) \in Seq(S)
        /\ Grown(context[t], Append(context[t], begun + 1), begun + 1)
    BY <1>2, <1>3, AppendGrows
  <2> QED
    BY <2>1, <1>1, <1>3, <1>5
<1>9. TypeOK'
  BY <1>1, <1>2, <1>6, <1>7, <1>8 DEF TypeOK
<1>10. ThreadOK(calls'[t], stack[t], context'[t], inShim[t], nextHandle)
  <2>1. /\ ThreadOK(c, stack[t], context[t], inShim[t], nextHandle)
        /\ nextHandle \in Nat /\ inShim[t] \in BOOLEAN /\ calls'[t] \in Seq(Frames)
        /\ stack[t] \in Seq(Entries) /\ context'[t] \in Seq(S) /\ c \in Seq(Frames)
    BY <1>7, <1>8 DEF IInv, TypeOK
  <2>2. c # <<>> => Last(c).pc = "body"
    BY <1>1 DEF UserCodeRuns, Running
  <2>3. f.span \in Spans
    BY <1>2, <1>5
  <2>4. Grown(c, calls'[t], f) /\ Grown(context[t], context'[t], f.span)
    BY <1>7, <1>8
  <2>5. context[t] \in Seq(S)
    BY <1>3
  <2> HIDE DEF c, S
  <2> QED
    BY <2>1, <2>2, <2>3, <2>4, <2>5, <1>5, NativeEnterOK, SMTT(60)
<1> QED
  BY <1>1, <1>7, <1>8, <1>9, <1>10, OneThread DEF IInv, TypeOK

LEMMA NativeExitKeeps ==
  ASSUME IInv, NEW t \in Threads, NativeExit(t)
  PROVE  IInv'
<1> DEFINE g == Running(t)
           f == Frame("native", "ending", g.span)
           c == calls[t]
           S == Spans \cup {NoSpan}
<1>1. /\ TypeOK /\ c # <<>> /\ g.kind = "native" /\ g.pc \in {"body", "failed"}
      /\ SetFrame(t, f)
      /\ context' = [context EXCEPT ![t] = Detach(@, g.pos)]
      /\ ended' = ended \cup {g.span}
      /\ UNCHANGED <<stack, inShim, nextHandle, exporter, begun, parent, errored, failed>>
  BY DEF NativeExit, At, IInv
<1>2. /\ g \in Frames /\ g = Last(c) /\ c \in Seq(Frames) /\ FrameOK(g, nextHandle)
      /\ (g.handle # 0 \/ g.slot = 0)
  BY <1>1, RunningFrame
<1>3. g.handle = 0 /\ g.slot = 0 /\ g.pos # 0 /\ g.span \in Spans
  BY <1>1, <1>2 DEF FrameOK
<1>4. /\ f \in Frames /\ f.kind = "native" /\ f.pc = "ending"
      /\ f.handle = 0 /\ f.pos = 0 /\ f.slot = 0
  <2>1. "native" \in Kinds /\ "ending" \in Pcs /\ g.span \in Spans \cup {NoSpan}
    BY <1>3 DEF Kinds, Pcs, EndPcs
  <2> QED
    BY <2>1, FrameFields
<1>5. Last(c).kind = "native" /\ Last(c).handle = 0 /\ Last(c).pos # 0 /\ Last(c).slot = 0
  BY <1>1, <1>2, <1>3
<1> HIDE DEF f, g
<1>6. /\ calls' \in [Threads -> Seq(Frames)]
      /\ Replaced(c, calls'[t], f)
      /\ \A u \in Threads : u # t => calls'[u] = calls[u]
  BY <1>1, <1>4, Sets
<1>7. context \in [Threads -> Seq(S)] /\ context[t] \in Seq(S)
  BY <1>1 DEF TypeOK
<1>8. context[t] # <<>> /\ g.pos = Len(context[t])
  <2>1. ContextMirrors(c, context[t])
    BY DEF IInv, ThreadOK
  <2> QED
    BY <2>1, <1>1, <1>2, <1>5, <1>7, ContextTop
<1>9. /\ context' \in [Threads -> Seq(S)]
      /\ Shrunk(context[t], context'[t])
      /\ \A u \in Threads : u # t => context'[u] = context[u]
  <2>1. /\ Detach(context[t], Len(context[t])) \in Seq(S)
        /\ Shrunk(context[t], Detach(context[t], Len(context[t])))
    BY <1>7, <1>8, DetachesTop
  <2>2. context' = [context EXCEPT ![t] = Detach(context[t], Len(context[t]))]
    BY <1>1, <1>8
  <2> QED
    BY <2>1, <2>2, <1>7
<1>10. TypeOK'
  BY <1>1, <1>3, <1>6, <1>9 DEF TypeOK
<1>11. ThreadOK(calls'[t], stack[t], context'[t], inShim[t], nextHandle)
  <2>1. /\ ThreadOK(c, stack[t], context[t], inShim[t], nextHandle)
        /\ nextHandle \in Nat /\ inShim[t] \in BOOLEAN /\ calls'[t] \in Seq(Frames)
        /\ stack[t] \in Seq(Entries) /\ context'[t] \in Seq(S)
    BY <1>6, <1>9 DEF IInv, TypeOK
  <2>2. /\ Replaced(c, calls'[t], f) /\ Shrunk(context[t], context'[t])
        /\ c \in Seq(Frames) /\ context[t] \in Seq(S)
    BY <1>2, <1>6, <1>7, <1>9
  <2> HIDE DEF c, S
  <2> QED
    BY <2>1, <2>2, <1>4, <1>5, NativeExitOK
<1> QED
  BY <1>1, <1>6, <1>9, <1>10, <1>11, OneThread DEF IInv, TypeOK

-----------------------------------------------------------------------------
(* The invariants of the specification *)

LEMMA IInvInit == Init => IInv
<1> SUFFICES ASSUME Init PROVE IInv
  OBVIOUS
<1>1. TypeOK
  BY ShimAssumption, EmptySeq DEF Init, TypeOK, Spans, NoSpan
<1>2. ASSUME NEW t \in Threads
      PROVE  ThreadOK(calls[t], stack[t], context[t], inShim[t], nextHandle)
  <2>1. /\ calls[t] = <<>> /\ stack[t] = <<>> /\ context[t] = <<>> /\ inShim[t] = FALSE
    BY DEF Init
  <2>2. Len(<<>>) = 0
    OBVIOUS
  <2> QED
    BY <2>1, <2>2 DEF ThreadOK, Nested, Suspended, FailsOpenAbove, StackMirrors, ContextMirrors
<1> QED
  BY <1>1, <1>2 DEF IInv, Init

LEMMA IInvStep == IInv /\ [Next]_vars => IInv'
<1> SUFFICES ASSUME IInv, [Next]_vars PROVE IInv'
  OBVIOUS
<1>1. CASE UNCHANGED vars
  BY <1>1 DEF IInv, TypeOK, vars
<1>2. ASSUME NEW t \in Threads, EnterStep(t) PROVE IInv'
  BY <1>2, StartSpanKeeps, StartPanicsKeeps, TakeHandleKeeps, RetakeHandleKeeps DEF EnterStep
<1>3. ASSUME NEW t \in Threads, EndStep(t) PROVE IInv'
  BY <1>3, EndQuietlyKeeps, ExportWantedKeeps, ExportEndsKeeps DEF EndStep
<1>4. ASSUME NEW t \in Threads, LockExporter(t) \/ HookReturns(t) \/ ExitNoop(t) PROVE IInv'
  BY <1>4, LockExporterKeeps, HookReturnsKeeps, ExitNoopKeeps
<1>5. ASSUME NEW t \in Threads, UserStep(t) PROVE IInv'
  <2>1. CASE \E accepted \in BOOLEAN : EnterReturnsZero(t, accepted)
    BY <2>1, EnterReturnsZeroKeeps
  <2>2. CASE EnterBegins(t) \/ RunStartHook(t)
    BY <2>2, EnterBeginsKeeps, RunStartHookKeeps
  <2>3. CASE BodyFails(t) \/ ExitEnds(t)
    BY <2>3, BodyFailsKeeps, ExitEndsKeeps
  <2>4. CASE \E h \in Handles : StrayExit(t, h) \/ StraySetError(t, h)
    BY <2>4, StrayExitKeeps, StraySetErrorKeeps
  <2>5. CASE NativeEnter(t) \/ NativeFails(t) \/ NativeExit(t)
    BY <2>5, NativeEnterKeeps, NativeFailsKeeps, NativeExitKeeps
  <2> QED
    BY <1>5, <2>1, <2>2, <2>3, <2>4, <2>5 DEF UserStep
<1> QED
  BY <1>1, <1>2, <1>3, <1>4, <1>5 DEF Next

LEMMA IInvAlways == Spec => []IInv
BY IInvInit, IInvStep, PTL DEF Spec

\* The state of the shim is always well-typed: a drawn handle fits in the width of
\* the counter, and the span of an entry or an error status is a started one.
THEOREM ShimTypeOK == Spec => []TypeOK
<1>1. IInv => TypeOK
  BY DEF IInv
<1> QED
  BY <1>1, IInvAlways, PTL

\* Whatever calls nest, panic, fail open or re-enter, STACK mirrors the call stack.
THEOREM ShimStackMirrorsCalls == Spec => []StackMirrorsCalls
<1>1. IInv => StackMirrorsCalls
  BY DEF IInv, ThreadOK, StackMirrorsCalls
<1> QED
  BY <1>1, IInvAlways, PTL

\* And so does the context stack that the shim shares with native functions.
THEOREM ShimContextMirrorsCalls == Spec => []ContextMirrorsCalls
<1>1. IInv => ContextMirrorsCalls
  BY DEF IInv, ThreadOK, ContextMirrorsCalls
<1> QED
  BY <1>1, IInvAlways, PTL

\* IN_SHIM is set exactly while a shim call is in progress on the thread.
THEOREM ShimFlagIsExact == Spec => []FlagIsExact
<1>1. IInv => FlagIsExact
  BY DEF IInv, ThreadOK, Nested, FlagIsExact
<1> QED
  BY <1>1, IInvAlways, PTL

\* An error status is on exactly the spans whose own body returned Err.
THEOREM ShimErrorsAreAttributed == Spec => []ErrorsAreAttributed
<1>1. IInv => ErrorsAreAttributed
  BY DEF IInv, ErrorsAreAttributed
<1> QED
  BY <1>1, IInvAlways, PTL

-----------------------------------------------------------------------------
(* Without native functions, an export runs inside a shim call             *)

\* A hook waits on a frame that called it, and native frames need NativeSpans.
HooksOK(c) ==
  \A i \in 1 .. Len(c) :
    /\ c[i].kind = "native" => NativeSpans
    /\ c[i].kind = "hook" => i > 1 /\ c[i - 1].pc \in {"hooked", "exporting"}

LEMMA HooksGrow ==
  ASSUME NEW S, NEW c \in Seq(S), NEW d \in Seq(S), NEW f, Grown(c, d, f), HooksOK(c),
         f.kind = "native" => NativeSpans,
         f.kind = "hook" => c # <<>> /\ Last(c).pc \in {"hooked", "exporting"}
  PROVE  HooksOK(d)
<1>1. Len(c) \in Nat /\ Len(d) = Len(c) + 1
  BY DEF Grown
<1>2. \A i \in 1 .. Len(d) : i = Len(c) + 1 \/ i \in 1 .. Len(c)
  BY <1>1
<1>3. \A i \in 1 .. Len(c) : d[i] = c[i] /\ (i > 1 => d[i - 1] = c[i - 1])
  BY <1>1 DEF Grown
<1>4. d[Len(c) + 1] = f /\ (c # <<>> => Len(c) + 1 > 1 /\ d[Len(c) + 1 - 1] = Last(c))
  BY <1>1 DEF Grown, Last
<1>5. ASSUME NEW i \in 1 .. Len(d)
      PROVE  /\ d[i].kind = "native" => NativeSpans
             /\ d[i].kind = "hook" => i > 1 /\ d[i - 1].pc \in {"hooked", "exporting"}
  <2>1. CASE i = Len(c) + 1
    BY <2>1, <1>4
  <2>2. CASE i \in 1 .. Len(c)
    <3>1. d[i] = c[i] /\ (i > 1 => d[i - 1] = c[i - 1])
      BY <2>2, <1>3
    <3> QED
      BY <2>2, <3>1 DEF HooksOK
  <2> QED
    BY <2>1, <2>2, <1>2
<1> QED
  BY <1>5 DEF HooksOK

LEMMA HooksReplace ==
  ASSUME NEW S, NEW c \in Seq(S), NEW d \in Seq(S), NEW f, Replaced(c, d, f), HooksOK(c),
         f.kind = Last(c).kind, Last(c).kind # "hook"
  PROVE  HooksOK(d)
<1>1. Len(c) \in Nat /\ Len(d) = Len(c)
  BY DEF Replaced
<1>2. \A i \in 1 .. Len(c) : i = Len(c) \/ (d[i] = c[i] /\ (i > 1 => d[i - 1] = c[i - 1]))
  BY <1>1 DEF Replaced
<1>3. d[Len(c)].kind = c[Len(c)].kind /\ c[Len(c)].kind # "hook"
  BY <1>1 DEF Replaced, Last
<1> QED
  BY <1>1, <1>2, <1>3 DEF HooksOK

LEMMA HooksShrink ==
  ASSUME NEW S, NEW c \in Seq(S), NEW d \in Seq(S), Shrunk(c, d), HooksOK(c)
  PROVE  HooksOK(d)
<1>1. Len(c) \in Nat /\ Len(d) = Len(c) - 1
  BY DEF Shrunk
<1>2. \A i \in 1 .. Len(d) : i \in 1 .. Len(c) /\ d[i] = c[i] /\ (i > 1 => d[i - 1] = c[i - 1])
  BY <1>1 DEF Shrunk
<1> QED
  BY <1>2 DEF HooksOK

\* What a step may do to the call stack of its thread.
CallsStep(t) ==
  \/ calls' = calls
  \/ \E f : PushFrame(t, f) /\ (f.kind = "call" \/ (f.kind = "native" /\ NativeSpans))
  \/ /\ calls[t] # <<>> /\ Running(t).kind \in {"call", "native"}
     /\ \/ \E f : SetFrame(t, f) /\ f.kind = Running(t).kind
        \/ \E p \in {"hooked", "exporting"} : CallHook(t, p)
  \/ calls[t] # <<>> /\ PopFrame(t)

LEMMA StepIsCallsStep ==
  ASSUME TypeOK, Next
  PROVE  \E t \in Threads : CallsStep(t)
<1>1. \A k, p, sp : Frame(k, p, sp).kind = k
  BY DEF Frame
<1>2. ASSUME NEW t \in Threads, calls[t] # <<>>
      PROVE  Running(t) \in Frames
  BY <1>2, LastIn DEF TypeOK, Running
<1>3. ASSUME NEW t \in Threads, calls[t] # <<>>, Running(t).kind \in {"call", "native"},
             NEW f, SetFrame(t, f), f.kind = Running(t).kind
      PROVE  CallsStep(t)
  BY <1>3 DEF CallsStep
<1>4. ASSUME NEW t \in Threads, EnterStep(t) PROVE CallsStep(t)
  <2>1. CASE StartSpan(t)
    <3> DEFINE f == [Running(t) EXCEPT !.pc = "alloc", !.pos = Len(context[t]) + 1]
    <3>1. SetFrame(t, f) /\ calls[t] # <<>> /\ Running(t).kind \in {"call", "native"}
      BY <2>1 DEF StartSpan, At
    <3>2. f.kind = Running(t).kind
      BY <3>1, <1>2 DEF Frames
    <3> QED
      BY <3>1, <3>2, <1>3
  <2>2. CASE StartPanics(t)
    BY <2>2, <1>1, <1>2 DEF StartPanics, At, CallsStep
  <2>3. ASSUME NEW h, At(t, {"call"}, {"alloc", "retake"}), PushEntry(t, h)
        PROVE  CallsStep(t)
    <3> DEFINE f == [Running(t) EXCEPT !.pc = "body", !.handle = h, !.slot = Len(stack[t]) + 1]
    <3>1. SetFrame(t, f) /\ calls[t] # <<>> /\ Running(t).kind \in {"call", "native"}
      BY <2>3 DEF PushEntry, At
    <3>2. f.kind = Running(t).kind
      BY <3>1, <1>2 DEF Frames
    <3> QED
      BY <3>1, <3>2, <1>3
  <2>4. CASE TakeHandle(t)
    <3>1. At(t, {"call"}, {"alloc"}) /\ At(t, {"call"}, {"alloc", "retake"})
      BY <2>4 DEF TakeHandle, At
    <3>2. CASE SetFrame(t, [Running(t) EXCEPT !.pc = "retake"])
      <4> DEFINE f == [Running(t) EXCEPT !.pc = "retake"]
      <4>1. SetFrame(t, f) /\ calls[t] # <<>> /\ Running(t).kind \in {"call", "native"}
        BY <3>1, <3>2 DEF At
      <4>2. f.kind = Running(t).kind
        BY <4>1, <1>2 DEF Frames
      <4> QED
        BY <4>1, <4>2, <1>3
    <3> QED
      BY <2>3, <2>4, <3>1, <3>2 DEF TakeHandle
  <2>5. CASE RetakeHandle(t)
    BY <2>3, <2>5 DEF RetakeHandle, At
  <2> QED
    BY <1>4, <2>1, <2>2, <2>4, <2>5 DEF EnterStep
<1>5. ASSUME NEW t \in Threads, EndStep(t) PROVE CallsStep(t)
  <2>1. CASE EndQuietly(t) \/ ExportEnds(t)
    BY <2>1 DEF EndQuietly, ExportEnds, LeaveEnd, At, CallsStep
  <2>2. CASE ExportWanted(t)
    <3> DEFINE f == [Running(t) EXCEPT !.pc = "locking"]
    <3>1. SetFrame(t, f) /\ calls[t] # <<>> /\ Running(t).kind \in {"call", "native"}
      BY <2>2 DEF ExportWanted, At
    <3>2. f.kind = Running(t).kind
      BY <3>1, <1>2 DEF Frames
    <3> QED
      BY <3>1, <3>2, <1>3
  <2> QED
    BY <1>5, <2>1, <2>2 DEF EndStep
<1>6. ASSUME NEW t \in Threads, LockExporter(t) \/ HookReturns(t) \/ ExitNoop(t)
      PROVE  CallsStep(t)
  BY <1>6 DEF LockExporter, HookReturns, ExitNoop, At, CallsStep
<1>7. ASSUME NEW t \in Threads, UserStep(t) PROVE CallsStep(t)
  <2>1. CASE (\E accepted \in BOOLEAN : EnterReturnsZero(t, accepted)) \/ EnterBegins(t)
    BY <2>1, <1>1 DEF EnterReturnsZero, EnterBegins, CallsStep
  <2>2. CASE RunStartHook(t)
    BY <2>2 DEF RunStartHook, At, CallsStep
  <2>3. CASE BodyFails(t) \/ NativeFails(t)
    <3> DEFINE f == [Running(t) EXCEPT !.pc = "failed"]
    <3>1. SetFrame(t, f) /\ calls[t] # <<>> /\ Running(t).kind \in {"call", "native"}
      BY <2>3 DEF BodyFails, NativeFails, At
    <3>2. f.kind = Running(t).kind
      BY <3>1, <1>2 DEF Frames
    <3> QED
      BY <3>1, <3>2, <1>3
  <2>4. CASE ExitEnds(t) \/ NativeExit(t)
    BY <2>4, <1>1 DEF ExitEnds, NativeExit, At, CallsStep
  <2>5. CASE \E h \in Handles : StrayExit(t, h) \/ StraySetError(t, h)
    BY <2>5 DEF StrayExit, StraySetError, local, CallsStep
  <2>6. CASE NativeEnter(t)
    <3> DEFINE g == Frame("native", "body", begun + 1)
    <3>1. PushFrame(t, [g EXCEPT !.pos = Len(context[t]) + 1]) /\ NativeSpans
      BY <2>6 DEF NativeEnter
    <3>2. [g EXCEPT !.pos = Len(context[t]) + 1].kind = "native"
      BY DEF Frame
    <3> QED
      BY <3>1, <3>2 DEF CallsStep
  <2> QED
    BY <1>7, <2>1, <2>2, <2>3, <2>4, <2>5, <2>6 DEF UserStep
<1> QED
  BY <1>4, <1>5, <1>6, <1>7 DEF Next

HooksInv == \A t \in Threads : HooksOK(calls[t])

LEMMA HooksInvStep == TypeOK /\ HooksInv /\ [Next]_vars => HooksInv'
<1> SUFFICES ASSUME TypeOK, HooksInv, Next PROVE HooksInv'
  BY DEF HooksInv, vars
<1>1. PICK t \in Threads : CallsStep(t)
  BY StepIsCallsStep
<1>2. calls \in [Threads -> Seq(Frames)] /\ calls[t] \in Seq(Frames) /\ HooksOK(calls[t])
  BY DEF TypeOK, HooksInv
<1> SUFFICES ASSUME calls' # calls
             PROVE  /\ HooksOK(calls'[t])
                    /\ \A u \in Threads : u # t => calls'[u] = calls[u]
  BY DEF HooksInv
<1>3. CASE \E f : PushFrame(t, f) /\ (f.kind = "call" \/ (f.kind = "native" /\ NativeSpans))
  <2>1. PICK f : PushFrame(t, f) /\ (f.kind = "call" \/ (f.kind = "native" /\ NativeSpans))
    BY <1>3
  <2> DEFINE S == Frames \cup {f}
  <2>2. calls[t] \in Seq(S) /\ f \in S
    BY <1>2
  <2> HIDE DEF S
  <2>3. Append(calls[t], f) \in Seq(S) /\ Grown(calls[t], Append(calls[t], f), f)
    BY <2>2, AppendGrows
  <2>4. HooksOK(Append(calls[t], f))
    BY <1>2, <2>1, <2>2, <2>3, HooksGrow
  <2> QED
    BY <1>2, <2>1, <2>4 DEF PushFrame
<1>4. CASE /\ calls[t] # <<>> /\ Running(t).kind \in {"call", "native"}
           /\ \E f : SetFrame(t, f) /\ f.kind = Running(t).kind
  <2>1. PICK f : SetFrame(t, f) /\ f.kind = Running(t).kind
    BY <1>4
  <2> DEFINE S == Frames \cup {f}
             d == [calls[t] EXCEPT ![Len(calls[t])] = f]
  <2>2. calls[t] \in Seq(S) /\ f \in S /\ calls[t] # <<>>
    BY <1>2, <1>4
  <2>3. Running(t) = Last(calls[t])
    BY DEF Running
  <2>4. calls' = [calls EXCEPT ![t] = d]
    BY <2>1 DEF SetFrame
  <2> HIDE DEF S
  <2>5. d \in Seq(S) /\ Replaced(calls[t], d, f)
    BY <2>2, ExceptReplaces
  <2> HIDE DEF d
  <2>6. HooksOK(d)
    BY <1>2, <1>4, <2>1, <2>2, <2>3, <2>5, HooksReplace
  <2> QED
    BY <1>2, <2>4, <2>6
<1>5. CASE /\ calls[t] # <<>> /\ Running(t).kind \in {"call", "native"}
           /\ \E p \in {"hooked", "exporting"} : CallHook(t, p)
  <2>1. PICK p \in {"hooked", "exporting"} : CallHook(t, p)
    BY <1>5
  <2>2. p \in Pcs
    BY <2>1 DEF Pcs, EnterPcs, EndPcs
  <2>3. /\ calls' \in [Threads -> Seq(Frames)]
        /\ \E m \in Seq(Frames) :
             /\ Replaced(calls[t], m, [Running(t) EXCEPT !.pc = p])
             /\ Grown(m, calls'[t], HookFrame)
        /\ \A u \in Threads : u # t => calls'[u] = calls[u]
    BY <1>5, <2>1, <2>2, CallsHook
  <2> DEFINE f == [Running(t) EXCEPT !.pc = p]
  <2>4. PICK m \in Seq(Frames) : Replaced(calls[t], m, f) /\ Grown(m, calls'[t], HookFrame)
    BY <2>3
  <2>5. Running(t) \in Frames /\ Running(t) = Last(calls[t])
    BY <1>2, <1>5, LastIn DEF Running
  <2>6. f.kind = Last(calls[t]).kind /\ f.pc = p /\ Last(calls[t]).kind # "hook"
    BY <1>5, <2>5 DEF Frames
  <2> HIDE DEF f
  <2>7. HooksOK(m)
    BY <1>2, <2>4, <2>6, HooksReplace
  <2>8. m # <<>> /\ Last(m) = f
    BY <2>4, <1>2 DEF Replaced, Last
  <2>9. HookFrame.kind = "hook"
    BY DEF HookFrame, Frame
  <2>10. Last(m).pc \in {"hooked", "exporting"} /\ calls'[t] \in Seq(Frames)
    BY <2>3, <2>6, <2>8
  <2>11. HooksOK(calls'[t])
    BY <2>4, <2>7, <2>8, <2>9, <2>10, HooksGrow
  <2> QED
    BY <2>3, <2>11
<1>6. CASE calls[t] # <<>> /\ PopFrame(t)
  <2>1. /\ calls' \in [Threads -> Seq(Frames)] /\ Shrunk(calls[t], calls'[t])
        /\ \A u \in Threads : u # t => calls'[u] = calls[u]
    BY <1>6, Pops
  <2>2. calls'[t] \in Seq(Frames)
    BY <2>1
  <2> QED
    BY <1>2, <2>1, <2>2, HooksShrink
<1> QED
  BY <1>1, <1>3, <1>4, <1>5, <1>6 DEF CallsStep

\* C1 where every instrumented function is a trampoline: an exporter that calls
\* instrumented functions never gets a span for them, so it is not re-entered.
THEOREM ShimExportReentryFailsOpen ==
  ASSUME ~NativeSpans
  PROVE  Spec => []ExportReentryFailsOpen
<1>1. Init => HooksInv
  BY DEF Init, HooksInv, HooksOK
<1>2. IInv /\ HooksInv /\ [Next]_vars => HooksInv'
  BY HooksInvStep DEF IInv
<1>3. IInv /\ HooksInv => ExportReentryFailsOpen
  <2> SUFFICES ASSUME IInv, HooksInv, NEW t \in Threads,
                      NEW i \in 1 .. Len(calls[t]), NEW j \in 1 .. Len(calls[t]), i < j,
                      calls[t][i].kind = "hook", calls[t][j].kind = "call"
               PROVE  calls[t][j].handle = 0 /\ calls[t][j].pc \in {"body", "failed"}
    BY DEF ExportReentryFailsOpen
  <2> DEFINE c == calls[t]
  <2>1. /\ c \in Seq(Frames) /\ HooksOK(c) /\ FailsOpenAbove(c)
        /\ \A k \in 1 .. Len(c) : FrameOK(c[k], nextHandle)
    BY DEF IInv, TypeOK, HooksInv, ThreadOK, Nested
  <2>2. i > 1 /\ c[i - 1].pc \in {"hooked", "exporting"}
    BY <2>1 DEF HooksOK
  <2>3. i - 1 \in 1 .. Len(c) /\ i - 1 < j
    BY <2>1, <2>2
  <2>4. c[i - 1].kind = "call"
    <3>1. c[i - 1] \in Frames
      BY <2>1, <2>3, FrameNumbers
    <3>2. c[i - 1].kind \in Kinds
      BY <3>1 DEF Frames
    <3>3. c[i - 1].kind # "hook"
      BY <2>1, <2>2, <2>3 DEF FrameOK
    <3>4. c[i - 1].kind # "native"
      BY <2>1, <2>3 DEF HooksOK
    <3> QED
      BY <3>2, <3>3, <3>4 DEF Kinds
  <2>5. InShimCall(c[i - 1])
    BY <2>2, <2>4 DEF InShimCall, EnterPcs, EndPcs
  <2> QED
    BY <2>1, <2>3, <2>5 DEF FailsOpenAbove
<1> QED
  BY <1>1, <1>2, <1>3, IInvAlways, PTL DEF Spec

=============================================================================
