------------------------- MODULE OtelShimTraceProofs -------------------------
(***************************************************************************)
(* OtelShim implements CallTrace: the shim and the natively instrumented   *)
(* code together trace calls as CallTrace promises, for any threads,       *)
(* handle width and bounds.                                                *)
(***************************************************************************)
EXTENDS OtelShimProofs

-----------------------------------------------------------------------------
(* Spans that are about to start *)

\* The call has been accepted and its span is not yet attached.
IsPending(f) == f.kind = "call" /\ f.pc \in {"start", "hooked"}

Pending(t, s) ==
  \E i \in 1 .. Len(calls[t]) : IsPending(calls[t][i]) /\ calls[t][i].span = s

Used == ended \cup Trace!OpenSpans

\* The span of a pending call is one that nobody else has, has attached or has
\* ended: CallTrace may start it.
FreshInv ==
  /\ \A s \in Used : s \in 0 .. begun
  /\ \A t \in Threads : \A s : Pending(t, s) =>
       /\ s \in 1 .. begun
       /\ s \notin Used
       /\ \A u \in Threads : Pending(u, s) => u = t

\* What a step may do to the spans.
Begins(t) ==
  /\ begun' = begun + 1
  /\ \A u \in Threads : \A s : Pending(u, s)' => Pending(u, s) \/ (u = t /\ s = begun + 1)
  /\ UNCHANGED <<context, parent, errored, ended>>

Starts(t, s) ==
  /\ \/ /\ Pending(t, s) /\ ~Pending(t, s)'
        /\ UNCHANGED begun
     \/ s = begun + 1 /\ begun' = begun + 1
  /\ s \in Spans
  /\ context' = [context EXCEPT ![t] = Append(@, s)]
  /\ parent' = [parent EXCEPT ![s] = Current(t)]
  /\ \A u \in Threads : \A x : Pending(u, x)' => Pending(u, x)
  /\ UNCHANGED <<errored, ended>>

Ends(t) ==
  /\ context[t] # <<>>
  /\ context' = [context EXCEPT ![t] = Front(@)]
  /\ ended' = ended \cup {Last(context[t])}
  /\ \A u \in Threads : \A s : Pending(u, s)' => Pending(u, s)
  /\ UNCHANGED <<parent, errored, begun>>

Fails(t) ==
  /\ context[t] # <<>>
  /\ errored' = errored \cup {Last(context[t])}
  /\ \A u \in Threads : \A s : Pending(u, s)' => Pending(u, s)
  /\ UNCHANGED <<context, parent, ended, begun>>

Idles ==
  /\ \A u \in Threads : \A s : Pending(u, s)' => Pending(u, s)
  /\ UNCHANGED <<context, parent, errored, ended, begun>>

SpanStep(t) == Begins(t) \/ (\E s : Starts(t, s)) \/ Ends(t) \/ Fails(t) \/ Idles

-----------------------------------------------------------------------------
(* How the pending calls change *)

\* No frame comes that is pending otherwise than the one it replaces.
LEMMA PendingShrinks ==
  ASSUME NEW c \in Seq(Frames), NEW d \in Seq(Frames), NEW f \in Frames,
         \/ Shrunk(c, d)
         \/ Grown(c, d, f) /\ ~IsPending(f)
         \/ Replaced(c, d, f) /\ (IsPending(f) => IsPending(Last(c)) /\ f.span = Last(c).span),
         NEW i \in 1 .. Len(d), IsPending(d[i])
  PROVE  \E j \in 1 .. Len(c) : IsPending(c[j]) /\ c[j].span = d[i].span
<1>1. Len(c) \in Nat /\ Len(d) \in Nat
  BY FrameNumbers
<1>2. CASE Shrunk(c, d)
  <2>1. i \in 1 .. Len(c) /\ d[i] = c[i]
    BY <1>1, <1>2 DEF Shrunk
  <2> QED
    BY <2>1
<1>3. CASE Grown(c, d, f) /\ ~IsPending(f)
  <2>1. i \in 1 .. Len(c) /\ d[i] = c[i]
    BY <1>1, <1>3 DEF Grown
  <2> QED
    BY <2>1
<1>4. CASE Replaced(c, d, f) /\ (IsPending(f) => IsPending(Last(c)) /\ f.span = Last(c).span)
  <2>1. Len(c) \in 1 .. Len(c) /\ Last(c) = c[Len(c)] /\ i \in 1 .. Len(c)
    BY <1>1, <1>4 DEF Replaced, Last
  <2>2. CASE i = Len(c)
    BY <1>4, <2>1, <2>2 DEF Replaced
  <2>3. CASE i # Len(c)
    <3>1. d[i] = c[i]
      BY <1>1, <1>4, <2>1, <2>3 DEF Replaced
    <3> QED
      BY <2>1, <3>1
  <2> QED
    BY <2>2, <2>3
<1> QED
  BY <1>2, <1>3, <1>4

LEMMA PendingStays ==
  ASSUME TypeOK, NEW t \in Threads, NEW f \in Frames, calls'[t] \in Seq(Frames),
         \A u \in Threads : u # t => calls'[u] = calls[u],
         \/ Shrunk(calls[t], calls'[t])
         \/ Grown(calls[t], calls'[t], f) /\ ~IsPending(f)
         \/ /\ Replaced(calls[t], calls'[t], f)
            /\ IsPending(f) => IsPending(Last(calls[t])) /\ f.span = Last(calls[t]).span
  PROVE  \A u \in Threads : \A s : Pending(u, s)' => Pending(u, s)
<1> SUFFICES ASSUME NEW u \in Threads, NEW s, Pending(u, s)' PROVE Pending(u, s)
  OBVIOUS
<1>1. CASE u # t
  BY <1>1 DEF Pending
<1>2. CASE u = t
  <2>1. PICK i \in 1 .. Len(calls'[t]) : IsPending(calls'[t][i]) /\ calls'[t][i].span = s
    BY <1>2 DEF Pending
  <2>2. calls[t] \in Seq(Frames)
    BY DEF TypeOK
  <2>3. \E j \in 1 .. Len(calls[t]) : IsPending(calls[t][j]) /\ calls[t][j].span = calls'[t][i].span
    BY <2>1, <2>2, PendingShrinks
  <2> QED
    BY <1>2, <2>1, <2>3 DEF Pending
<1> QED
  BY <1>1, <1>2

\* A thread has one pending call, the last of its shim calls in progress.
LEMMA PendingIsLast ==
  ASSUME IInv, NEW t \in Threads, calls[t] # <<>>, IsPending(Running(t)),
         NEW i \in 1 .. Len(calls[t]), IsPending(calls[t][i])
  PROVE  i = Len(calls[t])
<1> DEFINE c == calls[t]
<1>1. c \in Seq(Frames) /\ Last(c) = Running(t) /\ inShim[t] \in BOOLEAN /\ Nested(c, inShim[t])
  BY RunningFrame DEF IInv, TypeOK, ThreadOK
<1>2. \A k \in 1 .. Len(c) - 1 : ~InShimCall(c[k])
  BY <1>1, NoShimCallBelow DEF IsPending
<1>3. InShimCall(c[i])
  BY DEF InShimCall, IsPending, EnterPcs
<1>4. Len(c) \in Nat
  BY <1>1
<1> QED
  BY <1>2, <1>3, <1>4

LEMMA SetStays ==
  ASSUME IInv, NEW t \in Threads, calls[t] # <<>>, NEW f \in Frames, SetFrame(t, f),
         IsPending(f) => IsPending(Running(t)) /\ f.span = Running(t).span
  PROVE  \A u \in Threads : \A s : Pending(u, s)' => Pending(u, s)
<1>1. TypeOK /\ Running(t) = Last(calls[t])
  BY RunningFrame DEF IInv
<1>2. /\ calls' \in [Threads -> Seq(Frames)] /\ Replaced(calls[t], calls'[t], f)
      /\ \A u \in Threads : u # t => calls'[u] = calls[u]
  BY <1>1, Sets
<1>3. calls'[t] \in Seq(Frames)
  BY <1>2
<1> QED
  BY <1>1, <1>2, <1>3, PendingStays

LEMMA PushStays ==
  ASSUME IInv, NEW t \in Threads, NEW f \in Frames, PushFrame(t, f), ~IsPending(f)
  PROVE  \A u \in Threads : \A s : Pending(u, s)' => Pending(u, s)
<1>1. TypeOK
  BY DEF IInv
<1>2. /\ calls' \in [Threads -> Seq(Frames)] /\ Grown(calls[t], calls'[t], f)
      /\ \A u \in Threads : u # t => calls'[u] = calls[u]
  BY <1>1, Pushes
<1>3. calls'[t] \in Seq(Frames)
  BY <1>2
<1> QED
  BY <1>1, <1>2, <1>3, PendingStays

LEMMA PopStays ==
  ASSUME IInv, NEW t \in Threads, calls[t] # <<>>, PopFrame(t)
  PROVE  \A u \in Threads : \A s : Pending(u, s)' => Pending(u, s)
<1>1. TypeOK
  BY DEF IInv
<1>2. /\ calls' \in [Threads -> Seq(Frames)] /\ Shrunk(calls[t], calls'[t])
      /\ \A u \in Threads : u # t => calls'[u] = calls[u]
  BY <1>1, Pops
<1>3. calls'[t] \in Seq(Frames)
  BY <1>2
<1>4. Running(t) \in Frames
  BY RunningFrame
<1> QED
  BY <1>1, <1>2, <1>3, <1>4, PendingStays

LEMMA HookStays ==
  ASSUME IInv, NEW t \in Threads, calls[t] # <<>>, NEW p \in Pcs, CallHook(t, p),
         p = "hooked" => IsPending(Running(t)), p # "start"
  PROVE  \A u \in Threads : \A s : Pending(u, s)' => Pending(u, s)
<1> DEFINE f == [Running(t) EXCEPT !.pc = p]
           c == calls[t]
           d == calls'[t]
<1>1. /\ TypeOK /\ Running(t) = Last(c) /\ Running(t) \in Frames /\ c \in Seq(Frames)
  BY RunningFrame DEF IInv
<1>2. /\ calls' \in [Threads -> Seq(Frames)]
      /\ \E m \in Seq(Frames) : Replaced(c, m, f) /\ Grown(m, d, HookFrame)
      /\ \A u \in Threads : u # t => calls'[u] = calls[u]
  BY <1>1, CallsHook
<1>3. PICK m \in Seq(Frames) : Replaced(c, m, f) /\ Grown(m, d, HookFrame)
  BY <1>2
<1>4. f \in Frames /\ f.kind = Running(t).kind /\ f.pc = p /\ f.span = Running(t).span
  BY <1>1 DEF Frames
<1>5. IsPending(f) => IsPending(Last(c)) /\ f.span = Last(c).span
  BY <1>1, <1>4 DEF IsPending
<1>6. HookFrame \in Frames /\ ~IsPending(HookFrame)
  BY FrameFields DEF HookFrame, IsPending, Kinds, Pcs
<1>7. d \in Seq(Frames)
  BY <1>2
<1> HIDE DEF f
<1>8. ASSUME NEW i \in 1 .. Len(d), IsPending(d[i])
      PROVE  \E j \in 1 .. Len(c) : IsPending(c[j]) /\ c[j].span = d[i].span
  <2>1. PICK k \in 1 .. Len(m) : IsPending(m[k]) /\ m[k].span = d[i].span
    BY <1>3, <1>6, <1>7, <1>8, PendingShrinks
  <2>2. \E j \in 1 .. Len(c) : IsPending(c[j]) /\ c[j].span = m[k].span
    BY <1>1, <1>3, <1>4, <1>5, <2>1, PendingShrinks
  <2> QED
    BY <2>1, <2>2
<1> SUFFICES ASSUME NEW u \in Threads, NEW s, Pending(u, s)' PROVE Pending(u, s)
  OBVIOUS
<1>9. CASE u # t
  BY <1>2, <1>9 DEF Pending
<1>10. CASE u = t
  BY <1>8, <1>10 DEF Pending
<1> QED
  BY <1>9, <1>10

-----------------------------------------------------------------------------
(* Every action is one of the steps of SpanStep *)

LEMMA EnterBeginsBegins ==
  ASSUME IInv, NEW t \in Threads, EnterBegins(t)
  PROVE  Begins(t)
<1> DEFINE f == Frame("call", "start", begun + 1)
           c == calls[t]
           d == calls'[t]
<1>1. /\ TypeOK /\ PushFrame(t, f) /\ begun' = begun + 1
      /\ UNCHANGED <<context, parent, errored, ended>>
  BY DEF EnterBegins, IInv
<1>2. begun + 1 \in Spans
  BY <1>1, ShimAssumption DEF EnterBegins, TypeOK, Spans
<1>3. f \in Frames /\ f.span = begun + 1
  BY <1>2, FrameFields DEF Kinds, Pcs, EnterPcs
<1> HIDE DEF f
<1>4. /\ calls' \in [Threads -> Seq(Frames)] /\ Grown(c, d, f)
      /\ \A u \in Threads : u # t => calls'[u] = calls[u]
  BY <1>1, <1>3, Pushes
<1>5. ASSUME NEW u \in Threads, NEW s, Pending(u, s)'
      PROVE  Pending(u, s) \/ (u = t /\ s = begun + 1)
  <2>1. CASE u # t
    BY <1>4, <1>5, <2>1 DEF Pending
  <2>2. CASE u = t
    <3>1. PICK i \in 1 .. Len(d) : IsPending(d[i]) /\ d[i].span = s
      BY <1>5, <2>2 DEF Pending
    <3>2. Len(c) \in Nat
      BY <1>1 DEF TypeOK
    <3>3. CASE i = Len(c) + 1
      BY <1>3, <1>4, <2>2, <3>1, <3>3 DEF Grown
    <3>4. CASE i \in 1 .. Len(c)
      <4>1. d[i] = c[i]
        BY <1>4, <3>4 DEF Grown
      <4> QED
        BY <2>2, <3>1, <3>4, <4>1 DEF Pending
    <3> QED
      BY <1>4, <3>1, <3>2, <3>3, <3>4 DEF Grown
  <2> QED
    BY <2>1, <2>2
<1> QED
  BY <1>1, <1>5 DEF Begins

LEMMA StartSpanStarts ==
  ASSUME IInv, NEW t \in Threads, StartSpan(t)
  PROVE  Starts(t, Running(t).span)
<1> DEFINE g == Running(t)
           f == [g EXCEPT !.pc = "alloc", !.pos = Len(context[t]) + 1]
           c == calls[t]
           d == calls'[t]
<1>1. /\ TypeOK /\ c # <<>> /\ IsPending(g)
      /\ context' = [context EXCEPT ![t] = Append(@, g.span)]
      /\ parent' = [parent EXCEPT ![g.span] = Current(t)]
      /\ SetFrame(t, f)
      /\ UNCHANGED <<begun, errored, ended>>
  BY DEF StartSpan, At, IInv, IsPending
<1>2. g \in Frames /\ g = Last(c) /\ c \in Seq(Frames) /\ g.span \in Spans
  <2>1. g.pc \in EnterPcs
    BY <1>1 DEF IsPending, EnterPcs
  <2> QED
    BY <1>1, <2>1, RunningFrame DEF FrameOK
<1>3. Len(context[t]) \in Nat /\ Len(c) \in Nat /\ Len(c) # 0 /\ c[Len(c)] = g
  BY <1>1, <1>2, LastIn DEF TypeOK
<1>4. f \in Frames /\ f.pc = "alloc"
  <2>1. "alloc" \in Pcs /\ Len(context[t]) + 1 \in Nat /\ g \in Frames
    BY <1>2, <1>3 DEF Pcs, EnterPcs
  <2> HIDE DEF g
  <2> QED
    BY <2>1 DEF Frames
<1>5. ~IsPending(f)
  BY <1>4 DEF IsPending
<1> HIDE DEF f
<1>6. \A u \in Threads : \A x : Pending(u, x)' => Pending(u, x)
  BY <1>1, <1>4, <1>5, SetStays
<1>7. Replaced(c, d, f)
  BY <1>1, <1>4, Sets
<1>8. Pending(t, g.span)
  BY <1>1, <1>3 DEF Pending
<1>9. ~Pending(t, g.span)'
  <2> SUFFICES ASSUME NEW i \in 1 .. Len(d), IsPending(d[i]) PROVE FALSE
    BY DEF Pending
  <2>1. i # Len(c)
    BY <1>5, <1>7 DEF Replaced
  <2>2. i \in 1 .. Len(c) - 1 /\ i \in 1 .. Len(c) /\ d[i] = c[i]
    BY <1>3, <1>7, <2>1 DEF Replaced
  <2> QED
    BY <1>1, <2>1, <2>2, PendingIsLast
<1> QED
  BY <1>1, <1>2, <1>6, <1>8, <1>9 DEF Starts

LEMMA NativeEnterStarts ==
  ASSUME IInv, NEW t \in Threads, NativeEnter(t)
  PROVE  Starts(t, begun + 1)
<1> DEFINE g == Frame("native", "body", begun + 1)
           f == [g EXCEPT !.pos = Len(context[t]) + 1]
<1>1. /\ TypeOK /\ PushFrame(t, f) /\ begun' = begun + 1
      /\ context' = [context EXCEPT ![t] = Append(@, begun + 1)]
      /\ parent' = [parent EXCEPT ![begun + 1] = Current(t)]
      /\ UNCHANGED <<errored, ended>>
  BY DEF NativeEnter, IInv
<1>2. begun + 1 \in Spans
  BY <1>1, ShimAssumption DEF NativeEnter, TypeOK, Spans
<1>3. g \in Frames /\ g.kind = "native" /\ Len(context[t]) \in Nat
  <2>1. "native" \in Kinds /\ "body" \in Pcs /\ begun + 1 \in Spans \cup {NoSpan}
    BY <1>2 DEF Kinds, Pcs
  <2>2. Len(context[t]) \in Nat
    BY <1>1 DEF TypeOK
  <2> QED
    BY <2>1, <2>2, FrameFields
<1> HIDE DEF g
<1>4. f \in Frames /\ ~IsPending(f)
  BY <1>3 DEF Frames, IsPending
<1> HIDE DEF f
<1>5. \A u \in Threads : \A x : Pending(u, x)' => Pending(u, x)
  BY <1>1, <1>4, PushStays
<1> QED
  BY <1>1, <1>2, <1>5 DEF Starts

LEMMA ExitEndsEnds ==
  ASSUME IInv, NEW t \in Threads, ExitEnds(t)
  PROVE  Ends(t)
<1> DEFINE f == Frame("call", "ending", Running(t).span)
           e == Last(stack[t])
<1>1. /\ At(t, {"call"}, {"body", "failed"}) /\ Running(t).handle # 0 /\ calls[t] # <<>>
      /\ context' = [context EXCEPT ![t] = Detach(@, e.pos)]
      /\ ended' = ended \cup {e.span}
      /\ SetFrame(t, f)
      /\ UNCHANGED <<begun, parent, errored>>
  BY DEF ExitEnds, ExitPops, At
<1>2. /\ e.span = Running(t).span /\ e.pos = Running(t).pos /\ context[t] # <<>>
      /\ Running(t).pos = Len(context[t]) /\ Running(t).pos # 0 /\ Running(t).span \in Spans
  BY <1>1, LiveCall
<1>3. Last(context[t]) = Running(t).span
  <2>1. /\ calls[t] \in Seq(Frames) /\ Running(t) = Last(calls[t])
    BY <1>1, RunningFrame
  <2>2. context[t] \in Seq(Spans \cup {NoSpan}) /\ ContextMirrors(calls[t], context[t])
    BY DEF IInv, TypeOK, ThreadOK
  <2> QED
    BY <1>1, <1>2, <2>1, <2>2, ContextTop
<1>4. context' = [context EXCEPT ![t] = Front(@)]
  BY <1>1, <1>2 DEF Detach
<1>5. f \in Frames /\ ~IsPending(f)
  <2>1. "call" \in Kinds /\ "ending" \in Pcs /\ Running(t).span \in Spans \cup {NoSpan}
    BY <1>2 DEF Kinds, Pcs, EndPcs
  <2> QED
    BY <2>1, FrameFields DEF IsPending
<1> HIDE DEF f
<1>6. \A u \in Threads : \A x : Pending(u, x)' => Pending(u, x)
  BY <1>1, <1>5, SetStays
<1> QED
  BY <1>1, <1>2, <1>3, <1>4, <1>6 DEF Ends

LEMMA NativeExitEnds ==
  ASSUME IInv, NEW t \in Threads, NativeExit(t)
  PROVE  Ends(t)
<1> DEFINE g == Running(t)
           f == Frame("native", "ending", g.span)
<1>1. /\ calls[t] # <<>> /\ g.kind = "native" /\ g.pc \in {"body", "failed"}
      /\ context' = [context EXCEPT ![t] = Detach(@, g.pos)]
      /\ ended' = ended \cup {g.span}
      /\ SetFrame(t, f)
      /\ UNCHANGED <<begun, parent, errored>>
  BY DEF NativeExit, At
<1>2. /\ calls[t] \in Seq(Frames) /\ g = Last(calls[t]) /\ g.pos # 0 /\ g.span \in Spans
  BY <1>1, RunningFrame DEF FrameOK
<1>3. context[t] # <<>> /\ g.pos = Len(context[t]) /\ Last(context[t]) = g.span
  <2>1. context[t] \in Seq(Spans \cup {NoSpan}) /\ ContextMirrors(calls[t], context[t])
    BY DEF IInv, TypeOK, ThreadOK
  <2> QED
    BY <1>1, <1>2, <2>1, ContextTop
<1>4. context' = [context EXCEPT ![t] = Front(@)]
  BY <1>1, <1>3 DEF Detach
<1>5. f \in Frames /\ ~IsPending(f)
  <2>1. "native" \in Kinds /\ "ending" \in Pcs /\ g.span \in Spans \cup {NoSpan}
    BY <1>2 DEF Kinds, Pcs, EndPcs
  <2> QED
    BY <2>1, FrameFields DEF IsPending
<1> HIDE DEF f
<1>6. \A u \in Threads : \A x : Pending(u, x)' => Pending(u, x)
  BY <1>1, <1>5, SetStays
<1> QED
  BY <1>1, <1>3, <1>4, <1>6 DEF Ends

\* The frame whose body returns Err.
LEMMA FailedFrame ==
  ASSUME IInv, NEW t \in Threads, calls[t] # <<>>
  PROVE  [Running(t) EXCEPT !.pc = "failed"] \in Frames /\ ~IsPending([Running(t) EXCEPT !.pc = "failed"])
<1>1. Running(t) \in Frames
  BY RunningFrame
<1> QED
  BY <1>1 DEF Frames, Pcs, IsPending

LEMMA BodyFailsFails ==
  ASSUME IInv, NEW t \in Threads, BodyFails(t)
  PROVE  Fails(t) \/ Idles
<1> DEFINE g == Running(t)
           f == [g EXCEPT !.pc = "failed"]
<1>1. /\ At(t, {"call"}, {"body"}) /\ calls[t] # <<>> /\ SetFrame(t, f)
      /\ errored' = errored \cup IF g.handle # 0 /\ ~Reentrant(t)
                                 THEN ErrorTarget(stack[t], g.handle) ELSE {}
      /\ UNCHANGED <<context, begun, parent, ended>>
  BY DEF BodyFails, At
<1>2. f \in Frames /\ ~IsPending(f)
  BY <1>1, FailedFrame
<1> HIDE DEF f
<1>3. \A u \in Threads : \A x : Pending(u, x)' => Pending(u, x)
  BY <1>1, <1>2, SetStays
<1>4. CASE g.handle = 0
  <2>1. errored' = errored
    BY <1>1, <1>4
  <2> QED
    BY <1>1, <1>3, <2>1 DEF Idles
<1>5. CASE g.handle # 0
  <2>1. At(t, {"call"}, {"body", "failed"})
    BY <1>1 DEF At
  <2>2. /\ ~inShim[t] /\ stack[t] # <<>> /\ Last(stack[t]).handle = g.handle
        /\ Last(stack[t]).span = g.span /\ context[t] # <<>> /\ g.pos # 0
    BY <1>5, <2>1, LiveCall
  <2>3. stack[t] \in Seq(Entries)
    BY DEF IInv, TypeOK
  <2>4. ErrorTarget(stack[t], g.handle) = {g.span}
    BY <2>2, <2>3, ErrorTargetTop
  <2>5. Last(context[t]) = g.span
    <3>1. /\ calls[t] \in Seq(Frames) /\ g = Last(calls[t])
      BY <1>1, RunningFrame
    <3>2. context[t] \in Seq(Spans \cup {NoSpan}) /\ ContextMirrors(calls[t], context[t])
      BY DEF IInv, TypeOK, ThreadOK
    <3> QED
      BY <1>1, <2>2, <3>1, <3>2, ContextTop
  <2>6. errored' = errored \cup {Last(context[t])}
    BY <1>1, <1>5, <2>2, <2>4, <2>5 DEF Reentrant
  <2> QED
    BY <1>1, <1>3, <2>2, <2>6 DEF Fails
<1> QED
  BY <1>4, <1>5

LEMMA NativeFailsFails ==
  ASSUME IInv, NEW t \in Threads, NativeFails(t)
  PROVE  Fails(t)
<1> DEFINE g == Running(t)
           f == [g EXCEPT !.pc = "failed"]
<1>1. /\ calls[t] # <<>> /\ g.kind = "native" /\ g.pc = "body" /\ SetFrame(t, f)
      /\ errored' = errored \cup {g.span}
      /\ UNCHANGED <<context, begun, parent, ended>>
  BY DEF NativeFails, At
<1>2. f \in Frames /\ ~IsPending(f)
  BY <1>1, FailedFrame
<1> HIDE DEF f
<1>3. \A u \in Threads : \A x : Pending(u, x)' => Pending(u, x)
  BY <1>1, <1>2, SetStays
<1>4. /\ calls[t] \in Seq(Frames) /\ g = Last(calls[t]) /\ g.pos # 0
  BY <1>1, RunningFrame DEF FrameOK
<1>5. context[t] \in Seq(Spans \cup {NoSpan}) /\ ContextMirrors(calls[t], context[t])
  BY DEF IInv, TypeOK, ThreadOK
<1>6. context[t] # <<>> /\ Last(context[t]) = g.span
  BY <1>1, <1>4, <1>5, ContextTop
<1> QED
  BY <1>1, <1>3, <1>6 DEF Fails

\* A frame of which only the place in the code changes.
LEMMA MovedFrame ==
  ASSUME NEW f \in Frames, NEW p \in Pcs
  PROVE  /\ [f EXCEPT !.pc = p] \in Frames
         /\ [f EXCEPT !.pc = p].pc = p
BY DEF Frames

LEMMA PushEntryIdles ==
  ASSUME IInv, NEW t \in Threads, calls[t] # <<>>, NEW h \in Handles, PushEntry(t, h),
         UNCHANGED <<context, trace>>
  PROVE  Idles
<1> DEFINE g == Running(t)
           f == [g EXCEPT !.pc = "body", !.handle = h, !.slot = Len(stack[t]) + 1]
<1>1. SetFrame(t, f) /\ g \in Frames
  BY RunningFrame DEF PushEntry
<1>2. Len(stack[t]) + 1 \in Nat /\ "body" \in Pcs
  BY DEF IInv, TypeOK, Pcs
<1> HIDE DEF g
<1>3. f \in Frames /\ ~IsPending(f)
  BY <1>1, <1>2 DEF Frames, IsPending
<1> HIDE DEF f
<1>4. \A u \in Threads : \A x : Pending(u, x)' => Pending(u, x)
  BY <1>1, <1>3, SetStays
<1> QED
  BY <1>4 DEF Idles, trace

LEMMA EnterStepSpan ==
  ASSUME IInv, NEW t \in Threads, EnterStep(t)
  PROVE  SpanStep(t)
<1>1. CASE StartSpan(t)
  BY <1>1, StartSpanStarts DEF SpanStep
<1>2. CASE StartPanics(t)
  <2> DEFINE f == Frame("call", "body", NoSpan)
  <2>1. /\ calls[t] # <<>> /\ SetFrame(t, f) /\ UNCHANGED <<context, trace>>
    BY <1>2 DEF StartPanics, At
  <2>2. f \in Frames /\ ~IsPending(f)
    BY FrameFields DEF Kinds, Pcs, IsPending
  <2> HIDE DEF f
  <2>3. \A u \in Threads : \A x : Pending(u, x)' => Pending(u, x)
    BY <2>1, <2>2, SetStays
  <2> QED
    BY <2>1, <2>3 DEF SpanStep, Idles, trace
<1>3. nextHandle \in Nat /\ nextHandle < 2 * HandleSpace => HandleAt(nextHandle) \in Handles
  BY ShimAssumption DEF HandleAt, Handles
<1>4. nextHandle \in Nat
  BY DEF IInv, TypeOK
<1>5. CASE TakeHandle(t)
  <2>1. /\ calls[t] # <<>> /\ UNCHANGED <<context, trace>> /\ HandleAt(nextHandle) \in Handles
    BY <1>3, <1>4, <1>5 DEF TakeHandle, At
  <2>2. CASE PushEntry(t, HandleAt(nextHandle))
    BY <2>1, <2>2, PushEntryIdles DEF SpanStep
  <2>3. CASE SetFrame(t, [Running(t) EXCEPT !.pc = "retake"])
    <3> DEFINE f == [Running(t) EXCEPT !.pc = "retake"]
    <3>1. Running(t) \in Frames /\ "retake" \in Pcs
      BY <2>1, RunningFrame DEF Pcs, EnterPcs
    <3>2. f \in Frames /\ f.pc = "retake"
      BY <3>1, MovedFrame
    <3>3. ~IsPending(f) /\ SetFrame(t, f)
      BY <2>3, <3>2 DEF IsPending
    <3> HIDE DEF f
    <3>4. \A u \in Threads : \A x : Pending(u, x)' => Pending(u, x)
      BY <2>1, <3>2, <3>3, SetStays
    <3> QED
      BY <2>1, <3>4 DEF SpanStep, Idles, trace
  <2> QED
    BY <1>5, <2>2, <2>3 DEF TakeHandle
<1>6. CASE RetakeHandle(t)
  <2>1. /\ calls[t] # <<>> /\ UNCHANGED <<context, trace>> /\ HandleAt(nextHandle) \in Handles
        /\ PushEntry(t, HandleAt(nextHandle))
    BY <1>3, <1>4, <1>6 DEF RetakeHandle, At
  <2> QED
    BY <2>1, PushEntryIdles DEF SpanStep
<1> QED
  BY <1>1, <1>2, <1>5, <1>6 DEF EnterStep

LEMMA EndStepSpan ==
  ASSUME IInv, NEW t \in Threads,
         EndStep(t) \/ LockExporter(t) \/ HookReturns(t) \/ ExitNoop(t)
  PROVE  SpanStep(t)
<1>1. CASE EndQuietly(t) \/ ExportEnds(t) \/ HookReturns(t) \/ ExitNoop(t)
  <2>1. calls[t] # <<>> /\ PopFrame(t) /\ UNCHANGED <<context, trace>>
    BY <1>1 DEF EndQuietly, ExportEnds, HookReturns, ExitNoop, LeaveEnd, At
  <2>2. \A u \in Threads : \A x : Pending(u, x)' => Pending(u, x)
    BY <2>1, PopStays
  <2> QED
    BY <2>1, <2>2 DEF SpanStep, Idles, trace
<1>2. CASE ExportWanted(t)
  <2> DEFINE f == [Running(t) EXCEPT !.pc = "locking"]
  <2>1. calls[t] # <<>> /\ SetFrame(t, f) /\ UNCHANGED <<context, trace>>
    BY <1>2 DEF ExportWanted, At
  <2>2. Running(t) \in Frames /\ "locking" \in Pcs
    BY <2>1, RunningFrame DEF Pcs, EndPcs
  <2>3. f \in Frames /\ f.pc = "locking"
    BY <2>2, MovedFrame
  <2>4. ~IsPending(f)
    BY <2>3 DEF IsPending
  <2> HIDE DEF f
  <2>5. \A u \in Threads : \A x : Pending(u, x)' => Pending(u, x)
    BY <2>1, <2>3, <2>4, SetStays
  <2> QED
    BY <2>1, <2>5 DEF SpanStep, Idles, trace
<1>3. CASE LockExporter(t)
  <2>1. calls[t] # <<>> /\ CallHook(t, "exporting") /\ UNCHANGED <<context, trace>>
    BY <1>3 DEF LockExporter, At
  <2>2. \A u \in Threads : \A x : Pending(u, x)' => Pending(u, x)
    BY <2>1, HookStays DEF Pcs, EndPcs
  <2> QED
    BY <2>1, <2>2 DEF SpanStep, Idles, trace
<1> QED
  BY <1>1, <1>2, <1>3 DEF EndStep

LEMMA UserStepSpan ==
  ASSUME IInv, NEW t \in Threads, UserStep(t)
  PROVE  SpanStep(t)
<1>1. CASE \E accepted \in BOOLEAN : EnterReturnsZero(t, accepted)
  <2> DEFINE f == Frame("call", "body", NoSpan)
  <2>1. PushFrame(t, f) /\ UNCHANGED <<context, trace>>
    BY <1>1 DEF EnterReturnsZero
  <2>2. f \in Frames /\ ~IsPending(f)
    BY FrameFields DEF Kinds, Pcs, IsPending
  <2> HIDE DEF f
  <2>3. \A u \in Threads : \A x : Pending(u, x)' => Pending(u, x)
    BY <2>1, <2>2, PushStays
  <2> QED
    BY <2>1, <2>3 DEF SpanStep, Idles, trace
<1>2. CASE RunStartHook(t)
  <2>1. /\ calls[t] # <<>> /\ CallHook(t, "hooked") /\ IsPending(Running(t))
        /\ UNCHANGED <<context, trace>>
    BY <1>2 DEF RunStartHook, At, IsPending
  <2>2. \A u \in Threads : \A x : Pending(u, x)' => Pending(u, x)
    BY <2>1, HookStays DEF Pcs, EnterPcs
  <2> QED
    BY <2>1, <2>2 DEF SpanStep, Idles, trace
<1>3. CASE \E h \in Handles : StrayExit(t, h) \/ StraySetError(t, h)
  <2>1. PICK h \in Handles : StrayExit(t, h) \/ StraySetError(t, h)
    BY <1>3
  <2>2. CASE StrayExit(t, h)
    BY <2>2 DEF StrayExit, SpanStep, Idles, Pending, trace
  <2>3. CASE StraySetError(t, h)
    <3>1. ErrorTarget(stack[t], h) = {}
      BY <2>3 DEF StraySetError, ErrorTarget
    <3> QED
      BY <2>3, <3>1 DEF StraySetError, SpanStep, Idles, Pending, local
  <2> QED
    BY <2>1, <2>2, <2>3
<1>4. CASE EnterBegins(t)
  BY <1>4, EnterBeginsBegins DEF SpanStep
<1>5. CASE BodyFails(t)
  BY <1>5, BodyFailsFails DEF SpanStep
<1>6. CASE NativeFails(t)
  BY <1>6, NativeFailsFails DEF SpanStep
<1>7. CASE ExitEnds(t)
  BY <1>7, ExitEndsEnds DEF SpanStep
<1>8. CASE NativeExit(t)
  BY <1>8, NativeExitEnds DEF SpanStep
<1>9. CASE NativeEnter(t)
  BY <1>9, NativeEnterStarts DEF SpanStep
<1> QED
  BY <1>1, <1>2, <1>3, <1>4, <1>5, <1>6, <1>7, <1>8, <1>9 DEF UserStep

LEMMA StepIsSpanStep ==
  ASSUME IInv, Next
  PROVE  \E t \in Threads : SpanStep(t)
BY EnterStepSpan, EndStepSpan, UserStepSpan DEF Next

-----------------------------------------------------------------------------
(* The spans that are open *)

\* OpenSpans, as the set of what is on a context stack somewhere.
LEMMA IsOpen ==
  ASSUME NEW s
  PROVE  s \in Trace!OpenSpans <=> \E t \in Threads : \E i \in DOMAIN context[t] : context[t][i] = s
BY DEF Trace!OpenSpans

LEMMA OpenGrows ==
  ASSUME TypeOK, NEW t \in Threads, NEW s \in Spans,
         context' = [context EXCEPT ![t] = Append(@, s)]
  PROVE  \A x : x \in Trace!OpenSpans' => x \in Trace!OpenSpans \/ x = s
<1> SUFFICES ASSUME NEW x, x \in Trace!OpenSpans', x # s PROVE x \in Trace!OpenSpans
  OBVIOUS
<1>1. PICK u \in Threads : \E i \in DOMAIN context'[u] : context'[u][i] = x
  BY DEF Trace!OpenSpans
<1>2. PICK i \in DOMAIN context'[u] : context'[u][i] = x
  BY <1>1
<1>3. CASE u # t
  BY <1>1, <1>2, <1>3 DEF TypeOK, Trace!OpenSpans
<1>4. CASE u = t
  <2> DEFINE S == Spans \cup {NoSpan}
  <2>1. context[t] \in Seq(S) /\ context'[t] = Append(context[t], s) /\ s \in S
    BY DEF TypeOK
  <2> HIDE DEF S
  <2>2. context'[t] \in Seq(S) /\ Grown(context[t], context'[t], s)
    BY <2>1, AppendGrows
  <2>3. i \in DOMAIN context[t] /\ context[t][i] = x
    BY <1>2, <1>4, <2>1, <2>2 DEF Grown
  <2> QED
    BY <2>3 DEF Trace!OpenSpans
<1> QED
  BY <1>3, <1>4

LEMMA OpenShrinks ==
  ASSUME TypeOK, NEW t \in Threads, context[t] # <<>>,
         context' = [context EXCEPT ![t] = Front(@)]
  PROVE  /\ \A x : x \in Trace!OpenSpans' => x \in Trace!OpenSpans
         /\ Last(context[t]) \in Trace!OpenSpans
<1> DEFINE S == Spans \cup {NoSpan}
<1>1. context[t] \in Seq(S) /\ context'[t] = Front(context[t])
  BY DEF TypeOK
<1>2. \A u \in Threads : u # t => context'[u] = context[u]
  BY DEF TypeOK
<1> HIDE DEF S
<1>3. context'[t] \in Seq(S) /\ Shrunk(context[t], context'[t])
  BY <1>1, FrontShrinks
<1>4. Last(context[t]) \in Trace!OpenSpans
  BY <1>1, LastIn DEF Trace!OpenSpans
<1>5. ASSUME NEW x, x \in Trace!OpenSpans' PROVE x \in Trace!OpenSpans
  <2>1. PICK u \in Threads : \E i \in DOMAIN context'[u] : context'[u][i] = x
    BY <1>5 DEF Trace!OpenSpans
  <2>2. PICK i \in DOMAIN context'[u] : context'[u][i] = x
    BY <2>1
  <2>3. i \in DOMAIN context[u] /\ context[u][i] = x
    <3>1. CASE u # t
      BY <1>2, <2>2, <3>1
    <3>2. CASE u = t
      BY <1>1, <1>3, <2>2, <3>2 DEF Shrunk
    <3> QED
      BY <3>1, <3>2
  <2> QED
    BY <2>3 DEF Trace!OpenSpans
<1> QED
  BY <1>4, <1>5

-----------------------------------------------------------------------------
(* FreshInv is invariant *)

LEMMA FreshInit == Init => FreshInv
<1> SUFFICES ASSUME Init PROVE FreshInv
  OBVIOUS
<1>1. \A t \in Threads : calls[t] = <<>> /\ context[t] = <<>> /\ ended = {}
  BY DEF Init
<1>2. \A t \in Threads : \A s : ~Pending(t, s)
  <2>1. 1 .. Len(<<>>) = {}
    OBVIOUS
  <2> QED
    BY <1>1, <2>1 DEF Pending
<1>3. \A s : s \notin Used
  <2>1. DOMAIN <<>> = {}
    OBVIOUS
  <2>2. \A s : s \notin Trace!OpenSpans
    BY <1>1, <2>1, IsOpen
  <2> QED
    BY <2>2 DEF Used, Init
<1> QED
  BY <1>2, <1>3 DEF FreshInv

\* A step of SpanStep that neither begins nor starts a span.
LEMMA FreshStays ==
  ASSUME FreshInv, begun \in Nat, begun' = begun,
         \A s : s \in Used' => s \in Used,
         \A u \in Threads : \A s : Pending(u, s)' => Pending(u, s)
  PROVE  FreshInv'
<1>1. \A s \in Used' : s \in 0 .. begun'
  BY DEF FreshInv
<1>2. ASSUME NEW u \in Threads, NEW s, Pending(u, s)'
      PROVE  /\ s \in 1 .. begun'
             /\ s \notin Used'
             /\ \A v \in Threads : Pending(v, s)' => v = u
  <2>1. Pending(u, s)
    BY <1>2
  <2>2. /\ s \in 1 .. begun /\ s \notin Used
        /\ \A v \in Threads : Pending(v, s) => v = u
    BY <2>1 DEF FreshInv
  <2> QED
    BY <2>2
<1> QED
  BY <1>1, <1>2 DEF FreshInv

LEMMA FreshBegins ==
  ASSUME IInv, FreshInv, NEW t \in Threads, Begins(t)
  PROVE  FreshInv'
<1>1. begun \in Nat /\ begun' = begun + 1
  BY DEF Begins, IInv, TypeOK
<1>2. \A s : s \in Used' => s \in Used
  BY IsOpen DEF Begins, Used, Trace!OpenSpans
<1>3. \A s \in Used' : s \in 0 .. begun
  BY <1>2 DEF FreshInv
<1>4. \A s \in Used' : s \in 0 .. begun'
  BY <1>1, <1>3
<1>5. ASSUME NEW u \in Threads, NEW s, Pending(u, s)'
      PROVE  /\ s \in 1 .. begun'
             /\ s \notin Used'
             /\ \A v \in Threads : Pending(v, s)' => v = u
  <2>1. CASE Pending(u, s)
    <3>1. /\ s \in 1 .. begun /\ s \notin Used
          /\ \A v \in Threads : Pending(v, s) => v = u
      BY <2>1 DEF FreshInv
    <3>2. s # begun + 1 /\ s \in 1 .. begun'
      BY <1>1, <3>1
    <3> QED
      BY <1>2, <3>1, <3>2 DEF Begins
  <2>2. CASE u = t /\ s = begun + 1
    <3>1. s \in 1 .. begun' /\ s \notin 0 .. begun /\ s \notin 1 .. begun
      BY <1>1, <2>2
    <3>2. \A v \in Threads : ~Pending(v, s)
      BY <3>1 DEF FreshInv
    <3> QED
      BY <1>3, <2>2, <3>1, <3>2 DEF Begins
  <2> QED
    BY <1>5, <2>1, <2>2 DEF Begins
<1> QED
  BY <1>4, <1>5 DEF FreshInv

\* The span that starts is pending, or has just got the next identity.
LEMMA StartsFresh ==
  ASSUME IInv, FreshInv, NEW t \in Threads, NEW s, Starts(t, s)
  PROVE  /\ s \in 1 .. begun' /\ s \notin Used
         /\ begun \in Nat /\ begun' \in Nat /\ begun <= begun'
<1>1. begun \in Nat
  BY DEF IInv, TypeOK
<1>2. CASE Pending(t, s) /\ begun' = begun
  BY <1>1, <1>2 DEF FreshInv
<1>3. CASE s = begun + 1 /\ begun' = begun + 1
  <2>1. s \notin 0 .. begun /\ s \in 1 .. begun'
    BY <1>1, <1>3
  <2> QED
    BY <1>1, <1>3, <2>1 DEF FreshInv
<1> QED
  BY <1>2, <1>3 DEF Starts

LEMMA FreshStarts ==
  ASSUME IInv, FreshInv, NEW t \in Threads, NEW s, Starts(t, s)
  PROVE  FreshInv'
<1>1. /\ s \in 1 .. begun' /\ s \notin Used
      /\ begun \in Nat /\ begun' \in Nat /\ begun <= begun'
  BY StartsFresh
<1>2. \A x : x \in Used' => x \in Used \/ x = s
  <2>1. \A x : x \in Trace!OpenSpans' => x \in Trace!OpenSpans \/ x = s
    BY OpenGrows DEF Starts, IInv
  <2> QED
    BY <2>1 DEF Used, Starts
<1>3. \A x \in Used' : x \in 0 .. begun'
  <2>1. \A x \in Used : x \in 0 .. begun
    BY DEF FreshInv
  <2>2. \A x \in 0 .. begun : x \in 0 .. begun'
    BY <1>1
  <2>3. s \in 0 .. begun'
    BY <1>1
  <2> QED
    BY <1>2, <2>1, <2>2, <2>3
<1>4. ASSUME NEW u \in Threads, NEW x, Pending(u, x)'
      PROVE  /\ x \in 1 .. begun'
             /\ x \notin Used'
             /\ \A v \in Threads : Pending(v, x)' => v = u
  <2>1. Pending(u, x)
    BY <1>4 DEF Starts
  <2>2. /\ x \in 1 .. begun /\ x \notin Used
        /\ \A v \in Threads : Pending(v, x) => v = u
    BY <2>1 DEF FreshInv
  <2>3. x # s
    <3>1. CASE Pending(t, s) /\ ~Pending(t, s)'
      BY <1>4, <2>2, <3>1
    <3>2. CASE s = begun + 1
      BY <1>1, <2>2, <3>2
    <3> QED
      BY <3>1, <3>2 DEF Starts
  <2>4. x \in 1 .. begun'
    BY <1>1, <2>2
  <2> QED
    BY <1>2, <2>2, <2>3, <2>4 DEF Starts
<1> QED
  BY <1>3, <1>4 DEF FreshInv

LEMMA FreshStep ==
  ASSUME IInv, FreshInv, [Next]_vars
  PROVE  FreshInv'
<1>1. begun \in Nat /\ TypeOK
  BY DEF IInv, TypeOK
<1>2. CASE UNCHANGED vars
  <2>1. UNCHANGED <<calls, context, begun, ended>>
    BY <1>2 DEF vars
  <2>2. \A s : s \in Used' => s \in Used
    BY <2>1 DEF Used, Trace!OpenSpans
  <2>3. \A u \in Threads : \A s : Pending(u, s)' => Pending(u, s)
    BY <2>1 DEF Pending
  <2> QED
    BY <1>1, <2>1, <2>2, <2>3, FreshStays
<1>3. ASSUME NEW t \in Threads, SpanStep(t) PROVE FreshInv'
  <2>1. CASE Ends(t)
    <3>1. /\ \A x : x \in Trace!OpenSpans' => x \in Trace!OpenSpans
          /\ Last(context[t]) \in Trace!OpenSpans
      BY <1>1, <2>1, OpenShrinks DEF Ends
    <3>2. \A s : s \in Used' => s \in Used
      BY <2>1, <3>1 DEF Used, Ends
    <3> QED
      BY <1>1, <2>1, <3>2, FreshStays DEF Ends
  <2>2. CASE Fails(t) \/ Idles
    <3>1. \A s : s \in Used' => s \in Used
      BY <2>2 DEF Used, Fails, Idles, Trace!OpenSpans
    <3> QED
      BY <1>1, <2>2, <3>1, FreshStays DEF Fails, Idles
  <2> QED
    BY <1>3, <2>1, <2>2, FreshBegins, FreshStarts DEF SpanStep
<1> QED
  BY <1>2, <1>3, StepIsSpanStep

-----------------------------------------------------------------------------
(* The refinement *)

LEMMA InnermostIsLast ==
  ASSUME NEW S, NEW x \in Seq(S)
  PROVE  /\ Trace!Innermost(x) = IF x = <<>> THEN NoSpan ELSE Last(x)
         /\ SubSeq(x, 1, Len(x) - 1) = Front(x)
BY DEF Trace!Innermost, Last, Front

LEMMA SpanStepRefines ==
  ASSUME IInv, FreshInv, NEW t \in Threads, SpanStep(t)
  PROVE  [Trace!Next]_(Trace!vars)
<1>1. context[t] \in Seq(Spans \cup {NoSpan})
  BY DEF IInv, TypeOK
<1>2. /\ Trace!Innermost(context[t]) = IF context[t] = <<>> THEN NoSpan ELSE Last(context[t])
      /\ SubSeq(context[t], 1, Len(context[t]) - 1) = Front(context[t])
  BY <1>1, InnermostIsLast
<1>3. ASSUME NEW s, Starts(t, s) PROVE Trace!Next
  <2>1. s \notin Trace!OpenSpans \cup ended
    BY <1>3, StartsFresh DEF Used
  <2>2. Trace!Start(t, s) /\ s \in Spans
    BY <1>2, <1>3, <2>1 DEF Starts, Trace!Start, Current
  <2> QED
    BY <2>2 DEF Trace!Next
<1>4. CASE Ends(t)
  <2>1. Trace!Finish(t)
    BY <1>2, <1>4 DEF Ends, Trace!Finish
  <2> QED
    BY <2>1 DEF Trace!Next
<1>5. CASE Fails(t)
  <2>1. Trace!Fail(t)
    BY <1>2, <1>5 DEF Fails, Trace!Fail
  <2> QED
    BY <2>1 DEF Trace!Next
<1>6. CASE Begins(t) \/ Idles
  BY <1>6 DEF Begins, Idles, Trace!vars
<1> QED
  BY <1>3, <1>4, <1>5, <1>6 DEF SpanStep

LEMMA StepRefines ==
  ASSUME IInv, FreshInv, [Next]_vars
  PROVE  [Trace!Next]_(Trace!vars)
<1>1. CASE UNCHANGED vars
  BY <1>1 DEF vars, Trace!vars
<1>2. CASE Next
  BY <1>2, StepIsSpanStep, SpanStepRefines
<1> QED
  BY <1>1, <1>2

\* What the shim and the native code do to spans is what CallTrace allows: a span
\* starts once, under the span open on its thread, and finishes innermost first;
\* an error is recorded on the innermost open span only.
THEOREM ShimTracesCalls == Spec => TracesCalls
<1>1. Init => Trace!Init
  BY DEF Init, Trace!Init
<1>2. IInv /\ FreshInv /\ [Next]_vars => FreshInv'
  BY FreshStep
<1>3. IInv /\ FreshInv /\ [Next]_vars => [Trace!Next]_(Trace!vars)
  BY StepRefines
<1> QED
  BY <1>1, <1>2, <1>3, FreshInit, IInvAlways, PTL DEF Spec, TracesCalls, Trace!Spec

=============================================================================
