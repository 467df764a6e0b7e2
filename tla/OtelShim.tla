------------------------------ MODULE OtelShim ------------------------------
(***************************************************************************)
(* The runtime shim (otel-shim/src/lib.rs) driven by the code the Tier-2   *)
(* emitter splices into dependency functions (TrampolineEmitter), beside   *)
(* the Tier-1 code NativeOtelEmitter splices into application functions:   *)
(* both attach to the one context stack OpenTelemetry keeps per thread.    *)
(*                                                                         *)
(* A thread is its call stack.  A frame is a call of a trampoline function *)
(* ("call"), of a natively instrumented function ("native"), or of user    *)
(* code that OpenTelemetry runs ("hook": a sampler or on_start while a     *)
(* span starts, an exporter while one ends).  Only the last frame runs.    *)
(***************************************************************************)
EXTENDS Naturals, SequencesExt

CONSTANTS Threads,      (* the threads of the instrumented process           *)
          NoThread,     (* the exporter mutex is free                        *)
          HandleSpace,  (* 2^64 in the code: handles are 0..HandleSpace-1    *)
          MaxSpans,     (* bound: enters that get past the early returns     *)
          MaxDepth,     (* bound: frames below which a call may be made      *)
          NativeSpans   (* TRUE: some functions are natively instrumented    *)

ASSUME ShimAssumption ==
  /\ NoThread \notin Threads
  /\ HandleSpace \in Nat \ {0, 1}
  /\ MaxSpans \in Nat
  /\ MaxDepth \in Nat
  /\ NativeSpans \in BOOLEAN

Spans == 1 .. MaxSpans
NoSpan == 0
Handles == 0 .. HandleSpace - 1

VARIABLES calls,       (* calls[t]: the frames of thread t                    *)
          stack,       (* STACK of t: (handle, Context, ContextGuard) triples *)
          inShim,      (* IN_SHIM of t                                        *)
          nextHandle,  (* NEXT_HANDLE, counted without reduction              *)
          context,     (* OpenTelemetry's context stack of t                  *)
          exporter,    (* the holder of SimpleSpanProcessor's exporter Mutex  *)
          begun,       (* enters past the early returns: the span identities  *)
          parent,      (* parent[s]: the span current when s was started      *)
          errored,     (* spans whose status is Error                         *)
          ended,       (* spans that have ended                               *)
          failed       (* auxiliary: spans of the bodies that returned Err    *)

local == <<calls, stack, inShim, context>>
trace == <<begun, parent, errored, ended, failed>>
vars == <<calls, stack, inShim, nextHandle, context, exporter, begun, parent,
          errored, ended, failed>>

Kinds == {"call", "native", "hook"}

\* Where a frame is.  "start" to "retake" is inside enter_span, "ending" to
\* "exporting" inside the drop of the popped triple (or of a native guard).
EnterPcs == {"start", "hooked", "alloc", "retake"}
EndPcs == {"ending", "locking", "exporting"}
Pcs == EnterPcs \cup {"body", "failed"} \cup EndPcs

\* handle is the u64 in __OtelGuard.  pos is where the frame's Context is
\* attached on the context stack and slot where its triple is on STACK, 0 when
\* nowhere; slot is auxiliary.
Frame(kind, pc, span) ==
  [kind |-> kind, pc |-> pc, span |-> span, handle |-> 0, pos |-> 0, slot |-> 0]

Frames == [kind : Kinds, pc : Pcs, span : Spans \cup {NoSpan},
           handle : Handles, pos : Nat, slot : Nat]

Entries == [handle : Handles, span : Spans, pos : Nat]

Running(t) == Last(calls[t])

At(t, kinds, pcs) ==
  /\ calls[t] # <<>>
  /\ Running(t).kind \in kinds
  /\ Running(t).pc \in pcs

\* Code outside OpenTelemetry and the shim runs on t and may call functions.
UserCodeRuns(t) == calls[t] # <<>> => Running(t).pc = "body"

PushFrame(t, f) == calls' = [calls EXCEPT ![t] = Append(@, f)]
PopFrame(t) == calls' = [calls EXCEPT ![t] = Front(@)]
CallHook(t, pc) ==
  calls' = [calls EXCEPT ![t] =
              Append([@ EXCEPT ![Len(@)].pc = pc], Frame("hook", "body", NoSpan))]
SetFrame(t, f) == calls' = [calls EXCEPT ![t] = [@ EXCEPT ![Len(@)] = f]]

Current(t) == IF context[t] = <<>> THEN NoSpan ELSE Last(context[t])

\* OpenTelemetry's ContextStack::pop_id: the top is popped, a context below the
\* top only leaves its place (the current context does not change).
Detach(x, pos) ==
  IF pos = Len(x) THEN Front(x) ELSE [x EXCEPT ![pos] = NoSpan]

-----------------------------------------------------------------------------
(* __otel_span_enter *)

\* ReentrancyGuard::acquire finds the flag set.
Reentrant_Unguarded(t) == FALSE
Reentrant(t) == inShim[t]

\* An early return with handle 0: null name, suppressed telemetry, the shim
\* already active on this thread, invalid UTF-8, an unknown kind.
EnterReturnsZero(t, accepted) ==
  /\ UserCodeRuns(t)
  /\ Len(calls[t]) < MaxDepth
  /\ accepted => Reentrant(t)
  /\ PushFrame(t, Frame("call", "body", NoSpan))
  /\ UNCHANGED <<stack, inShim, nextHandle, context, exporter, trace>>

\* The call is accepted and IN_SHIM is set; the span is about to start.
EnterBegins(t) ==
  /\ UserCodeRuns(t)
  /\ Len(calls[t]) < MaxDepth
  /\ begun < MaxSpans
  /\ ~Reentrant(t)
  /\ inShim' = [inShim EXCEPT ![t] = TRUE]
  /\ begun' = begun + 1
  /\ PushFrame(t, Frame("call", "start", begun + 1))
  /\ UNCHANGED <<stack, nextHandle, context, exporter, parent, errored, ended, failed>>

\* Sampler and SpanProcessor::on_start are user code and run inside start().
RunStartHook(t) ==
  /\ At(t, {"call"}, {"start"})
  /\ CallHook(t, "hooked")
  /\ UNCHANGED <<stack, inShim, nextHandle, context, exporter, trace>>

\* The span starts under the current context and its context is attached.
StartSpan(t) ==
  /\ At(t, {"call"}, {"start", "hooked"})
  /\ LET f == Running(t)
     IN  /\ context' = [context EXCEPT ![t] = Append(@, f.span)]
         /\ parent' = [parent EXCEPT ![f.span] = Current(t)]
         /\ SetFrame(t, [f EXCEPT !.pc = "alloc", !.pos = Len(context[t]) + 1])
  /\ UNCHANGED <<stack, inShim, nextHandle, exporter, begun, errored, ended, failed>>

\* start() panics: catch_unwind yields 0 and the unwinding drops ReentrancyGuard.
StartPanics_FlagKept(t) ==
  /\ At(t, {"call"}, {"start", "hooked"})
  /\ SetFrame(t, Frame("call", "body", NoSpan))
  /\ UNCHANGED <<stack, inShim, nextHandle, context, exporter, trace>>
StartPanics(t) ==
  /\ At(t, {"call"}, {"start", "hooked"})
  /\ inShim' = [inShim EXCEPT ![t] = FALSE]
  /\ SetFrame(t, Frame("call", "body", NoSpan))
  /\ UNCHANGED <<stack, nextHandle, context, exporter, trace>>

\* What a counter of HandleSpace values holds after n increments from 0, for n
\* in its first two turns; the guard of the two actions below keeps it there.
HandleAt_NoWrap(n) == n
HandleAt(n) == IF n < HandleSpace THEN n ELSE n - HandleSpace

\* enter_span pushes its triple, returns the handle and clears IN_SHIM.
PushEntry(t, h) ==
  LET f == Running(t)
  IN  /\ stack' = [stack EXCEPT ![t] =
                     Append(@, [handle |-> h, span |-> f.span, pos |-> f.pos])]
      /\ SetFrame(t, [f EXCEPT !.pc = "body", !.handle = h, !.slot = Len(stack[t]) + 1])
      /\ inShim' = [inShim EXCEPT ![t] = FALSE]

\* The first fetch_add; 0 is reserved, so it is drawn again in another step.
TakeHandle_ZeroUsed(t) ==
  /\ At(t, {"call"}, {"alloc"})
  /\ nextHandle < 2 * HandleSpace
  /\ nextHandle' = nextHandle + 1
  /\ PushEntry(t, HandleAt(nextHandle))
  /\ UNCHANGED <<context, exporter, trace>>
TakeHandle(t) ==
  /\ At(t, {"call"}, {"alloc"})
  /\ nextHandle < 2 * HandleSpace
  /\ nextHandle' = nextHandle + 1
  /\ \/ /\ HandleAt(nextHandle) = 0
        /\ SetFrame(t, [Running(t) EXCEPT !.pc = "retake"])
        /\ UNCHANGED <<stack, inShim>>
     \/ /\ HandleAt(nextHandle) # 0
        /\ PushEntry(t, HandleAt(nextHandle))
  /\ UNCHANGED <<context, exporter, trace>>

RetakeHandle(t) ==
  /\ At(t, {"call"}, {"retake"})
  /\ nextHandle < 2 * HandleSpace
  /\ nextHandle' = nextHandle + 1
  /\ PushEntry(t, HandleAt(nextHandle))
  /\ UNCHANGED <<context, exporter, trace>>

-----------------------------------------------------------------------------
(* The instrumented body *)

\* __otel_span_set_error: the innermost entry of this thread with that handle.
ErrorTarget_TopOfStack(s, h) == IF s = <<>> THEN {} ELSE {Last(s).span}
ErrorTarget(s, h) ==
  {s[i].span : i \in {i \in DOMAIN s : /\ s[i].handle = h
                                       /\ \A j \in i + 1 .. Len(s) : s[j].handle # h}}

\* A Result body returned Err; the emitted suffix calls set_error unless handle is 0.
BodyFails(t) ==
  /\ At(t, {"call"}, {"body"})
  /\ LET f == Running(t)
         live == f.handle # 0
     IN  /\ failed' = failed \cup IF live THEN {f.span} ELSE {}
         /\ errored' = errored \cup IF live /\ ~Reentrant(t)
                                    THEN ErrorTarget(stack[t], f.handle) ELSE {}
         /\ SetFrame(t, [f EXCEPT !.pc = "failed"])
  /\ UNCHANGED <<stack, inShim, nextHandle, context, exporter, begun, parent, ended>>

\* __otel_span_exit pops if and only if the handle is that of the top entry.
PopMatching_Any(s, h) == IF s = <<>> THEN s ELSE Front(s)
PopMatching(s, h) == IF s # <<>> /\ Last(s).handle = h THEN Front(s) ELSE s

ExitPops(t) ==
  /\ Running(t).handle # 0
  /\ ~Reentrant(t)
  /\ PopMatching(stack[t], Running(t).handle) # stack[t]

\* The guard is dropped, by a return or an unwind, and exit has nothing to do.
ExitNoop(t) ==
  /\ At(t, {"call"}, {"body", "failed"})
  /\ ~ExitPops(t)
  /\ PopFrame(t)
  /\ UNCHANGED <<stack, inShim, nextHandle, context, exporter, trace>>

\* exit pops the triple and, with IN_SHIM set and STACK released, drops it: the
\* context is detached and the span ends.
ExitEnds(t) ==
  /\ At(t, {"call"}, {"body", "failed"})
  /\ ExitPops(t)
  /\ LET e == Last(stack[t])
     IN  /\ stack' = [stack EXCEPT ![t] = PopMatching(@, Running(t).handle)]
         /\ context' = [context EXCEPT ![t] = Detach(@, e.pos)]
         /\ ended' = ended \cup {e.span}
  /\ inShim' = [inShim EXCEPT ![t] = TRUE]
  /\ SetFrame(t, Frame("call", "ending", Running(t).span))
  /\ UNCHANGED <<nextHandle, exporter, begun, parent, errored, failed>>

\* Any code of the thread may call exit or set_error with a handle that is not
\* the live one it was given: a stale one, another thread's, an outer frame's.
StrayExit(t, h) ==
  /\ UserCodeRuns(t)
  /\ stack[t] # <<>> => Last(stack[t]).handle # h
  /\ stack' = [stack EXCEPT ![t] = IF h = 0 \/ Reentrant(t) THEN @ ELSE PopMatching(@, h)]
  /\ UNCHANGED <<calls, inShim, nextHandle, context, exporter, trace>>

StraySetError(t, h) ==
  /\ UserCodeRuns(t)
  /\ \A i \in DOMAIN stack[t] : stack[t][i].handle # h
  /\ errored' = errored \cup IF h = 0 \/ Reentrant(t) THEN {} ELSE ErrorTarget(stack[t], h)
  /\ UNCHANGED <<local, nextHandle, exporter, begun, parent, ended, failed>>

-----------------------------------------------------------------------------
(* Tier-1 functions: the span and the guard are locals of the function *)

NativeEnter(t) ==
  /\ NativeSpans
  /\ UserCodeRuns(t)
  /\ Len(calls[t]) < MaxDepth
  /\ begun < MaxSpans
  /\ begun' = begun + 1
  /\ context' = [context EXCEPT ![t] = Append(@, begun + 1)]
  /\ parent' = [parent EXCEPT ![begun + 1] = Current(t)]
  /\ PushFrame(t, [Frame("native", "body", begun + 1) EXCEPT !.pos = Len(context[t]) + 1])
  /\ UNCHANGED <<stack, inShim, nextHandle, exporter, errored, ended, failed>>

NativeFails(t) ==
  /\ At(t, {"native"}, {"body"})
  /\ errored' = errored \cup {Running(t).span}
  /\ failed' = failed \cup {Running(t).span}
  /\ SetFrame(t, [Running(t) EXCEPT !.pc = "failed"])
  /\ UNCHANGED <<stack, inShim, nextHandle, context, exporter, begun, parent, ended>>

NativeExit(t) ==
  /\ At(t, {"native"}, {"body", "failed"})
  /\ LET f == Running(t)
     IN  /\ context' = [context EXCEPT ![t] = Detach(@, f.pos)]
         /\ ended' = ended \cup {f.span}
         /\ SetFrame(t, Frame("native", "ending", f.span))
  /\ UNCHANGED <<stack, inShim, nextHandle, exporter, begun, parent, errored, failed>>

-----------------------------------------------------------------------------
(* The end of a span, inside the SDK: SpanProcessor::on_end *)

\* Leaving the shim's drop clears IN_SHIM; a native guard has no flag to clear.
LeaveEnd(t) ==
  /\ PopFrame(t)
  /\ inShim' = [inShim EXCEPT ![t] = IF Running(t).kind = "call" THEN FALSE ELSE @]

\* An unsampled span, a batch processor, or a processor that panics.
EndQuietly(t) ==
  /\ At(t, {"call", "native"}, {"ending"})
  /\ LeaveEnd(t)
  /\ UNCHANGED <<stack, nextHandle, context, exporter, trace>>

\* SimpleSpanProcessor exports on this thread, under its exporter Mutex.
ExportWanted(t) ==
  /\ At(t, {"call", "native"}, {"ending"})
  /\ SetFrame(t, [Running(t) EXCEPT !.pc = "locking"])
  /\ UNCHANGED <<stack, inShim, nextHandle, context, exporter, trace>>

LockExporter(t) ==
  /\ At(t, {"call", "native"}, {"locking"})
  /\ exporter = NoThread
  /\ exporter' = t
  /\ CallHook(t, "exporting")
  /\ UNCHANGED <<stack, inShim, nextHandle, context, trace>>

HookReturns(t) ==
  /\ At(t, {"hook"}, {"body"})
  /\ PopFrame(t)
  /\ UNCHANGED <<stack, inShim, nextHandle, context, exporter, trace>>

\* export() returned or panicked: the MutexGuard is dropped either way.
ExportEnds(t) ==
  /\ At(t, {"call", "native"}, {"exporting"})
  /\ exporter' = NoThread
  /\ LeaveEnd(t)
  /\ UNCHANGED <<stack, nextHandle, context, trace>>

-----------------------------------------------------------------------------

Init ==
  /\ calls = [t \in Threads |-> <<>>]
  /\ stack = [t \in Threads |-> <<>>]
  /\ inShim = [t \in Threads |-> FALSE]
  /\ nextHandle = 1
  /\ context = [t \in Threads |-> <<>>]
  /\ exporter = NoThread
  /\ begun = 0
  /\ parent = [s \in Spans |-> NoSpan]
  /\ errored = {}
  /\ ended = {}
  /\ failed = {}

EnterStep(t) ==
  \/ StartSpan(t)
  \/ StartPanics(t)
  \/ TakeHandle(t)
  \/ RetakeHandle(t)

EndStep(t) ==
  \/ EndQuietly(t)
  \/ ExportWanted(t)
  \/ ExportEnds(t)

UserStep(t) ==
  \/ \E accepted \in BOOLEAN : EnterReturnsZero(t, accepted)
  \/ EnterBegins(t)
  \/ RunStartHook(t)
  \/ BodyFails(t)
  \/ ExitEnds(t)
  \/ \E h \in Handles : StrayExit(t, h) \/ StraySetError(t, h)
  \/ NativeEnter(t)
  \/ NativeFails(t)
  \/ NativeExit(t)

Next ==
  \E t \in Threads :
    \/ EnterStep(t)
    \/ EndStep(t)
    \/ LockExporter(t)
    \/ HookReturns(t)
    \/ ExitNoop(t)
    \/ UserStep(t)

Spec == Init /\ [][Next]_vars

\* Instructions inside the shim and the SDK are executed; a thread that waits
\* for the mutex gets it if it is free again and again; a hook, and a function
\* called from one (its frame is at least the third), returns if it is given
\* control again and again.
Fairness ==
  \A t \in Threads :
    /\ WF_vars(EnterStep(t))
    /\ WF_vars(EndStep(t))
    /\ SF_vars(LockExporter(t))
    /\ SF_vars(HookReturns(t))
    /\ \A d \in 3 .. MaxDepth : SF_vars(Len(calls[t]) = d /\ ExitNoop(t))

FairSpec == Spec /\ Fairness

-----------------------------------------------------------------------------

TypeOK ==
  /\ calls \in [Threads -> Seq(Frames)]
  /\ stack \in [Threads -> Seq(Entries)]
  /\ inShim \in [Threads -> BOOLEAN]
  /\ nextHandle \in 1 .. 2 * HandleSpace
  /\ context \in [Threads -> Seq(Spans \cup {NoSpan})]
  /\ exporter \in Threads \cup {NoThread}
  /\ begun \in 0 .. MaxSpans
  /\ parent \in [Spans -> Spans \cup {NoSpan}]
  /\ errored \in SUBSET Spans
  /\ ended \in SUBSET Spans
  /\ failed \in SUBSET Spans

\* The entries of s are, in order, those of the frames of c that hold a handle.
StackMirrors(c, s) ==
  /\ \A i \in 1 .. Len(c) :
       /\ c[i].slot = 0 <=> c[i].handle = 0
       /\ c[i].slot # 0 =>
            /\ c[i].slot \in 1 .. Len(s)
            /\ s[c[i].slot] = [handle |-> c[i].handle, span |-> c[i].span, pos |-> c[i].pos]
  /\ \A i, j \in 1 .. Len(c) :
       i < j /\ c[i].slot # 0 /\ c[j].slot # 0 => c[i].slot < c[j].slot
  /\ \A k \in 1 .. Len(s) : \E i \in 1 .. Len(c) : c[i].slot = k

\* S5: STACK mirrors the call stack, so every exit finds its own entry on top.
\* No early return, panic, nested hook or stray call makes the two differ.
StackMirrorsCalls == \A t \in Threads : StackMirrors(calls[t], stack[t])

\* The contexts of x are, in order, those the frames of c have attached.
ContextMirrors(c, x) ==
  /\ \A i \in 1 .. Len(c) :
       /\ c[i].pos # 0 => c[i].pos \in 1 .. Len(x) /\ x[c[i].pos] = c[i].span
       /\ c[i].handle # 0 => c[i].pos # 0
  /\ \A i, j \in 1 .. Len(c) :
       i < j /\ c[i].pos # 0 /\ c[j].pos # 0 => c[i].pos < c[j].pos
  /\ \A k \in 1 .. Len(x) : \E i \in 1 .. Len(c) : c[i].pos = k

\* A body always runs in the context of the innermost instrumented function
\* around it, trampoline or native, and a caller gets its own back.
ContextMirrorsCalls == \A t \in Threads : ContextMirrors(calls[t], context[t])

\* IN_SHIM is set exactly while a shim call is in progress on the thread: a flag
\* left set would silence every later span of the thread.
InShimCall(f) == f.kind = "call" /\ f.pc \in EnterPcs \cup EndPcs
FlagIsExact ==
  \A t \in Threads : inShim[t] <=> \E i \in 1 .. Len(calls[t]) : InShimCall(calls[t][i])

\* An error status is on exactly the spans whose own body returned Err.
ErrorsAreAttributed == errored = failed

\* C1, as the comment in enter_span has it: code that runs inside an export gets
\* handle 0 from every trampoline function it calls.
ExportReentryFailsOpen ==
  \A t \in Threads : \A i, j \in 1 .. Len(calls[t]) :
    /\ i < j
    /\ calls[t][i].kind = "hook"
    /\ calls[t][j].kind = "call"
    => calls[t][j].handle = 0 /\ calls[t][j].pc \in {"body", "failed"}

\* Every call into the shim comes back, whatever hooks and exporters do short of
\* not returning.
ShimCallsReturn == \A t \in Threads : inShim[t] ~> ~inShim[t]

\* The shim and the native code together trace calls as CallTrace promises.
Trace == INSTANCE CallTrace WITH open <- context, finished <- ended
TracesCalls == Trace!Spec
=============================================================================
