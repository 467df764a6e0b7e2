---------------------------- MODULE AsyncLifecycle ----------------------------
(***************************************************************************)
(* The asynchronous form of NativeOtelEmitter's code and the Tokio spawn   *)
(* edit (transform.rs), while futures are polled, suspended, moved between *)
(* threads, dropped and unwound.                                           *)
(*                                                                         *)
(* A future stands for one call of an asynchronous function, and its span  *)
(* has its name.  Its body is user code: it may create futures and await   *)
(* them, several at once if it likes, drop them, spawn others, return Ok   *)
(* or Err, give up the thread, or panic.  A future created by a body       *)
(* belongs to it; a spawned one, and the program's first, to the executor. *)
(***************************************************************************)
EXTENDS Naturals, Sequences

CONSTANTS Futures,     \* calls of asynchronous functions
          Threads,     \* threads of the executor
          MaxDepth,    \* bound: polls nested on a thread
          NoFuture, NoSpan, NotWrapped

ASSUME AsyncAssumption ==
  /\ NoFuture \notin Futures
  /\ NoSpan \notin Futures
  /\ NotWrapped \notin Futures \cup {NoSpan}
  /\ MaxDepth \in Nat

\* A function of a dependency has the lifecycle guard, one of the application has
\* not, a plain one is not instrumented.
Kinds == {"dependency", "application", "plain"}

VARIABLES future,  \* future[f]: the state of a call
          thread,  \* thread[t]: what runs on a thread
          ended    \* the spans that have ended

vars == <<future, thread, ended>>

FutureRecords ==
  [state : {"none", "created", "polled", "suspended", "done"},
   kind : Kinds,
   owner : Futures \cup {NoFuture},    \* the body it is a part of
   captured : Futures \cup {NoSpan, NotWrapped},  \* the context of a spawn edit
   started : BOOLEAN,                  \* polled at least once
   parent : Futures \cup {NoSpan},     \* the parent of its span
   completed : BOOLEAN,                \* the flag of the lifecycle guard
   outcome : {"none", "completed", "unwound", "cancelled"},
   error : BOOLEAN,                    \* the status of its span
   fate : {"none", "ok", "err", "panicked", "dropped"},  \* auxiliary: how it went
   invoker : Futures \cup {NoSpan}]    \* auxiliary: the span of the calling code
ThreadRecords ==
  [polls : Seq([future : Futures, base : Nat]),  \* who polls whom; contexts below
   contexts : Seq(Futures \cup {NoSpan}),        \* the attached contexts
   unwinding : Nat]                    \* the poll that panicked, 0: none

NewFuture ==
  [state |-> "none", kind |-> "plain", owner |-> NoFuture, captured |-> NotWrapped,
   started |-> FALSE, parent |-> NoSpan, completed |-> FALSE, outcome |-> "none",
   error |-> FALSE, fate |-> "none", invoker |-> NoSpan]
IdleThread == [polls |-> <<>>, contexts |-> <<>>, unwinding |-> 0]

-----------------------------------------------------------------------------
Depth(t) == Len(thread[t].polls)
Top(t) == thread[t].polls[Depth(t)].future

\* The span of Context::current().
CurrentSpan(contexts) == IF contexts = <<>> THEN NoSpan ELSE contexts[Len(contexts)]

\* The body of the last poll is at a point where it can do something; one that
\* panicked runs destructors, which can call and poll but not return.
BodyRuns(t) == Depth(t) > 0
BodyReturns(t) == Depth(t) > 0 /\ thread[t].unwinding # Depth(t)

\* The span whose code runs in a body: its own, or that of its caller.
SpanOf(f) == IF future[f].kind = "plain" THEN future[f].invoker ELSE f

\* f and everything that is a part of it.
Parts(f) ==
  LET Closed(S) ==
        \A g \in Futures : future[g].state # "none" /\ future[g].owner \in S => g \in S
  IN  {g \in Futures : \A S \in SUBSET Futures : f \in S /\ Closed(S) => g \in S}
Alive(f) == future[f].state \notin {"none", "done"}

-----------------------------------------------------------------------------
(* The end of a future *)

\* Drop of __OtelLifecycle: the flag decides before the thread's panic.
OutcomeOf_PanicFirst(completed, panicking) ==
  IF panicking THEN "unwound" ELSE IF completed THEN "completed" ELSE "cancelled"
OutcomeOf(completed, panicking) ==
  IF completed THEN "completed" ELSE IF panicking THEN "unwound" ELSE "cancelled"

\* A future is gone, with its guard if it has started.  A span does not take a
\* status after its end.
Gone(record, fate, panicking) ==
  LET guarded == record.started /\ record.kind = "dependency" IN
  [record EXCEPT !.state = "done",
                 !.fate = fate,
                 !.completed = fate \in {"ok", "err"},
                 !.error = record.started /\ record.kind # "plain" /\ fate = "err",
                 !.outcome = IF guarded
                             THEN OutcomeOf(fate \in {"ok", "err"}, panicking)
                             ELSE "none"]

\* The futures in `lost` are dropped unfinished, and f, if it is not one of them,
\* ends as `fate` says.
After(f, fate, lost, panicking) ==
  [g \in Futures |->
     IF g = f THEN Gone(future[g], fate, panicking)
     ELSE IF g \in lost THEN Gone(future[g], "dropped", panicking)
     ELSE future[g]]

\* The guard ends a dependency's span.  Any other ends when the last Context that
\* holds it is dropped: its own, or one that a spawned task was given.
EndedIn_IfCompleted(fut) ==
  {s \in Futures : fut[s].started /\ fut[s].kind # "plain" /\ fut[s].completed}
EndedIn(fut) ==
  {s \in Futures :
     /\ fut[s].started
     /\ fut[s].kind # "plain"
     /\ fut[s].state = "done"
     /\ fut[s].kind = "application" =>
          \A g \in Futures : fut[g].captured = s => fut[g].state = "done"}

\* The unfinished parts of f, without f.
Leftovers(f) == {g \in Parts(f) \ {f} : Alive(g)}

-----------------------------------------------------------------------------
(* Calls: a future is created, and not yet polled *)

\* The executor's own first future, or one dispatched by a call the edit does not
\* cover: nothing is attached around it.
CreateBare(f, kind) ==
  /\ future[f].state = "none"
  /\ future' = [future EXCEPT ![f] = [NewFuture EXCEPT !.state = "created", !.kind = kind]]
  /\ UNCHANGED <<thread, ended>>

\* A body calls an asynchronous function.
Call(t, f, kind) ==
  /\ BodyRuns(t)
  /\ future[f].state = "none"
  /\ future' = [future EXCEPT ![f] =
       [NewFuture EXCEPT !.state = "created", !.kind = kind, !.owner = Top(t),
                         !.invoker = SpanOf(Top(t))]]
  /\ UNCHANGED <<thread, ended>>

\* tokio::spawn(FutureExt::with_context(call, Context::current())).
Spawn(t, f, kind) ==
  /\ BodyRuns(t)
  /\ future[Top(t)].kind # "plain"
  /\ future[f].state = "none"
  /\ future' = [future EXCEPT ![f] =
       [NewFuture EXCEPT !.state = "created", !.kind = kind,
                         !.captured = CurrentSpan(thread[t].contexts),
                         !.invoker = SpanOf(Top(t))]]
  /\ UNCHANGED <<thread, ended>>

-----------------------------------------------------------------------------
(* Polls *)

\* The contexts with the one of the spawn edit, if there is one.
WithCaptured_Always(contexts, f) == Append(contexts, future[f].captured)
WithCaptured_Never(contexts, f) == contexts
WithCaptured(contexts, f) ==
  IF future[f].captured = NotWrapped THEN contexts ELSE Append(contexts, future[f].captured)
\* The contexts the body runs in.
Attached(contexts, f) ==
  IF future[f].kind = "plain" THEN WithCaptured(contexts, f)
                              ELSE Append(WithCaptured(contexts, f), f)

\* The executor polls what belongs to it, a body what is a part of it.
CanPoll(t, f) ==
  IF Depth(t) = 0 THEN future[f].owner = NoFuture ELSE future[f].owner = Top(t)

\* The first poll starts the span, as a child of the current one.
Poll(t, f) ==
  LET contexts == thread[t].contexts IN
  /\ future[f].state \in {"created", "suspended"}
  /\ CanPoll(t, f)
  /\ Depth(t) < MaxDepth
  /\ thread' = [thread EXCEPT
       ![t].polls = Append(@, [future |-> f, base |-> Len(contexts)]),
       ![t].contexts = Attached(contexts, f)]
  /\ future' = [future EXCEPT
       ![f].state = "polled",
       ![f].started = TRUE,
       ![f].parent = IF future[f].started \/ future[f].kind = "plain"
                     THEN @ ELSE CurrentSpan(WithCaptured(contexts, f))]
  /\ UNCHANGED ended

\* The last poll returns; with_context detaches what it attached.
Returned_Attached(t) == [thread EXCEPT ![t].polls = SubSeq(@, 1, Depth(t) - 1)]
Returned(t) ==
  [thread EXCEPT
     ![t].polls = SubSeq(@, 1, Depth(t) - 1),
     ![t].contexts = SubSeq(@, 1, thread[t].polls[Depth(t)].base)]

Suspend(t) ==
  /\ BodyReturns(t)
  /\ future' = [future EXCEPT ![Top(t)].state = "suspended"]
  /\ thread' = Returned(t)
  /\ UNCHANGED ended

\* The body returns: what is left of it is dropped, an Err is put on the span, the
\* flag is set, and the guard goes.
Return(t, fate) ==
  /\ BodyReturns(t)
  /\ future' = After(Top(t), fate, Leftovers(Top(t)), thread[t].unwinding # 0)
  /\ ended' = ended \cup EndedIn(future')
  /\ thread' = Returned(t)

\* A body drops a call it no longer wants (select!), or the executor a task.
Drop(t, f) ==
  /\ future[f].state \in {"created", "suspended"}
  /\ CanPoll(t, f)
  /\ future' = After(f, "dropped", Leftovers(f), thread[t].unwinding # 0)
  /\ ended' = ended \cup EndedIn(future')
  /\ UNCHANGED thread

\* A second panic while the first unwinds aborts the process.
Panic(t) ==
  /\ BodyRuns(t)
  /\ thread[t].unwinding = 0
  /\ thread' = [thread EXCEPT ![t].unwinding = Depth(t)]
  /\ UNCHANGED <<future, ended>>

\* The panic leaves the poll; the body that polled, or the executor, catches it
\* or is unwound in its turn.
Unwind(t, caught) ==
  /\ BodyRuns(t)
  /\ thread[t].unwinding = Depth(t)
  /\ Depth(t) = 1 => caught
  /\ future' = After(Top(t), "panicked", Leftovers(Top(t)), TRUE)
  /\ ended' = ended \cup EndedIn(future')
  /\ thread' = [Returned(t) EXCEPT ![t].unwinding = IF caught THEN 0 ELSE Depth(t) - 1]

-----------------------------------------------------------------------------
Init ==
  /\ future = [f \in Futures |-> NewFuture]
  /\ thread = [t \in Threads |-> IdleThread]
  /\ ended = {}

Next ==
  \/ \E f \in Futures, kind \in Kinds : CreateBare(f, kind)
  \/ \E t \in Threads :
       \/ \E f \in Futures :
            \/ \E kind \in Kinds : Call(t, f, kind) \/ Spawn(t, f, kind)
            \/ Poll(t, f)
            \/ Drop(t, f)
       \/ Suspend(t)
       \/ \E fate \in {"ok", "err"} : Return(t, fate)
       \/ Panic(t)
       \/ \E caught \in BOOLEAN : Unwind(t, caught)

Spec == Init /\ [][Next]_vars

-----------------------------------------------------------------------------
(* Properties *)

\* Every variable has the values the code can give it.
TypeOK ==
  /\ future \in [Futures -> FutureRecords]
  /\ thread \in [Threads -> ThreadRecords]
  /\ \A t \in Threads : thread[t].unwinding <= Depth(t)
  /\ ended \in SUBSET Futures

\* A span's parent is the span of the code that called the function, or that
\* spawned it through the edit, whatever thread polled it first, whoever else was
\* suspended, dropped or unwound there, and even if the spawner is long gone.
ParentIsInvoker ==
  \A f \in Futures :
    (future[f].started /\ future[f].kind # "plain")
      => future[f].parent = future[f].invoker

\* A thread has exactly the contexts of the futures it is polling attached: a
\* suspended, dropped or unwound one leaves nothing, on any thread.
ContextsAreOfPolls ==
  \A t \in Threads :
    /\ Depth(t) = 0 => thread[t].contexts = <<>>
    /\ \A i \in 1..Depth(t) :
         LET poll == thread[t].polls[i]
             above == IF i = Depth(t) THEN Len(thread[t].contexts)
                                      ELSE thread[t].polls[i + 1].base
         IN SubSeq(thread[t].contexts, poll.base + 1, above) = Attached(<<>>, poll.future)

\* The recorded outcome is how the call went: completed for Ok and for Err, which
\* also has the error status, even while a panic unwinds the thread; unwound after
\* a panic of its own; a call that was never polled records nothing.
LifecycleIsExact ==
  \A f \in Futures :
    LET r == future[f] IN
    (r.state = "done" /\ r.kind = "dependency") =>
      /\ r.fate \in {"ok", "err"} <=> r.outcome = "completed"
      /\ r.fate = "panicked" => r.outcome = "unwound"
      /\ r.outcome = "none" <=> ~r.started
      /\ r.error <=> r.fate = "err"

\* A dependency's span has ended exactly when its future is gone.  An application's
\* has not ended before, and no span is left open once every future is gone.
SpansEndWithFutures ==
  /\ \A f \in Futures :
       LET gone == future[f].state = "done" /\ future[f].started IN
       /\ future[f].kind = "dependency" => (f \in ended <=> gone)
       /\ future[f].kind = "application" => (f \in ended => gone)
  /\ (\A f \in Futures : ~Alive(f)) =>
       \A f \in Futures : (future[f].started /\ future[f].kind # "plain") => f \in ended

\* No call awaited by a body outlives it: its span, if a guard ends it, ends first.
AwaitedEndFirst ==
  \A f \in Futures :
    (/\ future[f].owner \in ended
     /\ future[f].kind = "dependency"
     /\ future[f].started) => f \in ended
=============================================================================
