----------------------------- MODULE CallTrace -----------------------------
(***************************************************************************)
(* What tracing of synchronous calls promises, whatever carries it out:    *)
(* every thread has a stack of open spans, a span is started under the     *)
(* span that is open on its own thread, an error is recorded on the        *)
(* innermost open span only, and spans finish innermost first, once.       *)
(***************************************************************************)
EXTENDS Naturals, Sequences

CONSTANTS Threads,   (* the threads of the traced process              *)
          Spans,     (* the identities of spans                         *)
          NoSpan     (* the parent of a root span                       *)

VARIABLES open,      (* open[t]: the open spans of thread t, inner last *)
          parent,    (* parent[s]: the span s was started under         *)
          errored,   (* the spans with an error status                  *)
          finished   (* the spans that have ended                       *)

vars == <<open, parent, errored, finished>>

Innermost(s) == IF s = <<>> THEN NoSpan ELSE s[Len(s)]

OpenSpans == UNION {{open[t][i] : i \in DOMAIN open[t]} : t \in Threads}

Init ==
  /\ open = [t \in Threads |-> <<>>]
  /\ parent = [s \in Spans |-> NoSpan]
  /\ errored = {}
  /\ finished = {}

Start(t, s) ==
  /\ s \notin OpenSpans \cup finished
  /\ open' = [open EXCEPT ![t] = Append(@, s)]
  /\ parent' = [parent EXCEPT ![s] = Innermost(open[t])]
  /\ UNCHANGED <<errored, finished>>

Fail(t) ==
  /\ open[t] # <<>>
  /\ errored' = errored \cup {Innermost(open[t])}
  /\ UNCHANGED <<open, parent, finished>>

Finish(t) ==
  /\ open[t] # <<>>
  /\ open' = [open EXCEPT ![t] = SubSeq(@, 1, Len(@) - 1)]
  /\ finished' = finished \cup {Innermost(open[t])}
  /\ UNCHANGED <<parent, errored>>

Next == \E t \in Threads : (\E s \in Spans : Start(t, s)) \/ Fail(t) \/ Finish(t)

Spec == Init /\ [][Next]_vars
=============================================================================
