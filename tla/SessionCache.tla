----------------------------- MODULE SessionCache -----------------------------
(***************************************************************************)
(* The session plan as a file: who writes it, who reads it, and what a     *)
(* reader does with what it finds (session.rs: load_or_create, is_fresh,   *)
(* compute_fingerprint, build_from_metadata, save_to_file; main.rs: the    *)
(* CLI's plan).                                                            *)
(*                                                                         *)
(* A session is one run of Cargo: by the CLI, which names its plan's file  *)
(* to the wrappers, or with the wrapper alone ("raw").  All sessions use   *)
(* one target directory.  Cargo's lock keeps their builds apart; nothing   *)
(* keeps the CLI's own steps, or a killed session's wrappers, apart from   *)
(* another session.                                                        *)
(*                                                                         *)
(* The manifests and the lock file are a counter of edits.  A plan records *)
(* the one that `cargo metadata` saw and the one its fingerprint is of.    *)
(***************************************************************************)
EXTENDS Naturals, FiniteSets

CONSTANTS Sessions,   \* runs of Cargo
          Wrappers,   \* wrapper processes that can be there at once
          MaxEdits,   \* bound: edits of manifests and lock file
          MaxSpawns,  \* bound: wrapper processes in all
          NoSession, NoPlan, Missing, Torn

ASSUME SessionAssumption ==
  /\ NoSession \notin Sessions
  /\ MaxEdits \in Nat
  /\ MaxSpawns \in Nat

\* The file the CLI names, and the one beside the artifacts of a profile, which
\* a wrapper uses if no file is named.
Places == {"target", "profile"}

Plans == [id : Sessions \cup {NoSession},  \* session_id, if the CLI made the plan
          graph : Nat,      \* the manifests it was resolved from
          print : Nat,      \* the manifests of its fingerprint, 0: none yet
          artifacts : Nat]  \* the manifests of its captured artifacts, 0: none

ASSUME NullAssumption ==
  /\ Missing \notin Plans
  /\ Torn \notin Plans
  /\ Missing # Torn
  /\ NoPlan \notin Plans

VARIABLES manifests,  \* edits so far + 1
          file,       \* file[place]: a plan, Missing, or Torn (half written)
          lock,       \* the session that holds Cargo's lock
          session,    \* session[s]: the CLI or, if raw, Cargo
          wrapper,    \* wrapper[w]: one wrapper process
          spawns,     \* for the bound
          kept        \* auxiliary: sessions whose CLI wrote its plan to "target",
                      \* where nobody has written since

vars == <<manifests, file, lock, session, wrapper, spawns, kept>>

SessionStates == {"new", "metadata", "print", "prepass", "save", "saving",
                  "ready", "build", "over"}
SessionRecords ==
  [pc : SessionStates,
   public : BOOLEAN,     \* CARGO_INSTRUMENT_DEPENDENCIES
   exported : BOOLEAN,   \* CARGO_INSTRUMENT_SESSION and its id are set
   plan : Plans \cup {NoPlan},
   since : Nat]          \* auxiliary: the manifests when it started
WrapperStates == {"free", "load", "check", "metadata", "print", "save", "saving", "used"}
WrapperRecords ==
  [pc : WrapperStates,
   session : Sessions \cup {NoSession},
   plan : Plans \cup {NoPlan},  \* NoPlan in "used": the default plan
   since : Nat]                 \* auxiliary: the manifests when it started

NewSession == [pc |-> "new", public |-> FALSE, exported |-> FALSE, plan |-> NoPlan, since |-> 0]
Free == [pc |-> "free", session |-> NoSession, plan |-> NoPlan, since |-> 0]

Resolved(id) == [id |-> id, graph |-> manifests, print |-> 0, artifacts |-> 0]

-----------------------------------------------------------------------------
Edit ==
  /\ manifests <= MaxEdits
  /\ manifests' = manifests + 1
  /\ UNCHANGED <<file, lock, session, wrapper, spawns, kept>>

-----------------------------------------------------------------------------
(* A session *)

StartCli(s, public) ==
  /\ session[s].pc = "new"
  /\ session' = [session EXCEPT ![s] =
       [NewSession EXCEPT !.pc = "metadata", !.public = public, !.since = manifests]]
  /\ UNCHANGED <<manifests, file, lock, wrapper, spawns, kept>>

StartRaw(s) ==
  /\ session[s].pc = "new"
  /\ session' = [session EXCEPT ![s] =
       [NewSession EXCEPT !.pc = "ready", !.since = manifests]]
  /\ UNCHANGED <<manifests, file, lock, wrapper, spawns, kept>>

CliResolves(s) ==
  /\ session[s].pc = "metadata"
  /\ session' = [session EXCEPT ![s].pc = "print", ![s].plan = Resolved(s)]
  /\ UNCHANGED <<manifests, file, lock, wrapper, spawns, kept>>

\* Without metadata nothing is exported: the wrappers find a plan for themselves.
CliResolveFails(s) ==
  /\ session[s].pc = "metadata"
  /\ session' = [session EXCEPT ![s].pc = "ready"]
  /\ UNCHANGED <<manifests, file, lock, wrapper, spawns, kept>>

CliPrints(s) ==
  /\ session[s].pc = "print"
  /\ session' = [session EXCEPT ![s].pc = "prepass", ![s].plan.print = manifests]
  /\ UNCHANGED <<manifests, file, lock, wrapper, spawns, kept>>

\* acquire_native_artifacts runs Cargo, which needs the lock; a command that is
\* not orchestrated, or a capture that comes to nothing, leaves none.
CliCaptures(s) ==
  /\ session[s].pc = "prepass"
  /\ \/ /\ lock = NoSession
        /\ session' = [session EXCEPT ![s].pc = "save", ![s].plan.artifacts = manifests]
     \/ session' = [session EXCEPT ![s].pc = "save"]
  /\ UNCHANGED <<manifests, file, lock, wrapper, spawns, kept>>

CliSaves(s) ==
  /\ session[s].pc = "save"
  /\ file' = [file EXCEPT !["target"] = session[s].plan]
  /\ kept' = {s}
  /\ session' = [session EXCEPT ![s].pc = "ready", ![s].exported = TRUE]
  /\ UNCHANGED <<manifests, lock, wrapper, spawns>>

\* A failed save is a warning; the file is named to the wrappers all the same.
CliSaveFails(s) ==
  /\ session[s].pc \in {"save", "saving"}
  /\ session' = [session EXCEPT ![s].pc = "ready", ![s].exported = TRUE]
  /\ UNCHANGED <<manifests, file, lock, wrapper, spawns, kept>>

\* The rename fails, and the file is written where it is.
CliSavesInPlace(s) ==
  /\ session[s].pc = "save"
  /\ file' = [file EXCEPT !["target"] = Torn]
  /\ kept' = {}
  /\ session' = [session EXCEPT ![s].pc = "saving"]
  /\ UNCHANGED <<manifests, lock, wrapper, spawns>>

CliSavedInPlace(s) ==
  /\ session[s].pc = "saving"
  /\ file' = [file EXCEPT !["target"] = session[s].plan]
  /\ kept' = {s}
  /\ session' = [session EXCEPT ![s].pc = "ready", ![s].exported = TRUE]
  /\ UNCHANGED <<manifests, lock, wrapper, spawns>>

StartBuild(s) ==
  /\ session[s].pc = "ready"
  /\ lock = NoSession
  /\ lock' = s
  /\ session' = [session EXCEPT ![s].pc = "build"]
  /\ UNCHANGED <<manifests, file, wrapper, spawns, kept>>

Spawn(s, w) ==
  /\ session[s].pc = "build"
  /\ wrapper[w].pc = "free"
  /\ spawns < MaxSpawns
  /\ spawns' = spawns + 1
  /\ wrapper' = [wrapper EXCEPT ![w] =
       [Free EXCEPT !.pc = "load", !.session = s, !.since = manifests]]
  /\ UNCHANGED <<manifests, file, lock, session, kept>>

EndBuild(s) ==
  /\ session[s].pc = "build"
  /\ \A w \in Wrappers : wrapper[w].session # s
  /\ lock' = NoSession
  /\ session' = [session EXCEPT ![s].pc = "over"]
  /\ UNCHANGED <<manifests, file, wrapper, spawns, kept>>

\* The CLI and Cargo are killed; the wrappers may outlive them.
Kill(s) ==
  /\ session[s].pc \notin {"new", "over"}
  /\ lock' = IF lock = s THEN NoSession ELSE lock
  /\ session' = [session EXCEPT ![s].pc = "over"]
  /\ UNCHANGED <<manifests, file, wrapper, spawns, kept>>

-----------------------------------------------------------------------------
(* A wrapper: load_or_create *)

Place(w) == IF session[wrapper[w].session].exported THEN "target" ELSE "profile"

\* A missing file or one that does not parse.
LoadFails(w) ==
  /\ wrapper[w].pc = "load"
  /\ file[Place(w)] \in {Missing, Torn}
  /\ wrapper' = [wrapper EXCEPT ![w].pc = "metadata"]
  /\ UNCHANGED <<manifests, file, lock, session, spawns, kept>>

\* With a file named by the CLI, a plan is used without a test if it has the
\* session's id, or if the policy is the legacy one.
Trusted_ByPolicy(w, plan) ==
  LET s == wrapper[w].session IN
  /\ session[s].exported
  /\ ~session[s].public
Trusted(w, plan) ==
  LET s == wrapper[w].session IN
  /\ session[s].exported
  /\ plan.id = s \/ ~session[s].public

Load(w) ==
  LET plan == file[Place(w)] IN
  /\ wrapper[w].pc = "load"
  /\ plan \notin {Missing, Torn}
  /\ wrapper' = [wrapper EXCEPT ![w].plan = plan,
                                ![w].pc = IF Trusted(w, plan) THEN "used" ELSE "check"]
  /\ UNCHANGED <<manifests, file, lock, session, spawns, kept>>

\* is_fresh: the fingerprint computed now is the one in the plan.
IsFresh_Always(plan) == plan.print # 0
IsFresh(plan) == plan.print # 0 /\ plan.print = manifests

Check(w) ==
  /\ wrapper[w].pc = "check"
  /\ wrapper' = [wrapper EXCEPT ![w].pc =
       IF IsFresh(wrapper[w].plan) THEN "used" ELSE "metadata"]
  /\ UNCHANGED <<manifests, file, lock, session, spawns, kept>>

\* build_from_metadata: first the graph, then the fingerprint.
Resolve(w) ==
  /\ wrapper[w].pc = "metadata"
  /\ wrapper' = [wrapper EXCEPT ![w].pc = "print", ![w].plan = Resolved(NoSession)]
  /\ UNCHANGED <<manifests, file, lock, session, spawns, kept>>

ResolveFails_Saved(w) ==
  /\ wrapper[w].pc = "metadata"
  /\ wrapper' = [wrapper EXCEPT ![w].pc = "save", ![w].plan = NoPlan]
  /\ UNCHANGED <<manifests, file, lock, session, spawns, kept>>
ResolveFails(w) ==
  /\ wrapper[w].pc = "metadata"
  /\ wrapper' = [wrapper EXCEPT ![w].pc = "used", ![w].plan = NoPlan]
  /\ UNCHANGED <<manifests, file, lock, session, spawns, kept>>

ComputeFingerprint(w) ==
  /\ wrapper[w].pc = "print"
  /\ wrapper' = [wrapper EXCEPT ![w].pc = "save", ![w].plan.print = manifests]
  /\ UNCHANGED <<manifests, file, lock, session, spawns, kept>>

\* save_to_file by rename; whoever the file belonged to, it is replaced.
Save(w) ==
  /\ wrapper[w].pc = "save"
  /\ file' = [file EXCEPT ![Place(w)] = wrapper[w].plan]
  /\ kept' = IF Place(w) = "target" THEN {} ELSE kept
  /\ wrapper' = [wrapper EXCEPT ![w].pc = "used"]
  /\ UNCHANGED <<manifests, lock, session, spawns>>

SaveInPlace(w) ==
  /\ wrapper[w].pc = "save"
  /\ file' = [file EXCEPT ![Place(w)] = Torn]
  /\ kept' = IF Place(w) = "target" THEN {} ELSE kept
  /\ wrapper' = [wrapper EXCEPT ![w].pc = "saving"]
  /\ UNCHANGED <<manifests, lock, session, spawns>>

SavedInPlace(w) ==
  /\ wrapper[w].pc = "saving"
  /\ file' = [file EXCEPT ![Place(w)] = wrapper[w].plan]
  /\ kept' = IF Place(w) = "target" THEN {} ELSE kept
  /\ wrapper' = [wrapper EXCEPT ![w].pc = "used"]
  /\ UNCHANGED <<manifests, lock, session, spawns>>

SaveFails(w) ==
  /\ wrapper[w].pc \in {"save", "saving"}
  /\ wrapper' = [wrapper EXCEPT ![w].pc = "used"]
  /\ UNCHANGED <<manifests, file, lock, session, spawns, kept>>

\* The unit is compiled, or the wrapper is killed.
Exit(w) ==
  /\ wrapper[w].pc # "free"
  /\ wrapper' = [wrapper EXCEPT ![w] = Free]
  /\ UNCHANGED <<manifests, file, lock, session, spawns, kept>>

-----------------------------------------------------------------------------
Init ==
  /\ manifests = 1
  /\ file = [p \in Places |-> Missing]
  /\ lock = NoSession
  /\ session = [s \in Sessions |-> NewSession]
  /\ wrapper = [w \in Wrappers |-> Free]
  /\ spawns = 0
  /\ kept = {}

SessionStep(s) ==
  \/ \E public \in BOOLEAN : StartCli(s, public)
  \/ StartRaw(s)
  \/ CliResolves(s) \/ CliResolveFails(s) \/ CliPrints(s) \/ CliCaptures(s)
  \/ CliSaves(s) \/ CliSaveFails(s) \/ CliSavesInPlace(s) \/ CliSavedInPlace(s)
  \/ StartBuild(s)
  \/ \E w \in Wrappers : Spawn(s, w)
  \/ EndBuild(s)
  \/ Kill(s)

WrapperStep(w) ==
  \/ LoadFails(w) \/ Load(w) \/ Check(w)
  \/ Resolve(w) \/ ResolveFails(w) \/ ComputeFingerprint(w)
  \/ Save(w) \/ SaveInPlace(w) \/ SavedInPlace(w) \/ SaveFails(w)
  \/ Exit(w)

Next ==
  \/ Edit
  \/ \E s \in Sessions : SessionStep(s)
  \/ \E w \in Wrappers : WrapperStep(w)

Spec == Init /\ [][Next]_vars

-----------------------------------------------------------------------------
(* Properties *)

\* Every variable has the values the code can give it, and a running wrapper
\* belongs to a session.
TypeOK ==
  /\ manifests \in Nat \ {0}
  /\ file \in [Places -> Plans \cup {Missing, Torn}]
  /\ lock \in Sessions \cup {NoSession}
  /\ session \in [Sessions -> SessionRecords]
  /\ wrapper \in [Wrappers -> WrapperRecords]
  /\ spawns \in Nat
  /\ kept \in SUBSET Sessions
  /\ \A s \in Sessions :
       session[s].pc \in {"print", "prepass", "save", "saving"} => session[s].plan # NoPlan
  /\ \A w \in Wrappers :
       /\ wrapper[w].pc # "free" => wrapper[w].session # NoSession
       /\ wrapper[w].pc \in {"check", "print", "save", "saving"} => wrapper[w].plan # NoPlan

\* The plan was resolved from and fingerprinted over the same manifests; an edit
\* between the two leaves a plan that later looks fresh and is not.
Whole(plan) == plan.graph = plan.print

\* Under the dependency policy, and without the CLI, a wrapper acts on a graph
\* that was current at some time after it started, or after its session started
\* if the plan is the session's: whoever wrote the file, whatever half-written or
\* older plan other sessions and outliving wrappers left in it.
PlanIsCurrent ==
  \A w \in Wrappers :
    LET plan == wrapper[w].plan
        s == wrapper[w].session IN
    (wrapper[w].pc = "used" /\ plan # NoPlan) =>
      IF plan.id = s
      THEN plan.graph >= session[s].since
      ELSE (Whole(plan) /\ (session[s].public \/ ~session[s].exported))
             => plan.graph >= wrapper[w].since

\* As long as nobody else writes the file, all wrappers of a session act on the
\* plan its CLI made, without a query of their own, even if manifests are edited
\* while the build runs (ADR-008: one metadata query per build).
OwnPlanWhileKept ==
  \A w \in Wrappers :
    LET s == wrapper[w].session IN
    (wrapper[w].pc \notin {"free", "load"} /\ s \in kept)
      => wrapper[w].pc = "used" /\ wrapper[w].plan # NoPlan /\ wrapper[w].plan.id = s
=============================================================================
