-------------------------- MODULE SessionCacheProofs --------------------------
(***************************************************************************)
(* Theorems about SessionCache, for any number of sessions, wrappers and   *)
(* edits.                                                                  *)
(***************************************************************************)
EXTENDS SessionCache, TLAPS

USE SessionAssumption, NullAssumption DEF SessionAssumption, NullAssumption

-----------------------------------------------------------------------------
(* Type correctness *)

\* A session that acts is one of Sessions, a wrapper one of Wrappers; the plans a
\* step makes are plans.
LEMMA PlansAreMade ==
  ASSUME TypeOK
  PROVE  /\ \A id \in Sessions \cup {NoSession} : Resolved(id) \in Plans
         /\ \A plan \in Plans :
              /\ [plan EXCEPT !.print = manifests] \in Plans
              /\ [plan EXCEPT !.artifacts = manifests] \in Plans
  BY DEF TypeOK, Plans, Resolved

\* The type of one session, and of one wrapper.
SessionOK(r) ==
  /\ r \in SessionRecords
  /\ r.pc \in {"print", "prepass", "save", "saving"} => r.plan # NoPlan
WrapperOK(r) ==
  /\ r \in WrapperRecords
  /\ r.pc # "free" => r.session # NoSession
  /\ r.pc \in {"check", "print", "save", "saving"} => r.plan # NoPlan

SharedOK ==
  /\ manifests \in Nat \ {0}
  /\ file \in [Places -> Plans \cup {Missing, Torn}]
  /\ lock \in Sessions \cup {NoSession}
  /\ spawns \in Nat
  /\ kept \in SUBSET Sessions

\* TypeOK, one process at a time.
LEMMA TypeByProcess ==
  TypeOK <=> /\ SharedOK
             /\ session = [s \in Sessions |-> session[s]]
             /\ \A s \in Sessions : SessionOK(session[s])
             /\ wrapper = [w \in Wrappers |-> wrapper[w]]
             /\ \A w \in Wrappers : WrapperOK(wrapper[w])
  BY DEF TypeOK, SharedOK, SessionOK, WrapperOK

\* A step of a session changes one record of session, and what is shared.
LEMMA SessionReplaced ==
  ASSUME TypeOK, SharedOK', NEW s \in Sessions, NEW r, SessionOK(r),
         session' = [session EXCEPT ![s] = r], UNCHANGED wrapper
  PROVE  TypeOK'
<1>1. /\ session' = [t \in Sessions |-> session'[t]]
      /\ \A t \in Sessions : SessionOK(session'[t])
  BY DEF TypeOK, SessionOK
<1>2. /\ wrapper' = [w \in Wrappers |-> wrapper'[w]]
      /\ \A w \in Wrappers : WrapperOK(wrapper'[w])
  BY TypeByProcess
<1> QED
  BY <1>1, <1>2 DEF TypeOK, SharedOK, SessionOK, WrapperOK

LEMMA WrapperReplaced ==
  ASSUME TypeOK, SharedOK', NEW w \in Wrappers, NEW r, WrapperOK(r),
         wrapper' = [wrapper EXCEPT ![w] = r], UNCHANGED session
  PROVE  TypeOK'
<1>1. /\ wrapper' = [t \in Wrappers |-> wrapper'[t]]
      /\ \A t \in Wrappers : WrapperOK(wrapper'[t])
  BY DEF TypeOK, WrapperOK
<1>2. /\ session' = [s \in Sessions |-> session'[s]]
      /\ \A s \in Sessions : SessionOK(session'[s])
  BY TypeByProcess
<1> QED
  BY <1>1, <1>2 DEF TypeOK, SharedOK, SessionOK, WrapperOK

LEMMA SessionsKeepType ==
  ASSUME TypeOK, NEW s \in Sessions, SessionStep(s)
  PROVE  TypeOK'
<1> USE PlansAreMade
<1>1. ASSUME NEW public \in BOOLEAN, StartCli(s, public) PROVE TypeOK'
  <2> DEFINE r == [NewSession EXCEPT !.pc = "metadata", !.public = public, !.since = manifests]
  <2>1. SessionOK(r)
    BY <1>1 DEF StartCli, TypeOK, SessionOK, SessionRecords, SessionStates, NewSession
  <2>2. session' = [session EXCEPT ![s] = r] /\ UNCHANGED wrapper
    BY <1>1 DEF StartCli, TypeOK, SessionRecords
  <2>3. SharedOK'
    BY <1>1 DEF StartCli, TypeOK, SharedOK
  <2> QED
    BY <2>1, <2>2, <2>3, SessionReplaced
<1>2. CASE StartRaw(s)
  <2> DEFINE r == [NewSession EXCEPT !.pc = "ready", !.since = manifests]
  <2>1. SessionOK(r)
    BY <1>2 DEF StartRaw, TypeOK, SessionOK, SessionRecords, SessionStates, NewSession
  <2>2. session' = [session EXCEPT ![s] = r] /\ UNCHANGED wrapper
    BY <1>2 DEF StartRaw, TypeOK, SessionRecords
  <2>3. SharedOK'
    BY <1>2 DEF StartRaw, TypeOK, SharedOK
  <2> QED
    BY <2>1, <2>2, <2>3, SessionReplaced
<1>3. CASE CliResolves(s)
  <2> DEFINE r == [session[s] EXCEPT !.pc = "print", !.plan = Resolved(s)]
  <2>p. Resolved(s) \in Plans
    BY <1>3, PlansAreMade DEF CliResolves, TypeOK, SessionRecords, SessionStates
  <2>q. \A q \in Plans : SessionOK([session[s] EXCEPT !.pc = "print", !.plan = q])
    BY <1>3 DEF CliResolves, TypeOK, SessionOK, SessionRecords, SessionStates
  <2>1. SessionOK(r)
    BY <2>p, <2>q
  <2>2. session' = [session EXCEPT ![s] = r] /\ UNCHANGED wrapper
    BY <1>3 DEF CliResolves, TypeOK, SessionRecords
  <2>3. SharedOK'
    BY <1>3 DEF CliResolves, TypeOK, SharedOK
  <2> QED
    BY <2>1, <2>2, <2>3, SessionReplaced
<1>4. CASE CliResolveFails(s)
  <2> DEFINE r == [session[s] EXCEPT !.pc = "ready"]
  <2>1. SessionOK(r)
    BY <1>4 DEF CliResolveFails, TypeOK, SessionOK, SessionRecords, SessionStates
  <2>2. session' = [session EXCEPT ![s] = r] /\ UNCHANGED wrapper
    BY <1>4 DEF CliResolveFails, TypeOK, SessionRecords
  <2>3. SharedOK'
    BY <1>4 DEF CliResolveFails, TypeOK, SharedOK
  <2> QED
    BY <2>1, <2>2, <2>3, SessionReplaced
<1>5. CASE CliPrints(s)
  <2> DEFINE r == [session[s] EXCEPT !.pc = "prepass", !.plan = [session[s].plan EXCEPT !.print = manifests]]
  <2>p. [session[s].plan EXCEPT !.print = manifests] \in Plans
    BY <1>5, PlansAreMade DEF CliPrints, TypeOK, SessionRecords, SessionStates
  <2>q. \A q \in Plans : SessionOK([session[s] EXCEPT !.pc = "prepass", !.plan = q])
    BY <1>5 DEF CliPrints, TypeOK, SessionOK, SessionRecords, SessionStates
  <2>1. SessionOK(r)
    BY <2>p, <2>q
  <2>2. session' = [session EXCEPT ![s] = r] /\ UNCHANGED wrapper
    BY <1>5 DEF CliPrints, TypeOK, SessionRecords
  <2>3. SharedOK'
    BY <1>5 DEF CliPrints, TypeOK, SharedOK
  <2> QED
    BY <2>1, <2>2, <2>3, SessionReplaced
<1>6. CASE CliCaptures(s)
  <2>p. /\ session[s].plan \in Plans
        /\ [session[s].plan EXCEPT !.artifacts = manifests] \in Plans
    BY <1>6, PlansAreMade DEF CliCaptures, TypeOK, SessionRecords
  <2>1. PICK plan \in Plans :
          session' = [session EXCEPT ![s] = [session[s] EXCEPT !.pc = "save", !.plan = plan]]
    <3>1. CASE session' = [session EXCEPT ![s].pc = "save", ![s].plan.artifacts = manifests]
      BY <3>1, <2>p
    <3>2. CASE session' = [session EXCEPT ![s].pc = "save"]
      <4>1. [session[s] EXCEPT !.pc = "save"]
              = [session[s] EXCEPT !.pc = "save", !.plan = session[s].plan]
        BY DEF TypeOK, SessionRecords
      <4> QED
        BY <3>2, <4>1, <2>p
    <3> QED
      BY <1>6, <3>1, <3>2 DEF CliCaptures
  <2> DEFINE r == [session[s] EXCEPT !.pc = "save", !.plan = plan]
  <2>2. SessionOK(r)
    BY <1>6 DEF CliCaptures, TypeOK, SessionOK, SessionRecords, SessionStates
  <2>3. SharedOK' /\ UNCHANGED wrapper
    BY <1>6 DEF CliCaptures, TypeOK, SharedOK
  <2> QED
    BY <2>1, <2>2, <2>3, SessionReplaced
<1>7. CASE CliSaves(s)
  <2> DEFINE r == [session[s] EXCEPT !.pc = "ready", !.exported = TRUE]
  <2>1. SessionOK(r)
    BY <1>7 DEF CliSaves, TypeOK, SessionOK, SessionRecords, SessionStates
  <2>2. session' = [session EXCEPT ![s] = r] /\ UNCHANGED wrapper
    BY <1>7 DEF CliSaves, TypeOK, SessionRecords
  <2>3. SharedOK'
    BY <1>7 DEF CliSaves, TypeOK, SharedOK, SessionRecords, Places
  <2> QED
    BY <2>1, <2>2, <2>3, SessionReplaced
<1>8. CASE CliSaveFails(s)
  <2> DEFINE r == [session[s] EXCEPT !.pc = "ready", !.exported = TRUE]
  <2>1. SessionOK(r)
    BY <1>8 DEF CliSaveFails, TypeOK, SessionOK, SessionRecords, SessionStates
  <2>2. session' = [session EXCEPT ![s] = r] /\ UNCHANGED wrapper
    BY <1>8 DEF CliSaveFails, TypeOK, SessionRecords
  <2>3. SharedOK'
    BY <1>8 DEF CliSaveFails, TypeOK, SharedOK
  <2> QED
    BY <2>1, <2>2, <2>3, SessionReplaced
<1>9. CASE CliSavesInPlace(s)
  <2> DEFINE r == [session[s] EXCEPT !.pc = "saving"]
  <2>1. SessionOK(r)
    BY <1>9 DEF CliSavesInPlace, TypeOK, SessionOK, SessionRecords, SessionStates
  <2>2. session' = [session EXCEPT ![s] = r] /\ UNCHANGED wrapper
    BY <1>9 DEF CliSavesInPlace, TypeOK, SessionRecords
  <2>3. SharedOK'
    BY <1>9 DEF CliSavesInPlace, TypeOK, SharedOK, SessionRecords, Places
  <2> QED
    BY <2>1, <2>2, <2>3, SessionReplaced
<1>10. CASE CliSavedInPlace(s)
  <2> DEFINE r == [session[s] EXCEPT !.pc = "ready", !.exported = TRUE]
  <2>1. SessionOK(r)
    BY <1>10 DEF CliSavedInPlace, TypeOK, SessionOK, SessionRecords, SessionStates
  <2>2. session' = [session EXCEPT ![s] = r] /\ UNCHANGED wrapper
    BY <1>10 DEF CliSavedInPlace, TypeOK, SessionRecords
  <2>3. SharedOK'
    BY <1>10 DEF CliSavedInPlace, TypeOK, SharedOK, SessionRecords, Places
  <2> QED
    BY <2>1, <2>2, <2>3, SessionReplaced
<1>11. CASE StartBuild(s)
  <2> DEFINE r == [session[s] EXCEPT !.pc = "build"]
  <2>1. SessionOK(r)
    BY <1>11 DEF StartBuild, TypeOK, SessionOK, SessionRecords, SessionStates
  <2>2. session' = [session EXCEPT ![s] = r] /\ UNCHANGED wrapper
    BY <1>11 DEF StartBuild, TypeOK, SessionRecords
  <2>3. SharedOK'
    BY <1>11 DEF StartBuild, TypeOK, SharedOK
  <2> QED
    BY <2>1, <2>2, <2>3, SessionReplaced
<1>12. ASSUME NEW w \in Wrappers, Spawn(s, w) PROVE TypeOK'
  <2> DEFINE r == [Free EXCEPT !.pc = "load", !.session = s, !.since = manifests]
  <2>1. WrapperOK(r)
    BY DEF TypeOK, WrapperOK, WrapperRecords, WrapperStates, Free
  <2>2. SharedOK' /\ wrapper' = [wrapper EXCEPT ![w] = r] /\ UNCHANGED session
    BY <1>12 DEF Spawn, TypeOK, SharedOK
  <2> QED
    BY <2>1, <2>2, WrapperReplaced
<1>13. CASE EndBuild(s)
  <2> DEFINE r == [session[s] EXCEPT !.pc = "over"]
  <2>1. SessionOK(r)
    BY <1>13 DEF EndBuild, TypeOK, SessionOK, SessionRecords, SessionStates
  <2>2. session' = [session EXCEPT ![s] = r] /\ UNCHANGED wrapper
    BY <1>13 DEF EndBuild, TypeOK, SessionRecords
  <2>3. SharedOK'
    BY <1>13 DEF EndBuild, TypeOK, SharedOK
  <2> QED
    BY <2>1, <2>2, <2>3, SessionReplaced
<1>14. CASE Kill(s)
  <2> DEFINE r == [session[s] EXCEPT !.pc = "over"]
  <2>1. SessionOK(r)
    BY <1>14 DEF Kill, TypeOK, SessionOK, SessionRecords, SessionStates
  <2>2. session' = [session EXCEPT ![s] = r] /\ UNCHANGED wrapper
    BY <1>14 DEF Kill, TypeOK, SessionRecords
  <2>3. SharedOK'
    BY <1>14 DEF Kill, TypeOK, SharedOK
  <2> QED
    BY <2>1, <2>2, <2>3, SessionReplaced
<1> QED
  BY <1>1, <1>2, <1>3, <1>4, <1>5, <1>6, <1>7, <1>8, <1>9, <1>10, <1>11, <1>12, <1>13,
     <1>14 DEF SessionStep

LEMMA WrappersKeepType ==
  ASSUME TypeOK, NEW w \in Wrappers, WrapperStep(w)
  PROVE  TypeOK'
<1> USE PlansAreMade
<1>p. Place(w) \in Places
  BY DEF Place, Places
<1>1. CASE LoadFails(w)
  <2> DEFINE r == [wrapper[w] EXCEPT !.pc = "metadata"]
  <2>1. WrapperOK(r)
    BY <1>1 DEF LoadFails, TypeOK, WrapperOK, WrapperRecords, WrapperStates
  <2>2. wrapper' = [wrapper EXCEPT ![w] = r] /\ UNCHANGED session
    BY <1>1 DEF LoadFails, TypeOK, WrapperRecords
  <2>3. SharedOK'
    BY <1>1, <1>p DEF LoadFails, TypeOK, SharedOK
  <2> QED
    BY <2>1, <2>2, <2>3, WrapperReplaced
<1>2. CASE Load(w)
  <2> DEFINE r == [wrapper[w] EXCEPT
                        !.plan = file[Place(w)],
                        !.pc = IF Trusted(w, file[Place(w)]) THEN "used" ELSE "check"]
  <2>1. WrapperOK(r)
    BY <1>2, <1>p DEF Load, TypeOK, WrapperOK, WrapperRecords, WrapperStates
  <2>2. wrapper' = [wrapper EXCEPT ![w] = r] /\ UNCHANGED session
    BY <1>2 DEF Load, TypeOK, WrapperRecords
  <2>3. SharedOK'
    BY <1>2, <1>p DEF Load, TypeOK, SharedOK
  <2> QED
    BY <2>1, <2>2, <2>3, WrapperReplaced
<1>3. CASE Check(w)
  <2> DEFINE r == [wrapper[w] EXCEPT
                        !.pc = IF IsFresh(wrapper[w].plan) THEN "used" ELSE "metadata"]
  <2>1. WrapperOK(r)
    BY <1>3 DEF Check, TypeOK, WrapperOK, WrapperRecords, WrapperStates
  <2>2. wrapper' = [wrapper EXCEPT ![w] = r] /\ UNCHANGED session
    BY <1>3 DEF Check, TypeOK, WrapperRecords
  <2>3. SharedOK'
    BY <1>3, <1>p DEF Check, TypeOK, SharedOK
  <2> QED
    BY <2>1, <2>2, <2>3, WrapperReplaced
<1>4. CASE Resolve(w)
  <2> DEFINE r == [wrapper[w] EXCEPT !.pc = "print", !.plan = Resolved(NoSession)]
  <2>p. Resolved(NoSession) \in Plans
    BY <1>4, PlansAreMade DEF Resolve, TypeOK, WrapperRecords, WrapperStates
  <2>q. \A q \in Plans : WrapperOK([wrapper[w] EXCEPT !.pc = "print", !.plan = q])
    BY <1>4 DEF Resolve, TypeOK, WrapperOK, WrapperRecords, WrapperStates
  <2>1. WrapperOK(r)
    BY <2>p, <2>q
  <2>2. wrapper' = [wrapper EXCEPT ![w] = r] /\ UNCHANGED session
    BY <1>4 DEF Resolve, TypeOK, WrapperRecords
  <2>3. SharedOK'
    BY <1>4, <1>p DEF Resolve, TypeOK, SharedOK
  <2> QED
    BY <2>1, <2>2, <2>3, WrapperReplaced
<1>5. CASE ResolveFails(w)
  <2> DEFINE r == [wrapper[w] EXCEPT !.pc = "used", !.plan = NoPlan]
  <2>1. WrapperOK(r)
    BY <1>5 DEF ResolveFails, TypeOK, WrapperOK, WrapperRecords, WrapperStates
  <2>2. wrapper' = [wrapper EXCEPT ![w] = r] /\ UNCHANGED session
    BY <1>5 DEF ResolveFails, TypeOK, WrapperRecords
  <2>3. SharedOK'
    BY <1>5, <1>p DEF ResolveFails, TypeOK, SharedOK
  <2> QED
    BY <2>1, <2>2, <2>3, WrapperReplaced
<1>6. CASE ComputeFingerprint(w)
  <2> DEFINE r == [wrapper[w] EXCEPT
                        !.pc = "save", !.plan = [wrapper[w].plan EXCEPT !.print = manifests]]
  <2>p. [wrapper[w].plan EXCEPT !.print = manifests] \in Plans
    BY <1>6, PlansAreMade DEF ComputeFingerprint, TypeOK, WrapperRecords, WrapperStates
  <2>q. \A q \in Plans : WrapperOK([wrapper[w] EXCEPT !.pc = "save", !.plan = q])
    BY <1>6 DEF ComputeFingerprint, TypeOK, WrapperOK, WrapperRecords, WrapperStates
  <2>1. WrapperOK(r)
    BY <2>p, <2>q
  <2>2. wrapper' = [wrapper EXCEPT ![w] = r] /\ UNCHANGED session
    BY <1>6 DEF ComputeFingerprint, TypeOK, WrapperRecords
  <2>3. SharedOK'
    BY <1>6, <1>p DEF ComputeFingerprint, TypeOK, SharedOK
  <2> QED
    BY <2>1, <2>2, <2>3, WrapperReplaced
<1>7. CASE Save(w)
  <2> DEFINE r == [wrapper[w] EXCEPT !.pc = "used"]
  <2>1. WrapperOK(r)
    BY <1>7 DEF Save, TypeOK, WrapperOK, WrapperRecords, WrapperStates
  <2>2. wrapper' = [wrapper EXCEPT ![w] = r] /\ UNCHANGED session
    BY <1>7 DEF Save, TypeOK, WrapperRecords
  <2>3. SharedOK'
    BY <1>7, <1>p DEF Save, TypeOK, SharedOK, WrapperRecords
  <2> QED
    BY <2>1, <2>2, <2>3, WrapperReplaced
<1>8. CASE SaveInPlace(w)
  <2> DEFINE r == [wrapper[w] EXCEPT !.pc = "saving"]
  <2>1. WrapperOK(r)
    BY <1>8 DEF SaveInPlace, TypeOK, WrapperOK, WrapperRecords, WrapperStates
  <2>2. wrapper' = [wrapper EXCEPT ![w] = r] /\ UNCHANGED session
    BY <1>8 DEF SaveInPlace, TypeOK, WrapperRecords
  <2>3. SharedOK'
    BY <1>8, <1>p DEF SaveInPlace, TypeOK, SharedOK, WrapperRecords
  <2> QED
    BY <2>1, <2>2, <2>3, WrapperReplaced
<1>9. CASE SavedInPlace(w)
  <2> DEFINE r == [wrapper[w] EXCEPT !.pc = "used"]
  <2>1. WrapperOK(r)
    BY <1>9 DEF SavedInPlace, TypeOK, WrapperOK, WrapperRecords, WrapperStates
  <2>2. wrapper' = [wrapper EXCEPT ![w] = r] /\ UNCHANGED session
    BY <1>9 DEF SavedInPlace, TypeOK, WrapperRecords
  <2>3. SharedOK'
    BY <1>9, <1>p DEF SavedInPlace, TypeOK, SharedOK, WrapperRecords
  <2> QED
    BY <2>1, <2>2, <2>3, WrapperReplaced
<1>10. CASE SaveFails(w)
  <2> DEFINE r == [wrapper[w] EXCEPT !.pc = "used"]
  <2>1. WrapperOK(r)
    BY <1>10 DEF SaveFails, TypeOK, WrapperOK, WrapperRecords, WrapperStates
  <2>2. wrapper' = [wrapper EXCEPT ![w] = r] /\ UNCHANGED session
    BY <1>10 DEF SaveFails, TypeOK, WrapperRecords
  <2>3. SharedOK'
    BY <1>10, <1>p DEF SaveFails, TypeOK, SharedOK
  <2> QED
    BY <2>1, <2>2, <2>3, WrapperReplaced
<1>11. CASE Exit(w)
  <2> DEFINE r == Free
  <2>1. WrapperOK(r)
    BY <1>11 DEF Exit, TypeOK, WrapperOK, WrapperRecords, WrapperStates, Free
  <2>2. wrapper' = [wrapper EXCEPT ![w] = r] /\ UNCHANGED session
    BY <1>11 DEF Exit, TypeOK, WrapperRecords
  <2>3. SharedOK'
    BY <1>11, <1>p DEF Exit, TypeOK, SharedOK
  <2> QED
    BY <2>1, <2>2, <2>3, WrapperReplaced
<1> QED
  BY <1>1, <1>2, <1>3, <1>4, <1>5, <1>6, <1>7, <1>8, <1>9, <1>10, <1>11 DEF WrapperStep

LEMMA StepsKeepType == TypeOK /\ [Next]_vars => TypeOK'
<1> SUFFICES ASSUME TypeOK, [Next]_vars PROVE TypeOK'
  OBVIOUS
<1>1. CASE Edit
  BY <1>1 DEF Edit, TypeOK
<1>2. ASSUME NEW s \in Sessions, SessionStep(s) PROVE TypeOK'
  BY <1>2, SessionsKeepType
<1>3. ASSUME NEW w \in Wrappers, WrapperStep(w) PROVE TypeOK'
  BY <1>3, WrappersKeepType
<1>4. CASE UNCHANGED vars
  BY <1>4 DEF vars, TypeOK
<1> QED
  BY <1>1, <1>2, <1>3, <1>4 DEF Next

\* Every variable has the values the code can give it.
THEOREM SessionTypeOK == Spec => []TypeOK
<1>1. Init => TypeOK
  BY DEF Init, TypeOK, NewSession, Free, SessionRecords, SessionStates, WrapperRecords,
         WrapperStates
<1> QED
  BY <1>1, StepsKeepType, PTL DEF Spec

-----------------------------------------------------------------------------
(* The inductive invariant.  A plan with the id of a session was resolved     *)
(* after the session started; a wrapper's session is building or over, so     *)
(* what the session exports does not change under the wrapper; what a wrapper *)
(* resolves itself is no older than the wrapper; and a kept file names the    *)
(* session that keeps it.  All of it is about one file, session or wrapper at *)
(* a time, and so is the proof.                                               *)

\* A plan that names a session was made by it.
PlanOK(plan) ==
  plan.id \in Sessions =>
    /\ session[plan.id].pc # "new"
    /\ plan.graph >= session[plan.id].since

FilePlanOK(p) == file[p] \in Plans => PlanOK(file[p])
SessionPlanOK(s) ==
  /\ session[s].since <= manifests
  /\ session[s].plan \in Plans => PlanOK(session[s].plan) /\ session[s].plan.id = s
WrapperPlanOK(w) == wrapper[w].plan \in Plans => PlanOK(wrapper[w].plan)

Grounded(w) ==
  wrapper[w].pc # "free" =>
    /\ session[wrapper[w].session].pc \in {"build", "over"}
    /\ wrapper[w].since <= manifests
    /\ wrapper[w].pc \in {"print", "save", "saving"} =>
         /\ wrapper[w].plan.graph >= wrapper[w].since
         /\ wrapper[w].plan.id = NoSession

\* PlanIsCurrent and OwnPlanWhileKept, of one wrapper.
Current(w) ==
  (wrapper[w].pc = "used" /\ wrapper[w].plan # NoPlan) =>
    LET plan == wrapper[w].plan
        s == wrapper[w].session
    IN  IF plan.id = s
        THEN plan.graph >= session[s].since
        ELSE (Whole(plan) /\ (session[s].public \/ ~session[s].exported))
               => plan.graph >= wrapper[w].since
Own(w) ==
  (wrapper[w].pc \notin {"free", "load"} /\ wrapper[w].session \in kept) =>
    /\ wrapper[w].pc = "used"
    /\ wrapper[w].plan # NoPlan
    /\ wrapper[w].plan.id = wrapper[w].session

KeptOK(s) ==
  s \in kept =>
    /\ session[s].exported
    /\ session[s].pc \in {"ready", "build", "over"}
    /\ file["target"] \in Plans
    /\ file["target"].id = s

WrapperInv(w) == WrapperPlanOK(w) /\ Grounded(w) /\ Current(w) /\ Own(w)

IInv ==
  /\ TypeOK
  /\ \A p \in Places : FilePlanOK(p)
  /\ \A s \in Sessions : SessionPlanOK(s) /\ KeptOK(s)
  /\ \A w \in Wrappers : WrapperInv(w)

LEMMA InvariantImplies == IInv => PlanIsCurrent /\ OwnPlanWhileKept
  BY DEF IInv, WrapperInv, Current, Own, PlanIsCurrent, OwnPlanWhileKept

\* What a session does leaves what its plans and its wrappers rely on.
Advances(t) ==
  session[t].pc # "new" =>
    /\ session'[t].pc # "new"
    /\ session'[t].since = session[t].since
    /\ session'[t].public = session[t].public
    /\ session[t].pc \in {"build", "over"} =>
         session'[t].pc \in {"build", "over"} /\ session'[t].exported = session[t].exported

LEMMA PlansStay ==
  ASSUME \A t \in Sessions : Advances(t)
  PROVE  \A plan \in Plans : PlanOK(plan) => PlanOK(plan)'
  BY DEF Advances, PlanOK

\* A wrapper that does nothing while sessions advance, files are written by others
\* and manifests are edited.
LEMMA WrapperStays ==
  ASSUME IInv, NEW w \in Wrappers, wrapper'[w] = wrapper[w], manifests' >= manifests,
         manifests' \in Nat, \A t \in Sessions : Advances(t),
         wrapper[w].pc \notin {"free", "load"} /\ wrapper[w].session \in kept'
           => wrapper[w].session \in kept
  PROVE  WrapperInv(w)'
<1>0. TypeOK /\ WrapperInv(w)
  BY DEF IInv
<1>1. WrapperPlanOK(w)'
  BY <1>0, PlansStay DEF WrapperInv, WrapperPlanOK
<1>2. wrapper[w].pc # "free" =>
        /\ wrapper[w].session \in Sessions
        /\ session[wrapper[w].session].pc \in {"build", "over"}
        /\ Advances(wrapper[w].session)
  BY <1>0 DEF TypeOK, WrapperRecords, WrapperInv, Grounded
<1>3. wrapper[w].since \in Nat /\ manifests \in Nat
  BY <1>0 DEF TypeOK, WrapperRecords
<1>4. Grounded(w)'
  BY <1>0, <1>2, <1>3 DEF WrapperInv, Grounded, Advances
<1>5. Current(w)'
  BY <1>0, <1>2 DEF WrapperInv, Current, Advances
<1>6. Own(w)'
  BY <1>0 DEF WrapperInv, Own
<1> QED
  BY <1>1, <1>4, <1>5, <1>6 DEF WrapperInv

\* The other sessions keep what they have, unless they lose the file.
LEMMA SessionStays ==
  ASSUME IInv, NEW s \in Sessions, session'[s] = session[s], manifests' >= manifests,
         manifests' \in Nat, \A t \in Sessions : Advances(t),
         s \in kept' => s \in kept /\ file'["target"] = file["target"]
  PROVE  (SessionPlanOK(s) /\ KeptOK(s))'
<1>1. SessionPlanOK(s) /\ KeptOK(s) /\ session[s].since \in Nat /\ manifests \in Nat
  BY DEF IInv, TypeOK, SessionRecords
<1>2. SessionPlanOK(s)'
  BY <1>1, PlansStay DEF SessionPlanOK
<1>3. KeptOK(s)'
  BY <1>1 DEF KeptOK
<1> QED
  BY <1>2, <1>3

LEMMA FilesStay ==
  ASSUME IInv, NEW p \in Places, file'[p] = file[p], \A t \in Sessions : Advances(t)
  PROVE  FilePlanOK(p)'
  BY PlansStay DEF IInv, FilePlanOK

-----------------------------------------------------------------------------
(* Sessions *)

\* A step of session s that neither spawns a wrapper nor writes the file.
LEMMA QuietStep ==
  ASSUME IInv, TypeOK', NEW s \in Sessions, UNCHANGED <<manifests, file, wrapper, kept>>,
         \A t \in Sessions \ {s} : session'[t] = session[t],
         Advances(s), (SessionPlanOK(s) /\ KeptOK(s))'
  PROVE  IInv'
<1>1. \A t \in Sessions : Advances(t)
  BY DEF Advances
<1>2. manifests' \in Nat /\ manifests' >= manifests
  BY DEF IInv, TypeOK
<1>3. \A w \in Wrappers : WrapperInv(w)'
  BY <1>1, <1>2, WrapperStays
<1>4. \A t \in Sessions \ {s} : (SessionPlanOK(t) /\ KeptOK(t))'
  BY <1>1, <1>2, SessionStays
<1>5. \A p \in Places : FilePlanOK(p)'
  BY <1>1, FilesStay
<1> QED
  BY <1>3, <1>4, <1>5 DEF IInv

\* A step of session s, before its build, that writes the file and keeps it or not.
LEMMA WritingStep ==
  ASSUME IInv, TypeOK', NEW s \in Sessions, UNCHANGED <<manifests, wrapper>>,
         \A t \in Sessions \ {s} : session'[t] = session[t],
         \A p \in Places \ {"target"} : file'[p] = file[p],
         kept' \in SUBSET {s}, session[s].pc \in {"save", "saving"},
         Advances(s), (SessionPlanOK(s) /\ KeptOK(s))', FilePlanOK("target")'
  PROVE  IInv'
<1>1. \A t \in Sessions : Advances(t)
  BY DEF Advances
<1>2. manifests' \in Nat /\ manifests' >= manifests
  BY DEF IInv, TypeOK
<1>3. ASSUME NEW w \in Wrappers PROVE WrapperInv(w)'
  <2>1. wrapper[w].pc # "free" => wrapper[w].session # s
    BY DEF IInv, WrapperInv, Grounded
  <2> QED
    BY <1>1, <1>2, <2>1, WrapperStays
<1>4. \A t \in Sessions \ {s} : (SessionPlanOK(t) /\ KeptOK(t))'
  BY <1>1, <1>2, SessionStays
<1>5. \A p \in Places \ {"target"} : FilePlanOK(p)'
  BY <1>1, FilesStay
<1> QED
  BY <1>3, <1>4, <1>5 DEF IInv

LEMMA SessionsKeepInvariant ==
  ASSUME IInv, TypeOK', NEW s \in Sessions, SessionStep(s)
  PROVE  IInv'
<1>0. /\ session \in [Sessions -> SessionRecords]
      /\ SessionPlanOK(s) /\ KeptOK(s) /\ manifests \in Nat
      /\ NewSession.plan = NoPlan
  BY DEF IInv, TypeOK, NewSession
<1>1. ASSUME NEW public \in BOOLEAN, StartCli(s, public) PROVE IInv'
  <2>1. /\ UNCHANGED <<manifests, file, wrapper, kept>>
        /\ \A t \in Sessions \ {s} : session'[t] = session[t]
        /\ session'[s].pc = "metadata"
        /\ session'[s].since = manifests
        /\ session'[s].plan = NoPlan
    BY <1>1, <1>0 DEF StartCli, SessionRecords, NewSession
  <2>2. Advances(s)
    BY <1>1, <2>1 DEF StartCli, Advances
  <2>3. SessionPlanOK(s)'
    BY <1>1, <1>0, <2>1, <2>2 DEF StartCli, SessionPlanOK, PlanOK, Advances
  <2>4. KeptOK(s)'
    BY <1>1, <1>0, <2>1 DEF StartCli, KeptOK
  <2> QED
    BY <2>1, <2>2, <2>3, <2>4, QuietStep
<1>2. CASE StartRaw(s)
  <2>1. /\ UNCHANGED <<manifests, file, wrapper, kept>>
        /\ \A t \in Sessions \ {s} : session'[t] = session[t]
        /\ session'[s].pc = "ready"
        /\ session'[s].since = manifests
        /\ session'[s].plan = NoPlan
    BY <1>2, <1>0 DEF StartRaw, SessionRecords, NewSession
  <2>2. Advances(s)
    BY <1>2, <2>1 DEF StartRaw, Advances
  <2>3. SessionPlanOK(s)'
    BY <1>2, <1>0, <2>1, <2>2 DEF StartRaw, SessionPlanOK, PlanOK, Advances
  <2>4. KeptOK(s)'
    BY <1>2, <1>0, <2>1 DEF StartRaw, KeptOK
  <2> QED
    BY <2>1, <2>2, <2>3, <2>4, QuietStep
<1>3. CASE CliResolves(s)
  <2>1. /\ UNCHANGED <<manifests, file, wrapper, kept>>
        /\ \A t \in Sessions \ {s} : session'[t] = session[t]
        /\ session'[s].pc = "print"
        /\ session'[s].since = session[s].since
        /\ session'[s].public = session[s].public
        /\ session'[s].exported = session[s].exported
        /\ session'[s].plan = Resolved(s)
    BY <1>3, <1>0 DEF CliResolves, SessionRecords
  <2>2. Advances(s)
    BY <1>3, <2>1 DEF CliResolves, Advances
  <2>3. SessionPlanOK(s)'
    BY <1>3, <1>0, <2>1, <2>2 DEF CliResolves, SessionPlanOK, PlanOK, Advances, Resolved
  <2>4. KeptOK(s)'
    BY <1>3, <1>0, <2>1 DEF CliResolves, KeptOK
  <2> QED
    BY <2>1, <2>2, <2>3, <2>4, QuietStep
<1>4. CASE CliResolveFails(s)
  <2>1. /\ UNCHANGED <<manifests, file, wrapper, kept>>
        /\ \A t \in Sessions \ {s} : session'[t] = session[t]
        /\ session'[s].pc = "ready"
        /\ session'[s].since = session[s].since
        /\ session'[s].public = session[s].public
        /\ session'[s].exported = session[s].exported
        /\ session'[s].plan = session[s].plan
    BY <1>4, <1>0 DEF CliResolveFails, SessionRecords
  <2>2. Advances(s)
    BY <1>4, <2>1 DEF CliResolveFails, Advances
  <2>3. SessionPlanOK(s)'
    BY <1>4, <1>0, <2>1, <2>2 DEF CliResolveFails, SessionPlanOK, PlanOK, Advances
  <2>4. KeptOK(s)'
    BY <1>4, <1>0, <2>1 DEF CliResolveFails, KeptOK
  <2> QED
    BY <2>1, <2>2, <2>3, <2>4, QuietStep
<1>5. CASE CliPrints(s)
  <2>1. /\ UNCHANGED <<manifests, file, wrapper, kept>>
        /\ \A t \in Sessions \ {s} : session'[t] = session[t]
        /\ session'[s].pc = "prepass"
        /\ session'[s].since = session[s].since
        /\ session'[s].public = session[s].public
        /\ session'[s].exported = session[s].exported
        /\ session'[s].plan = [session[s].plan EXCEPT !.print = manifests]
    BY <1>5, <1>0 DEF CliPrints, SessionRecords
  <2>2. Advances(s)
    BY <1>5, <2>1 DEF CliPrints, Advances
  <2>3. SessionPlanOK(s)'
    <3>1. /\ session[s].plan \in Plans
          /\ [session[s].plan EXCEPT !.print = manifests].id = session[s].plan.id
          /\ [session[s].plan EXCEPT !.print = manifests].graph = session[s].plan.graph
      BY <1>5 DEF CliPrints, IInv, TypeOK, SessionRecords, Plans
    <3> QED
      BY <1>0, <2>1, <2>2, <3>1 DEF SessionPlanOK, PlanOK, Advances
  <2>4. KeptOK(s)'
    BY <1>5, <1>0, <2>1 DEF CliPrints, KeptOK
  <2> QED
    BY <2>1, <2>2, <2>3, <2>4, QuietStep
<1>6. CASE CliCaptures(s)
  <2>1. /\ UNCHANGED <<manifests, file, wrapper, kept>>
        /\ \A t \in Sessions \ {s} : session'[t] = session[t]
        /\ session'[s].pc = "save"
        /\ session'[s].since = session[s].since
        /\ session'[s].public = session[s].public
        /\ session'[s].exported = session[s].exported
        /\ session'[s].plan \in {session[s].plan, [session[s].plan EXCEPT !.artifacts = manifests]}
    BY <1>6, <1>0 DEF CliCaptures, SessionRecords
  <2>2. Advances(s)
    BY <1>6, <2>1 DEF CliCaptures, Advances
  <2>3. SessionPlanOK(s)'
    <3>1. /\ session[s].plan \in Plans
          /\ [session[s].plan EXCEPT !.artifacts = manifests].id = session[s].plan.id
          /\ [session[s].plan EXCEPT !.artifacts = manifests].graph = session[s].plan.graph
      BY <1>6 DEF CliCaptures, IInv, TypeOK, SessionRecords, Plans
    <3> QED
      BY <1>0, <2>1, <2>2, <3>1 DEF SessionPlanOK, PlanOK, Advances
  <2>4. KeptOK(s)'
    BY <1>6, <1>0, <2>1 DEF CliCaptures, KeptOK
  <2> QED
    BY <2>1, <2>2, <2>3, <2>4, QuietStep
<1>8. CASE CliSaveFails(s)
  <2>1. /\ UNCHANGED <<manifests, file, wrapper, kept>>
        /\ \A t \in Sessions \ {s} : session'[t] = session[t]
        /\ session'[s].pc = "ready"
        /\ session'[s].since = session[s].since
        /\ session'[s].public = session[s].public
        /\ session'[s].plan = session[s].plan
        /\ session'[s].exported = TRUE
    BY <1>8, <1>0 DEF CliSaveFails, SessionRecords
  <2>2. Advances(s)
    BY <1>8, <2>1 DEF CliSaveFails, Advances
  <2>3. SessionPlanOK(s)'
    BY <1>8, <1>0, <2>1, <2>2 DEF CliSaveFails, SessionPlanOK, PlanOK, Advances
  <2>4. KeptOK(s)'
    BY <1>8, <1>0, <2>1 DEF CliSaveFails, KeptOK
  <2> QED
    BY <2>1, <2>2, <2>3, <2>4, QuietStep
<1>11. CASE StartBuild(s)
  <2>1. /\ UNCHANGED <<manifests, file, wrapper, kept>>
        /\ \A t \in Sessions \ {s} : session'[t] = session[t]
        /\ session'[s].pc = "build"
        /\ session'[s].since = session[s].since
        /\ session'[s].public = session[s].public
        /\ session'[s].exported = session[s].exported
        /\ session'[s].plan = session[s].plan
    BY <1>11, <1>0 DEF StartBuild, SessionRecords
  <2>2. Advances(s)
    BY <1>11, <2>1 DEF StartBuild, Advances
  <2>3. SessionPlanOK(s)'
    BY <1>11, <1>0, <2>1, <2>2 DEF StartBuild, SessionPlanOK, PlanOK, Advances
  <2>4. KeptOK(s)'
    BY <1>11, <1>0, <2>1 DEF StartBuild, KeptOK
  <2> QED
    BY <2>1, <2>2, <2>3, <2>4, QuietStep
<1>13. CASE EndBuild(s)
  <2>1. /\ UNCHANGED <<manifests, file, wrapper, kept>>
        /\ \A t \in Sessions \ {s} : session'[t] = session[t]
        /\ session'[s].pc = "over"
        /\ session'[s].since = session[s].since
        /\ session'[s].public = session[s].public
        /\ session'[s].exported = session[s].exported
        /\ session'[s].plan = session[s].plan
    BY <1>13, <1>0 DEF EndBuild, SessionRecords
  <2>2. Advances(s)
    BY <1>13, <2>1 DEF EndBuild, Advances
  <2>3. SessionPlanOK(s)'
    BY <1>13, <1>0, <2>1, <2>2 DEF EndBuild, SessionPlanOK, PlanOK, Advances
  <2>4. KeptOK(s)'
    BY <1>13, <1>0, <2>1 DEF EndBuild, KeptOK
  <2> QED
    BY <2>1, <2>2, <2>3, <2>4, QuietStep
<1>14. CASE Kill(s)
  <2>1. /\ UNCHANGED <<manifests, file, wrapper, kept>>
        /\ \A t \in Sessions \ {s} : session'[t] = session[t]
        /\ session'[s].pc = "over"
        /\ session'[s].since = session[s].since
        /\ session'[s].public = session[s].public
        /\ session'[s].exported = session[s].exported
        /\ session'[s].plan = session[s].plan
    BY <1>14, <1>0 DEF Kill, SessionRecords
  <2>2. Advances(s)
    BY <1>14, <2>1 DEF Kill, Advances
  <2>3. SessionPlanOK(s)'
    BY <1>14, <1>0, <2>1, <2>2 DEF Kill, SessionPlanOK, PlanOK, Advances
  <2>4. KeptOK(s)'
    BY <1>14, <1>0, <2>1 DEF Kill, KeptOK
  <2> QED
    BY <2>1, <2>2, <2>3, <2>4, QuietStep
<1>7. CASE CliSaves(s)
  <2>1. /\ UNCHANGED <<manifests, wrapper>>
        /\ \A t \in Sessions \ {s} : session'[t] = session[t]
        /\ \A p \in Places \ {"target"} : file'[p] = file[p]
        /\ file'["target"] = session[s].plan
        /\ kept' = {s}
        /\ session'[s].pc = "ready"
        /\ session'[s].since = session[s].since
        /\ session'[s].public = session[s].public
        /\ session'[s].plan = session[s].plan
        /\ session'[s].exported = TRUE
    BY <1>7, <1>0 DEF CliSaves, SessionRecords, IInv, TypeOK, Places
  <2>2. session[s].pc \in {"save", "saving"} /\ session[s].plan \in Plans
    BY <1>7 DEF CliSaves, IInv, TypeOK, SessionRecords
  <2>3. Advances(s)
    BY <2>1, <2>2 DEF Advances
  <2>4. SessionPlanOK(s)'
    BY <1>0, <2>1, <2>2, <2>3 DEF SessionPlanOK, PlanOK, Advances
  <2>5. KeptOK(s)'
    BY <1>0, <2>1, <2>2 DEF KeptOK, SessionPlanOK
  <2>6. FilePlanOK("target")'
    BY <2>1, <2>2, <2>4 DEF FilePlanOK, SessionPlanOK
  <2> QED
    BY <2>1, <2>2, <2>3, <2>4, <2>5, <2>6, WritingStep
<1>9. CASE CliSavesInPlace(s)
  <2>1. /\ UNCHANGED <<manifests, wrapper>>
        /\ \A t \in Sessions \ {s} : session'[t] = session[t]
        /\ \A p \in Places \ {"target"} : file'[p] = file[p]
        /\ file'["target"] = Torn
        /\ kept' = {}
        /\ session'[s].pc = "saving"
        /\ session'[s].since = session[s].since
        /\ session'[s].public = session[s].public
        /\ session'[s].plan = session[s].plan
        /\ session'[s].exported = session[s].exported
    BY <1>9, <1>0 DEF CliSavesInPlace, SessionRecords, IInv, TypeOK, Places
  <2>2. session[s].pc \in {"save", "saving"} /\ session[s].plan \in Plans
    BY <1>9 DEF CliSavesInPlace, IInv, TypeOK, SessionRecords
  <2>3. Advances(s)
    BY <2>1, <2>2 DEF Advances
  <2>4. SessionPlanOK(s)'
    BY <1>0, <2>1, <2>2, <2>3 DEF SessionPlanOK, PlanOK, Advances
  <2>5. KeptOK(s)'
    BY <1>0, <2>1, <2>2 DEF KeptOK, SessionPlanOK
  <2>6. FilePlanOK("target")'
    BY <2>1, <2>2, <2>4 DEF FilePlanOK, SessionPlanOK
  <2> QED
    BY <2>1, <2>2, <2>3, <2>4, <2>5, <2>6, WritingStep
<1>10. CASE CliSavedInPlace(s)
  <2>1. /\ UNCHANGED <<manifests, wrapper>>
        /\ \A t \in Sessions \ {s} : session'[t] = session[t]
        /\ \A p \in Places \ {"target"} : file'[p] = file[p]
        /\ file'["target"] = session[s].plan
        /\ kept' = {s}
        /\ session'[s].pc = "ready"
        /\ session'[s].since = session[s].since
        /\ session'[s].public = session[s].public
        /\ session'[s].plan = session[s].plan
        /\ session'[s].exported = TRUE
    BY <1>10, <1>0 DEF CliSavedInPlace, SessionRecords, IInv, TypeOK, Places
  <2>2. session[s].pc \in {"save", "saving"} /\ session[s].plan \in Plans
    BY <1>10 DEF CliSavedInPlace, IInv, TypeOK, SessionRecords
  <2>3. Advances(s)
    BY <2>1, <2>2 DEF Advances
  <2>4. SessionPlanOK(s)'
    BY <1>0, <2>1, <2>2, <2>3 DEF SessionPlanOK, PlanOK, Advances
  <2>5. KeptOK(s)'
    BY <1>0, <2>1, <2>2 DEF KeptOK, SessionPlanOK
  <2>6. FilePlanOK("target")'
    BY <2>1, <2>2, <2>4 DEF FilePlanOK, SessionPlanOK
  <2> QED
    BY <2>1, <2>2, <2>3, <2>4, <2>5, <2>6, WritingStep
<1>12. ASSUME NEW w \in Wrappers, Spawn(s, w) PROVE IInv'
  <2>1. /\ UNCHANGED <<manifests, file, session, kept>>
        /\ session[s].pc = "build"
        /\ \A v \in Wrappers \ {w} : wrapper'[v] = wrapper[v]
        /\ wrapper'[w] = [Free EXCEPT !.pc = "load", !.session = s, !.since = manifests]
    BY <1>12 DEF Spawn, IInv, TypeOK
  <2>2. \A t \in Sessions : Advances(t)
    BY <2>1 DEF Advances
  <2>3. manifests' \in Nat /\ manifests' >= manifests
    BY <1>0, <2>1
  <2>4. \A v \in Wrappers \ {w} : WrapperInv(v)'
    BY <2>1, <2>2, <2>3, WrapperStays
  <2>5. WrapperInv(w)'
    BY <1>0, <2>1 DEF WrapperInv, WrapperPlanOK, Grounded, Current, Own, Free
  <2>6. \A t \in Sessions : (SessionPlanOK(t) /\ KeptOK(t))'
    BY <2>1, <2>2, <2>3, SessionStays
  <2>7. \A p \in Places : FilePlanOK(p)'
    BY <2>1, <2>2, FilesStay
  <2> QED
    BY <2>4, <2>5, <2>6, <2>7 DEF IInv
<1> QED
  BY <1>1, <1>2, <1>3, <1>4, <1>5, <1>6, <1>7, <1>8, <1>9, <1>10, <1>11, <1>12, <1>13,
     <1>14 DEF SessionStep

-----------------------------------------------------------------------------
(* Wrappers *)

\* A step of wrapper w that writes no file.
LEMMA ReadingStep ==
  ASSUME IInv, TypeOK', NEW w \in Wrappers, UNCHANGED <<manifests, file, session, kept>>,
         \A v \in Wrappers \ {w} : wrapper'[v] = wrapper[v], WrapperInv(w)'
  PROVE  IInv'
<1>1. \A t \in Sessions : Advances(t)
  BY DEF Advances
<1>2. manifests' \in Nat /\ manifests' >= manifests
  BY DEF IInv, TypeOK
<1>3. \A v \in Wrappers \ {w} : WrapperInv(v)'
  BY <1>1, <1>2, WrapperStays
<1>4. \A t \in Sessions : (SessionPlanOK(t) /\ KeptOK(t))'
  BY <1>1, <1>2, SessionStays
<1>5. \A p \in Places : FilePlanOK(p)'
  BY <1>1, FilesStay
<1> QED
  BY <1>3, <1>4, <1>5 DEF IInv

\* A step of wrapper w that writes its plan, or the first half of it.
LEMMA SavingStep ==
  ASSUME IInv, TypeOK', NEW w \in Wrappers, UNCHANGED <<manifests, session>>,
         \A v \in Wrappers \ {w} : wrapper'[v] = wrapper[v], WrapperInv(w)',
         NEW q \in Places, \A p \in Places \ {q} : file'[p] = file[p], FilePlanOK(q)',
         kept' = IF q = "target" THEN {} ELSE kept
  PROVE  IInv'
<1>1. \A t \in Sessions : Advances(t)
  BY DEF Advances
<1>2. manifests' \in Nat /\ manifests' >= manifests
  BY DEF IInv, TypeOK
<1>3. \A v \in Wrappers \ {w} : WrapperInv(v)'
  BY <1>1, <1>2, WrapperStays
<1>4. \A t \in Sessions : t \in kept' => t \in kept /\ file'["target"] = file["target"]
  BY DEF Places
<1>5. \A t \in Sessions : (SessionPlanOK(t) /\ KeptOK(t))'
  BY <1>1, <1>2, <1>4, SessionStays
<1>6. \A p \in Places : FilePlanOK(p)'
  BY <1>1, FilesStay
<1> QED
  BY <1>3, <1>5, <1>6 DEF IInv

LEMMA WrappersKeepInvariant ==
  ASSUME IInv, TypeOK', NEW w \in Wrappers, WrapperStep(w)
  PROVE  IInv'
<1> DEFINE s == wrapper[w].session
           plan == wrapper[w].plan
<1>0. /\ wrapper \in [Wrappers -> WrapperRecords]
      /\ WrapperPlanOK(w) /\ Grounded(w) /\ Current(w) /\ Own(w)
      /\ manifests \in Nat
      /\ wrapper[w].pc # "free" => s \in Sessions
      /\ wrapper[w].pc \in {"check", "print", "save", "saving"} => plan \in Plans
      /\ Place(w) \in Places
      /\ file \in [Places -> Plans \cup {Missing, Torn}]
      /\ wrapper[w].since \in Nat
  BY DEF IInv, WrapperInv, TypeOK, WrapperRecords, Place, Places
<1>1. CASE LoadFails(w)
  <2>1. /\ UNCHANGED <<manifests, file, session, kept>>
        /\ \A v \in Wrappers \ {w} : wrapper'[v] = wrapper[v]
        /\ wrapper'[w].pc = "metadata"
        /\ wrapper'[w].plan = plan
        /\ wrapper'[w].session = s
        /\ wrapper'[w].since = wrapper[w].since
    BY <1>1, <1>0 DEF LoadFails, WrapperRecords
  <2>x. wrapper[w].session \notin kept
    BY <1>1, <1>0 DEF LoadFails, IInv, KeptOK, Place
  <2>2. WrapperPlanOK(w)'
    BY <1>1, <1>0, <2>1, <2>x DEF LoadFails, WrapperPlanOK, PlanOK
  <2>3. Grounded(w)'
    BY <1>1, <1>0, <2>1, <2>x DEF LoadFails, Grounded
  <2>4. Current(w)'
    BY <1>1, <1>0, <2>1, <2>x DEF LoadFails, Current, Whole
  <2>5. Own(w)'
    BY <1>1, <1>0, <2>1, <2>x DEF LoadFails, Own
  <2> QED
    BY <2>1, <2>2, <2>3, <2>4, <2>5, ReadingStep DEF WrapperInv
<1>2. CASE Load(w)
  <2>1. /\ UNCHANGED <<manifests, file, session, kept>>
        /\ \A v \in Wrappers \ {w} : wrapper'[v] = wrapper[v]
        /\ wrapper'[w].pc = IF Trusted(w, file[Place(w)]) THEN "used" ELSE "check"
        /\ wrapper'[w].plan = file[Place(w)]
        /\ wrapper'[w].session = s
        /\ wrapper'[w].since = wrapper[w].since
    BY <1>2, <1>0 DEF Load, WrapperRecords
  <2>x. /\ file[Place(w)] \in Plans
        /\ PlanOK(file[Place(w)])
        /\ s \in kept => Trusted(w, file[Place(w)]) /\ file[Place(w)].id = s
        /\ Trusted(w, file[Place(w)]) =>
             session[s].exported /\ (file[Place(w)].id = s \/ ~session[s].public)
    BY <1>2, <1>0 DEF Load, IInv, KeptOK, Place, FilePlanOK, Trusted
  <2>2. WrapperPlanOK(w)'
    BY <1>2, <1>0, <2>1, <2>x DEF Load, WrapperPlanOK, PlanOK
  <2>3. Grounded(w)'
    BY <1>2, <1>0, <2>1, <2>x DEF Load, Grounded
  <2>4. Current(w)'
    <3> DEFINE found == file[Place(w)]
    <3>1. CASE found.id = s
      <4>1. found.graph >= session[s].since
        BY <1>2, <1>0, <2>x, <3>1 DEF Load, PlanOK
      <4> QED
        BY <2>1, <3>1, <4>1 DEF Current
    <3>2. CASE found.id # s
      <4>1. wrapper'[w].pc = "used" => session[s].exported /\ ~session[s].public
        BY <2>1, <2>x, <3>2
      <4> QED
        BY <2>1, <3>2, <4>1, <1>0, <1>2 DEF Current, Load, IInv, TypeOK, SessionRecords
    <3> QED
      BY <3>1, <3>2
  <2>5. Own(w)'
    BY <1>2, <1>0, <2>1, <2>x DEF Load, Own
  <2> QED
    BY <2>1, <2>2, <2>3, <2>4, <2>5, ReadingStep DEF WrapperInv
<1>3. CASE Check(w)
  <2>1. /\ UNCHANGED <<manifests, file, session, kept>>
        /\ \A v \in Wrappers \ {w} : wrapper'[v] = wrapper[v]
        /\ wrapper'[w].pc = IF IsFresh(plan) THEN "used" ELSE "metadata"
        /\ wrapper'[w].plan = plan
        /\ wrapper'[w].session = s
        /\ wrapper'[w].since = wrapper[w].since
    BY <1>3, <1>0 DEF Check, WrapperRecords
  <2>x. IsFresh(plan) => plan.print = manifests
    BY DEF IsFresh
  <2>2. WrapperPlanOK(w)'
    BY <1>3, <1>0, <2>1, <2>x DEF Check, WrapperPlanOK, PlanOK
  <2>3. Grounded(w)'
    BY <1>3, <1>0, <2>1, <2>x DEF Check, Grounded
  <2>4. Current(w)'
    <3>1. CASE plan.id = s
      <4>1. plan.graph >= session[s].since
        BY <1>3, <1>0, <3>1 DEF Check, WrapperPlanOK, PlanOK
      <4> QED
        BY <2>1, <3>1, <4>1 DEF Current
    <3>2. CASE plan.id # s
      <4>1. IsFresh(plan) /\ Whole(plan) => plan.graph >= wrapper[w].since
        BY <1>3, <1>0, <2>x DEF Check, Grounded, Whole
      <4>2. wrapper'[w].pc = "used" => IsFresh(plan)
        BY <2>1
      <4> QED
        BY <2>1, <3>2, <4>1, <4>2 DEF Current
    <3> QED
      BY <3>1, <3>2
  <2>5. Own(w)'
    BY <1>3, <1>0, <2>1, <2>x DEF Check, Own
  <2> QED
    BY <2>1, <2>2, <2>3, <2>4, <2>5, ReadingStep DEF WrapperInv
<1>4. CASE Resolve(w)
  <2>1. /\ UNCHANGED <<manifests, file, session, kept>>
        /\ \A v \in Wrappers \ {w} : wrapper'[v] = wrapper[v]
        /\ wrapper'[w].pc = "print"
        /\ wrapper'[w].plan = Resolved(NoSession)
        /\ wrapper'[w].session = s
        /\ wrapper'[w].since = wrapper[w].since
    BY <1>4, <1>0 DEF Resolve, WrapperRecords
  <2>2. WrapperPlanOK(w)'
    BY <1>4, <1>0, <2>1 DEF Resolve, WrapperPlanOK, PlanOK, Resolved
  <2>3. Grounded(w)'
    BY <1>4, <1>0, <2>1 DEF Resolve, Grounded, Resolved
  <2>4. Current(w)'
    BY <1>4, <1>0, <2>1 DEF Resolve, Current, Whole, Resolved
  <2>5. Own(w)'
    BY <1>4, <1>0, <2>1 DEF Resolve, Own, Resolved
  <2> QED
    BY <2>1, <2>2, <2>3, <2>4, <2>5, ReadingStep DEF WrapperInv
<1>5. CASE ResolveFails(w)
  <2>1. /\ UNCHANGED <<manifests, file, session, kept>>
        /\ \A v \in Wrappers \ {w} : wrapper'[v] = wrapper[v]
        /\ wrapper'[w].pc = "used"
        /\ wrapper'[w].plan = NoPlan
        /\ wrapper'[w].session = s
        /\ wrapper'[w].since = wrapper[w].since
    BY <1>5, <1>0 DEF ResolveFails, WrapperRecords
  <2>2. WrapperPlanOK(w)'
    BY <1>5, <1>0, <2>1 DEF ResolveFails, WrapperPlanOK, PlanOK
  <2>3. Grounded(w)'
    BY <1>5, <1>0, <2>1 DEF ResolveFails, Grounded
  <2>4. Current(w)'
    BY <1>5, <1>0, <2>1 DEF ResolveFails, Current, Whole
  <2>5. Own(w)'
    BY <1>5, <1>0, <2>1 DEF ResolveFails, Own
  <2> QED
    BY <2>1, <2>2, <2>3, <2>4, <2>5, ReadingStep DEF WrapperInv
<1>6. CASE ComputeFingerprint(w)
  <2>1. /\ UNCHANGED <<manifests, file, session, kept>>
        /\ \A v \in Wrappers \ {w} : wrapper'[v] = wrapper[v]
        /\ wrapper'[w].pc = "save"
        /\ wrapper'[w].plan = [plan EXCEPT !.print = manifests]
        /\ wrapper'[w].session = s
        /\ wrapper'[w].since = wrapper[w].since
    BY <1>6, <1>0 DEF ComputeFingerprint, WrapperRecords
  <2>x. /\ [plan EXCEPT !.print = manifests].id = plan.id
        /\ [plan EXCEPT !.print = manifests].graph = plan.graph
    BY <1>6, <1>0 DEF ComputeFingerprint, Plans
  <2>2. WrapperPlanOK(w)'
    BY <1>6, <1>0, <2>1, <2>x DEF ComputeFingerprint, WrapperPlanOK, PlanOK
  <2>3. Grounded(w)'
    BY <1>6, <1>0, <2>1, <2>x DEF ComputeFingerprint, Grounded
  <2>4. Current(w)'
    BY <1>6, <1>0, <2>1, <2>x DEF ComputeFingerprint, Current, Whole
  <2>5. Own(w)'
    BY <1>6, <1>0, <2>1, <2>x DEF ComputeFingerprint, Own
  <2> QED
    BY <2>1, <2>2, <2>3, <2>4, <2>5, ReadingStep DEF WrapperInv
<1>10. CASE SaveFails(w)
  <2>1. /\ UNCHANGED <<manifests, file, session, kept>>
        /\ \A v \in Wrappers \ {w} : wrapper'[v] = wrapper[v]
        /\ wrapper'[w].pc = "used"
        /\ wrapper'[w].plan = plan
        /\ wrapper'[w].session = s
        /\ wrapper'[w].since = wrapper[w].since
    BY <1>10, <1>0 DEF SaveFails, WrapperRecords
  <2>2. WrapperPlanOK(w)'
    BY <1>10, <1>0, <2>1 DEF SaveFails, WrapperPlanOK, PlanOK
  <2>3. Grounded(w)'
    BY <1>10, <1>0, <2>1 DEF SaveFails, Grounded
  <2>4. Current(w)'
    <3>1. plan.graph >= wrapper[w].since /\ plan.id # s
      BY <1>10, <1>0 DEF SaveFails, Grounded
    <3> QED
      BY <2>1, <3>1 DEF Current
  <2>5. Own(w)'
    BY <1>10, <1>0, <2>1 DEF SaveFails, Own
  <2> QED
    BY <2>1, <2>2, <2>3, <2>4, <2>5, ReadingStep DEF WrapperInv
<1>11. CASE Exit(w)
  <2>1. /\ UNCHANGED <<manifests, file, session, kept>>
        /\ \A v \in Wrappers \ {w} : wrapper'[v] = wrapper[v]
        /\ wrapper'[w] = Free
    BY <1>11, <1>0 DEF Exit
  <2>2. WrapperInv(w)'
    BY <2>1 DEF WrapperInv, WrapperPlanOK, Grounded, Current, Own, Free
  <2> QED
    BY <2>1, <2>2, ReadingStep
<1>7. CASE Save(w)
  <2>1. /\ UNCHANGED <<manifests, session>>
        /\ \A v \in Wrappers \ {w} : wrapper'[v] = wrapper[v]
        /\ \A p \in Places \ {Place(w)} : file'[p] = file[p]
        /\ file'[Place(w)] = plan
        /\ kept' = IF Place(w) = "target" THEN {} ELSE kept
        /\ wrapper'[w].pc = "used"
        /\ wrapper'[w].plan = plan
        /\ wrapper'[w].session = s
        /\ wrapper'[w].since = wrapper[w].since
    BY <1>7, <1>0 DEF Save, WrapperRecords
  <2>2. PICK q \in Places : q = Place(w) /\ FilePlanOK(q)'
    <3>2. PlanOK(plan)'
      BY <1>7, <1>0, <2>1 DEF Save, WrapperPlanOK, PlanOK
    <3> QED
      BY <1>0, <2>1, <3>2 DEF FilePlanOK
  <2>3. WrapperPlanOK(w)'
    BY <1>7, <1>0, <2>1 DEF Save, WrapperPlanOK, PlanOK
  <2>4. Grounded(w)'
    BY <1>7, <1>0, <2>1 DEF Save, Grounded
  <2>5. Current(w)'
    <3>1. plan.graph >= wrapper[w].since /\ plan.id # s
      BY <1>7, <1>0 DEF Save, Grounded
    <3> QED
      BY <2>1, <3>1 DEF Current
  <2>6. Own(w)'
    BY <1>7, <1>0, <2>1 DEF Save, Own
  <2> QED
    BY <1>0, <2>1, <2>2, <2>3, <2>4, <2>5, <2>6, SavingStep DEF WrapperInv
<1>8. CASE SaveInPlace(w)
  <2>1. /\ UNCHANGED <<manifests, session>>
        /\ \A v \in Wrappers \ {w} : wrapper'[v] = wrapper[v]
        /\ \A p \in Places \ {Place(w)} : file'[p] = file[p]
        /\ file'[Place(w)] = Torn
        /\ kept' = IF Place(w) = "target" THEN {} ELSE kept
        /\ wrapper'[w].pc = "saving"
        /\ wrapper'[w].plan = plan
        /\ wrapper'[w].session = s
        /\ wrapper'[w].since = wrapper[w].since
    BY <1>8, <1>0 DEF SaveInPlace, WrapperRecords
  <2>2. PICK q \in Places : q = Place(w) /\ FilePlanOK(q)'
    <3>2. PlanOK(plan)'
      BY <1>8, <1>0, <2>1 DEF SaveInPlace, WrapperPlanOK, PlanOK
    <3> QED
      BY <1>0, <2>1, <3>2 DEF FilePlanOK
  <2>3. WrapperPlanOK(w)'
    BY <1>8, <1>0, <2>1 DEF SaveInPlace, WrapperPlanOK, PlanOK
  <2>4. Grounded(w)'
    BY <1>8, <1>0, <2>1 DEF SaveInPlace, Grounded
  <2>5. Current(w)'
    BY <2>1 DEF Current
  <2>6. Own(w)'
    BY <1>8, <1>0, <2>1 DEF SaveInPlace, Own
  <2> QED
    BY <1>0, <2>1, <2>2, <2>3, <2>4, <2>5, <2>6, SavingStep DEF WrapperInv
<1>9. CASE SavedInPlace(w)
  <2>1. /\ UNCHANGED <<manifests, session>>
        /\ \A v \in Wrappers \ {w} : wrapper'[v] = wrapper[v]
        /\ \A p \in Places \ {Place(w)} : file'[p] = file[p]
        /\ file'[Place(w)] = plan
        /\ kept' = IF Place(w) = "target" THEN {} ELSE kept
        /\ wrapper'[w].pc = "used"
        /\ wrapper'[w].plan = plan
        /\ wrapper'[w].session = s
        /\ wrapper'[w].since = wrapper[w].since
    BY <1>9, <1>0 DEF SavedInPlace, WrapperRecords
  <2>2. PICK q \in Places : q = Place(w) /\ FilePlanOK(q)'
    <3>2. PlanOK(plan)'
      BY <1>9, <1>0, <2>1 DEF SavedInPlace, WrapperPlanOK, PlanOK
    <3> QED
      BY <1>0, <2>1, <3>2 DEF FilePlanOK
  <2>3. WrapperPlanOK(w)'
    BY <1>9, <1>0, <2>1 DEF SavedInPlace, WrapperPlanOK, PlanOK
  <2>4. Grounded(w)'
    BY <1>9, <1>0, <2>1 DEF SavedInPlace, Grounded
  <2>5. Current(w)'
    <3>1. plan.graph >= wrapper[w].since /\ plan.id # s
      BY <1>9, <1>0 DEF SavedInPlace, Grounded
    <3> QED
      BY <2>1, <3>1 DEF Current
  <2>6. Own(w)'
    BY <1>9, <1>0, <2>1 DEF SavedInPlace, Own
  <2> QED
    BY <1>0, <2>1, <2>2, <2>3, <2>4, <2>5, <2>6, SavingStep DEF WrapperInv
<1> QED
  BY <1>1, <1>2, <1>3, <1>4, <1>5, <1>6, <1>7, <1>8, <1>9, <1>10, <1>11 DEF WrapperStep

-----------------------------------------------------------------------------
LEMMA StepsKeepInvariant == IInv /\ [Next]_vars => IInv'
<1> SUFFICES ASSUME IInv, [Next]_vars PROVE IInv'
  OBVIOUS
<1>1. TypeOK'
  BY StepsKeepType DEF IInv
<1>2. CASE Edit \/ UNCHANGED vars
  <2>1. /\ UNCHANGED <<file, session, wrapper, kept>>
        /\ manifests' \in Nat /\ manifests' >= manifests
    BY <1>2 DEF Edit, vars, IInv, TypeOK
  <2>2. \A t \in Sessions : Advances(t)
    BY <2>1 DEF Advances
  <2>3. \A w \in Wrappers : WrapperInv(w)'
    BY <2>1, <2>2, WrapperStays
  <2>4. \A s \in Sessions : (SessionPlanOK(s) /\ KeptOK(s))'
    BY <2>1, <2>2, SessionStays
  <2>5. \A p \in Places : FilePlanOK(p)'
    BY <2>1, <2>2, FilesStay
  <2> QED
    BY <1>1, <2>3, <2>4, <2>5 DEF IInv
<1>3. ASSUME NEW s \in Sessions, SessionStep(s) PROVE IInv'
  BY <1>1, <1>3, SessionsKeepInvariant
<1>4. ASSUME NEW w \in Wrappers, WrapperStep(w) PROVE IInv'
  BY <1>1, <1>4, WrappersKeepInvariant
<1> QED
  BY <1>2, <1>3, <1>4 DEF Next

LEMMA InvariantAlways == Spec => []IInv
<1>1. Init => IInv
  <2> SUFFICES ASSUME Init PROVE IInv
    OBVIOUS
  <2>1. TypeOK
    BY DEF Init, TypeOK, NewSession, Free, SessionRecords, SessionStates, WrapperRecords,
           WrapperStates
  <2>2. \A p \in Places : FilePlanOK(p)
    BY DEF Init, FilePlanOK
  <2>3. \A s \in Sessions : SessionPlanOK(s) /\ KeptOK(s)
    BY DEF Init, SessionPlanOK, KeptOK, NewSession
  <2>4. \A w \in Wrappers : WrapperInv(w)
    BY DEF Init, WrapperInv, WrapperPlanOK, Grounded, Current, Own, Free
  <2> QED
    BY <2>1, <2>2, <2>3, <2>4 DEF IInv
<1> QED
  BY <1>1, StepsKeepInvariant, PTL DEF Spec

\* Under the dependency policy, and without the CLI, a wrapper acts on a plan of its
\* session or on one that was current when it asked.
THEOREM SessionPlanIsCurrent == Spec => []PlanIsCurrent
  BY InvariantAlways, InvariantImplies, PTL

\* As long as nobody else writes the file, all wrappers of a session act on the plan
\* its CLI made.
THEOREM SessionOwnPlanWhileKept == Spec => []OwnPlanWhileKept
  BY InvariantAlways, InvariantImplies, PTL
=============================================================================
