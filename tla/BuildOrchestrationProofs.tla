---------------------- MODULE BuildOrchestrationProofs ----------------------
(***************************************************************************)
(* Theorems about BuildOrchestration, for every dependency graph, every    *)
(* set of profiles and any number of edits and invocations.                *)
(***************************************************************************)
EXTENDS BuildOrchestration, TLAPS

-----------------------------------------------------------------------------
(* The invariants *)

\* A unit is under way during the final build only; Cargo has no record of it,
\* it is still to be done, it was not compiled by the pre-pass, and nothing was after it.
UnitInv ==
  unit # NoUnit =>
    /\ pc = "build"
    /\ unit.pkg \in cli.todo
    /\ artifact[cli.profile][unit.pkg] = NoArtifact
    /\ unit.build.form # "prepass"
    /\ unit.build.at = clock /\ clock # 0

\* A stamp that StampValid accepts was written for the artifact, or was there when
\* that was compiled and passed for its own.
Proves(s, a) == s # 0 /\ s + Slack >= a.at => a.form \in Transformed \/ a.tolerated

StampInv ==
  /\ \A q \in Profiles, p \in Packages :
       artifact[q][p] # NoArtifact => Proves(stamp[q][p], artifact[q][p])
  /\ unit # NoUnit => Proves(stamp[cli.profile][unit.pkg], unit.build)

Kept(p) ==
  artifact[cli.profile][p] # NoArtifact =>
    artifact[cli.profile][p].form # "prepass" \/ artifact[cli.profile][p].tolerated

\* What is left of the pre-pass at each place of the CLI.
KeptInv ==
  /\ pc = "clean" => \A p \in Desired(cli.mode) \ cli.doomed : Kept(p)
  /\ pc = "verify" /\ CleansWhatItBuilds => \A p \in Desired(cli.mode) : Kept(p)
  /\ pc \in {"final", "build", "record"} /\ cli.planned /\ cli.orchestrated /\ CleansWhatItBuilds
       => \A p \in Desired(cli.mode) : Kept(p)

\* What the final build has not to do is there.
BuiltInv ==
  /\ pc = "build" => \A p \in Packages \ cli.todo : artifact[cli.profile][p] # NoArtifact
  /\ pc = "record" => \A p \in Packages : artifact[cli.profile][p] # NoArtifact

\* A stamped artifact still has its stamp.
Stands(q, p) ==
  artifact[q][p] # NoArtifact /\ artifact[q][p].stamped
  => stamp[q][p] # 0 /\ stamp[q][p] + Slack >= artifact[q][p].at

StandInv ==
  /\ unit # NoUnit /\ unit.build.stamped
       => /\ stamp[cli.profile][unit.pkg] # 0
          /\ stamp[cli.profile][unit.pkg] + Slack >= unit.build.at
  /\ pc = "clean" => \A p \in Desired(cli.mode) \ cli.doomed : Stands(cli.profile, p)
  /\ pc = "verify" /\ CleansWhatItBuilds
       => \A p \in Desired(cli.mode) : Stands(cli.profile, p)
  /\ pc \in {"final", "build", "record"} /\ cli.planned /\ cli.orchestrated /\ CleansWhatItBuilds
       => \A p \in Desired(cli.mode) : Stands(cli.profile, p)

\* What the pre-pass compiled has no stamp of its own.
CompiledInv ==
  /\ pc \in {"wipe", "plan", "prepass"} => cli.compiled = {}
  /\ pc = "precompile" =>
       \A p \in cli.compiled :
         artifact[cli.profile][p] # NoArtifact => ~artifact[cli.profile][p].stamped
  /\ pc \in {"build", "record"} => dirExists

\* The invocation under way repeats the last one.
Repeats == settled = [mode |-> cli.mode, profile |-> cli.profile]

\* What such an invocation finds, and does.
SettledInv ==
  /\ pc = "idle" /\ settled.mode # "none" =>
       /\ policyFile = settled.mode
       /\ dirExists
       /\ \A p \in Desired(settled.mode) : Stands(settled.profile, p)
  /\ pc = "wipe" => ~Repeats
  /\ pc \in {"plan", "prepass", "precompile"} /\ Repeats =>
       \A p \in Desired(cli.mode) : Stands(cli.profile, p)
  /\ pc \in {"clean", "verify"} /\ Repeats /\ Desired(cli.mode) \cap RuntimeClosure = {} =>
       /\ \A p \in cli.doomed :
            artifact[cli.profile][p] # NoArtifact => ~artifact[cli.profile][p].stamped
       /\ cli.rlib # 0 => Runtime \notin cli.doomed /\ artifact[cli.profile][Runtime] # NoArtifact

\* With no profile named: what is compiled, and what may be, while policyFile is as
\* it is.
Own ==
  \A q \in Profiles, p \in Packages :
    artifact[q][p] # NoArtifact => artifact[q][p].policy = "dependencies-v1"

OwnInv ==
  /\ policyFile = "dependencies-v1" => Own
  /\ ~dirExists => \A q \in Profiles, p \in Packages : artifact[q][p] = NoArtifact
  /\ pc \in {"precompile", "build", "record"} => dirExists
  /\ pc \notin {"idle", "wipe"} =>
       /\ cli.mode = "dependencies-v1" => Own
       /\ cli.mode # "dependencies-v1" => policyFile # "dependencies-v1"
  /\ cli.named = {}
  /\ unit # NoUnit => unit.build.policy = cli.mode

\* Package r was compiled after package p.
Later(q, r, p) ==
  /\ artifact[q][r] # NoArtifact
  /\ artifact[q][p] # NoArtifact
  /\ artifact[q][r].at > artifact[q][p].at

\* No compilation is later than the clock; one under way is the last.
DatedInv ==
  \A q \in Profiles, p \in Packages :
    artifact[q][p] # NoArtifact =>
      artifact[q][p].at <= clock /\ (unit # NoUnit => artifact[q][p].at < clock)

\* What makes a package stale makes stale what needs that.
ChainInv ==
  \A q \in Profiles, p, r, x \in Packages :
    /\ <<p, r>> \in Needs
    /\ <<r, x>> \in Needs
    /\ artifact[q][p] # NoArtifact
    /\ Later(q, x, r)
    => Later(q, x, p)

\* What Cargo has not to do, or has done, stands after all that it needs.
TodoInv ==
  /\ pc \in {"precompile", "build"} =>
       \A p \in Packages \ cli.todo, r \in Packages :
         <<p, r>> \in Needs => r \notin cli.todo /\ ~Later(cli.profile, r, p)
  /\ pc = "record" =>
       \A p, r \in Packages : <<p, r>> \in Needs => ~Later(cli.profile, r, p)
  /\ unit # NoUnit => \A r \in cli.todo : <<unit.pkg, r>> \notin Needs

\* Unit a, if it is native, is bound to the OpenTelemetry recorded for its profile.
Agrees(q, a) ==
  a.form = "native" /\ artifact[q][Runtime] # NoArtifact
  => a.instance = artifact[q][Runtime].version

ExternInv ==
  /\ \A q \in Profiles, p \in OwnExtern :
       artifact[q][p] # NoArtifact => Later(q, Runtime, p) \/ Agrees(q, artifact[q][p])
  /\ unit # NoUnit /\ unit.pkg \in OwnExtern => Agrees(cli.profile, unit.build)

-----------------------------------------------------------------------------
(* Types *)

LEMMA PackagesIn ==
  /\ App \in Packages
  /\ Runtime \in Packages
  /\ \A mode \in Modes : Desired(mode) \in SUBSET Packages
BY BuildAssumption DEF Packages, Desired

LEMMA IdleIn == Idle \in Locals /\ NotSettled \in [mode : Modes \cup {"none"}, profile : Profiles]
BY BuildAssumption DEF Idle, Locals, NotSettled, Modes

\* Types of the locals, field by field.
LEMMA LocalsFields ==
  ASSUME cli \in Locals
  PROVE  /\ cli.mode \in Modes /\ cli.profile \in Profiles /\ cli.named \in SUBSET Profiles
         /\ cli.orchestrated \in BOOLEAN /\ cli.planned \in BOOLEAN /\ cli.rlib \in Nat
         /\ cli.todo \in SUBSET Packages /\ cli.compiled \in SUBSET Packages
         /\ cli.doomed \in SUBSET Packages
BY DEF Locals

\* A change of one cell of a table over profiles and packages.
LEMMA CellChanges ==
  ASSUME NEW S, NEW f \in [Profiles -> [Packages -> S]],
         NEW q \in Profiles, NEW p \in Packages, NEW v \in S
  PROVE  [f EXCEPT ![q][p] = v] \in [Profiles -> [Packages -> S]]
OBVIOUS

LEMMA BuildIn ==
  ASSUME TypeOK, NEW p \in Packages, NEW form \in Forms, NEW instance \in Nat
  PROVE  Build(p, form, instance) \in Artifacts
<1>1. source[p] \in Nat /\ clock + 1 \in Nat /\ cli.mode \in Modes
  BY DEF TypeOK, Locals
<1> QED
  BY <1>1 DEF Build, Artifacts

LEMMA CondemnTypes ==
  ASSUME cli \in Locals, NEW packages \in SUBSET Packages, NEW rlib \in Nat,
         Condemn(packages, rlib)
  PROVE  cli' \in Locals /\ pc' = "clean"
BY DEF Condemn, Locals

LEMMA TypeInit == Init => TypeOK
<1> SUFFICES ASSUME Init PROVE TypeOK
  OBVIOUS
<1>1. source \in [Packages -> 1 .. edits + 1]
  BY BuildAssumption DEF Init
<1>2. artifact \in [Profiles -> [Packages -> Artifacts \cup {NoArtifact}]]
  BY DEF Init
<1>3. stamp \in [Profiles -> [Packages -> 0 .. clock]]
  BY DEF Init
<1>4. unit \in Units \cup {NoUnit} /\ cli \in Locals
  BY IdleIn DEF Init
<1>5. edits \in 0 .. MaxEdits /\ invocations \in 0 .. MaxInvocations
  BY BuildAssumption DEF Init
<1> QED
  BY <1>1, <1>2, <1>3, <1>4, <1>5, IdleIn DEF Init, TypeOK

LEMMA TypeStep == TypeOK /\ [Next]_vars => TypeOK'
<1> SUFFICES ASSUME TypeOK, [Next]_vars PROVE TypeOK'
  OBVIOUS
<1>0. CASE UNCHANGED vars
  BY <1>0 DEF TypeOK, vars, disk, process, counters
<1>a. /\ cli \in Locals /\ cli.profile \in Profiles /\ cli.mode \in Modes /\ cli.rlib \in Nat
      /\ cli.todo \in SUBSET Packages /\ cli.compiled \in SUBSET Packages
      /\ clock \in Nat
  BY LocalsFields DEF TypeOK
<1>b. /\ artifact \in [Profiles -> [Packages -> Artifacts \cup {NoArtifact}]]
      /\ stamp \in [Profiles -> [Packages -> 0 .. clock]]
      /\ unit \in Units \cup {NoUnit}
  BY DEF TypeOK
<1>c. stamp \in [Profiles -> [Packages -> 0 .. clock + 1]]
  <2>1. \A n \in 0 .. clock : n \in 0 .. clock + 1
    BY <1>a
  <2> QED
    BY <1>b, <2>1
<1>d. ASSUME NEW packages \in SUBSET Packages, NEW rlib \in Nat, Condemn(packages, rlib),
             UNCHANGED <<disk, unit, counters>>,
             settled' \in [mode : Modes \cup {"none"}, profile : Profiles]
      PROVE  TypeOK'
  <2>1. cli' \in Locals /\ pc' = "clean"
    BY <1>a, <1>d, CondemnTypes
  <2> QED
    BY <1>d, <2>1 DEF TypeOK, disk, counters
<1>1. ASSUME NEW q \in Profiles, NEW p \in Packages, WipeArtifact(q, p) PROVE TypeOK'
  <2>1. artifact' \in [Profiles -> [Packages -> Artifacts \cup {NoArtifact}]]
    BY <1>b, <1>1, CellChanges DEF WipeArtifact
  <2> QED
    BY <1>1, <2>1 DEF TypeOK, WipeArtifact, process, counters
<1>2. ASSUME NEW q \in Profiles, NEW p \in Packages, WipeStamp(q, p) PROVE TypeOK'
  <2>1. stamp' \in [Profiles -> [Packages -> 0 .. clock]]
    BY <1>a, <1>b, <1>2, CellChanges DEF WipeStamp
  <2> QED
    BY <1>2, <2>1 DEF TypeOK, WipeStamp, process, counters
<1>3. ASSUME WipePolicy PROVE TypeOK'
  BY <1>3 DEF TypeOK, WipePolicy, disk, process, counters
<1>4. ASSUME WipeDone PROVE TypeOK'
  BY <1>4 DEF TypeOK, WipeDone, disk, process, counters
<1>5. ASSUME NEW found \in BOOLEAN, Plan(found) PROVE TypeOK'
  <2>1. cli' \in Locals
    BY <1>a, <1>5 DEF Plan, Locals
  <2> QED
    BY <1>5, <2>1 DEF TypeOK, Plan, disk, counters
<1>6. ASSUME StartPrepass PROVE TypeOK'
  <2>1. cli' \in Locals
    BY <1>a, <1>6 DEF StartPrepass, Locals
  <2> QED
    BY <1>6, <2>1 DEF TypeOK, StartPrepass, counters
<1>7. ASSUME NEW p \in Packages, PrepassCompiles(p) PROVE TypeOK'
  <2>1. cli' \in Locals
    BY <1>a, <1>7 DEF PrepassCompiles, Locals
  <2>2. Build(p, "prepass", 0) \in Artifacts \cup {NoArtifact}
    BY BuildIn DEF Forms
  <2>3. artifact' \in [Profiles -> [Packages -> Artifacts \cup {NoArtifact}]]
    BY <1>a, <1>b, <1>7, <2>2, CellChanges DEF PrepassCompiles
  <2>4. clock' = clock + 1 /\ stamp' = stamp /\ clock' \in Nat
    BY <1>a, <1>7 DEF PrepassCompiles
  <2>5. stamp' \in [Profiles -> [Packages -> 0 .. clock']]
    BY <1>c, <2>4
  <2> QED
    BY <1>7, <2>1, <2>3, <2>4, <2>5 DEF TypeOK, PrepassCompiles, counters
<1>8. ASSUME PrepassFails PROVE TypeOK'
  BY <1>a, <1>d, <1>8, PackagesIn, IdleIn DEF PrepassFails, NotSettled
<1>9. ASSUME FindNoRuntime PROVE TypeOK'
  <2>1. Dirty \in SUBSET Packages
    BY <1>a, PackagesIn DEF Dirty
  <2> QED
    BY <1>d, <1>9, <2>1 DEF FindNoRuntime, TypeOK
<1>10. ASSUME CaptureRuntime PROVE TypeOK'
  <2>1. /\ Dirty \ RuntimeClosure \in SUBSET Packages
        /\ Desired(cli.mode) \in SUBSET Packages
    BY <1>a, PackagesIn DEF Dirty
  <2>2. here[Runtime].version \in Nat
    BY <1>a, <1>b, <1>10, PackagesIn DEF CaptureRuntime, here, Artifacts
  <2> QED
    BY <1>d, <1>10, <2>1, <2>2 DEF CaptureRuntime, TypeOK
<1>11. ASSUME NEW q \in Profiles, NEW p \in Packages, CleanPackage(q, p) PROVE TypeOK'
  <2>1. artifact' \in [Profiles -> [Packages -> Artifacts \cup {NoArtifact}]]
    BY <1>a, <1>b, <1>11, CellChanges DEF CleanPackage
  <2> QED
    BY <1>11, <2>1 DEF TypeOK, CleanPackage, process, counters
<1>12. ASSUME RemoveStamps PROVE TypeOK'
  <2>1. cli' \in Locals
    BY <1>a, <1>12 DEF RemoveStamps, Locals
  <2>2. stamp' \in [Profiles -> [Packages -> 0 .. clock]]
    BY <1>a, <1>b, <1>12 DEF RemoveStamps
  <2> QED
    BY <1>12, <2>1, <2>2 DEF TypeOK, RemoveStamps, counters
<1>13. ASSUME CleanFails PROVE TypeOK'
  BY <1>13, IdleIn DEF TypeOK, CleanFails, disk, counters
<1>14. ASSUME FindRuntimeMissing PROVE TypeOK'
  BY <1>a, <1>d, <1>14, PackagesIn DEF FindRuntimeMissing, TypeOK
<1>15. ASSUME FindRuntimeKept PROVE TypeOK'
  BY <1>15 DEF TypeOK, FindRuntimeKept, disk, process, counters
<1>16. ASSUME StartFinal PROVE TypeOK'
  <2>1. cli' \in Locals
    BY <1>a, <1>16 DEF StartFinal, Locals
  <2> QED
    BY <1>16, <2>1 DEF TypeOK, StartFinal, counters
<1>17. ASSUME NEW p \in Packages, NEW form \in Forms, RustcSucceeds(p, form) PROVE TypeOK'
  <2>1. Build(p, form, IF form = "native" THEN cli.rlib ELSE 0) \in Artifacts
    BY <1>a, BuildIn
  <2>2. unit' \in Units \cup {NoUnit}
    BY <1>17, <2>1 DEF RustcSucceeds, Units
  <2>3. artifact' \in [Profiles -> [Packages -> Artifacts \cup {NoArtifact}]]
    BY <1>a, <1>b, <1>17, CellChanges DEF RustcSucceeds
  <2>4. clock' = clock + 1 /\ stamp' = stamp /\ clock' \in Nat
    BY <1>a, <1>17 DEF RustcSucceeds
  <2>5. stamp' \in [Profiles -> [Packages -> 0 .. clock']]
    BY <1>c, <2>4
  <2> QED
    BY <1>17, <2>2, <2>3, <2>4, <2>5 DEF TypeOK, RustcSucceeds, counters
<1>18. ASSUME StampUnit PROVE TypeOK'
  <2>1. unit \in Units /\ unit.pkg \in Packages
    BY <1>b, <1>18 DEF StampUnit, Units
  <2>2. stamp' \in [Profiles -> [Packages -> 0 .. clock]]
    BY <1>a, <1>b, <1>18, <2>1, CellChanges DEF StampUnit
  <2>3. unit' \in Units
    BY <1>18, <2>1 DEF StampUnit, Units, Artifacts
  <2> QED
    BY <1>18, <2>2, <2>3 DEF TypeOK, StampUnit, counters
<1>19. ASSUME RecordUnit PROVE TypeOK'
  <2>1. unit.pkg \in Packages /\ unit.build \in Artifacts
    BY <1>b, <1>19 DEF RecordUnit, Units
  <2>2. cli' \in Locals
    BY <1>a, <1>19 DEF RecordUnit, Locals
  <2>3. artifact' \in [Profiles -> [Packages -> Artifacts \cup {NoArtifact}]]
    BY <1>a, <1>b, <1>19, <2>1, CellChanges DEF RecordUnit
  <2> QED
    BY <1>19, <2>2, <2>3 DEF TypeOK, RecordUnit, counters
<1>20. ASSUME BuildFails PROVE TypeOK'
  BY <1>20, IdleIn DEF TypeOK, BuildFails, disk, counters
<1>21. ASSUME BuildSucceeds PROVE TypeOK'
  BY <1>21 DEF TypeOK, BuildSucceeds, disk, process, counters
<1>22. ASSUME RecordPolicy PROVE TypeOK'
  <2>1. settled' \in [mode : Modes \cup {"none"}, profile : Profiles]
    BY <1>a, <1>22, IdleIn DEF RecordPolicy
  <2> QED
    BY <1>a, <1>22, <2>1, IdleIn DEF TypeOK, RecordPolicy, counters
<1>23. ASSUME NEW mode \in Modes, NEW request \in Requests, NEW orchestrated \in BOOLEAN,
             Invoke(mode, request, orchestrated)
      PROVE  TypeOK'
  <2>1. cli' \in Locals
    <3>1. request.profile \in Profiles /\ request.named \in SUBSET Profiles
      BY BuildAssumption DEF ProfileRequests
    <3> QED
      BY <1>23, <3>1, IdleIn DEF Invoke, Locals
  <2>2. invocations' \in 0 .. MaxInvocations
    BY <1>23, BuildAssumption DEF TypeOK, Invoke
  <2> QED
    BY <1>23, <2>1, <2>2 DEF TypeOK, Invoke, disk
<1>24. ASSUME Crash PROVE TypeOK'
  BY <1>24, IdleIn DEF TypeOK, Crash, disk, counters
<1>25. ASSUME NEW p \in Packages, Edit(p) PROVE TypeOK'
  <2>1. edits' \in 0 .. MaxEdits
    BY <1>25, BuildAssumption DEF TypeOK, Edit
  <2>2. source' \in [Packages -> 1 .. edits' + 1]
    <3>1. \A r \in Packages : source[r] \in 1 .. edits + 1
      BY DEF TypeOK
    <3>2. edits' = edits + 1 /\ edits \in Nat
      BY <1>25, BuildAssumption DEF TypeOK, Edit
    <3>3. \A r \in Packages : source'[r] \in 1 .. edits' + 1
      BY <1>25, <3>1, <3>2 DEF TypeOK, Edit
    <3> QED
      BY <1>25, <3>3 DEF TypeOK, Edit
  <2> QED
    BY <1>25, <2>1, <2>2, IdleIn DEF TypeOK, Edit, process
<1>26. ASSUME LoseRuntime PROVE TypeOK'
  <2>1. artifact' \in [Profiles -> [Packages -> Artifacts \cup {NoArtifact}]]
    BY <1>a, <1>b, <1>26, PackagesIn, CellChanges DEF LoseRuntime
  <2> QED
    BY <1>26, <2>1, IdleIn DEF TypeOK, LoseRuntime, process, counters
<1> QED
  BY <1>0, <1>1, <1>2, <1>3, <1>4, <1>5, <1>6, <1>7, <1>8, <1>9, <1>10, <1>11, <1>12, <1>13, <1>14, <1>15, <1>16, <1>17, <1>18, <1>19, <1>20, <1>21, <1>22, <1>23, <1>24, <1>25, <1>26
  DEF Next, Step, Environment

-----------------------------------------------------------------------------
(* The unit under way *)

\* Away from the final build there is no unit, and an action that gives the
\* unit up, or starts none, has nothing to keep.
LEMMA UnitStep == TypeOK /\ UnitInv /\ [Next]_vars => UnitInv'
<1> SUFFICES ASSUME TypeOK, UnitInv, [Next]_vars PROVE UnitInv'
  OBVIOUS
<1>0. CASE UNCHANGED vars
  BY <1>0 DEF UnitInv, vars, disk, process
<1>a. /\ cli \in Locals /\ cli.profile \in Profiles /\ cli.todo \in SUBSET Packages
      /\ artifact \in [Profiles -> [Packages -> Artifacts \cup {NoArtifact}]]
      /\ unit \in Units \cup {NoUnit}
  BY LocalsFields DEF TypeOK
\* Every step before the final build, and every end of an invocation.
<1>b. ASSUME pc # "build" \/ unit = NoUnit, unit' = unit PROVE UnitInv'
  <2>1. unit' = NoUnit
    BY <1>b DEF UnitInv
  <2> QED
    BY <2>1 DEF UnitInv
<1>1. ASSUME NEW q \in Profiles, NEW p \in Packages, WipeArtifact(q, p) \/ WipeStamp(q, p)
      PROVE  UnitInv'
  BY <1>1, <1>b DEF WipeArtifact, WipeStamp, process
<1>2. CASE WipePolicy \/ WipeDone \/ \E found \in BOOLEAN : Plan(found)
  BY <1>2, <1>b DEF WipePolicy, WipeDone, Plan, process
<1>3. CASE StartPrepass \/ \E p \in Packages : PrepassCompiles(p)
  BY <1>3, <1>b DEF StartPrepass, PrepassCompiles
<1>4. CASE PrepassFails \/ FindNoRuntime \/ CaptureRuntime
  BY <1>4, <1>b DEF PrepassFails, FindNoRuntime, CaptureRuntime
<1>5. CASE (\E q \in Profiles, p \in Packages : CleanPackage(q, p)) \/ RemoveStamps \/ CleanFails
  BY <1>5, <1>b DEF CleanPackage, RemoveStamps, CleanFails, process
<1>6. CASE FindRuntimeMissing \/ FindRuntimeKept \/ StartFinal
  BY <1>6, <1>b DEF FindRuntimeMissing, FindRuntimeKept, StartFinal
<1>7. ASSUME NEW p \in Packages, NEW form \in Forms, RustcSucceeds(p, form)
      PROVE  UnitInv'
  <2>1. /\ pc' = "build" /\ cli' = cli
        /\ unit' = [pkg |-> p, build |-> Build(p, form, IF form = "native" THEN cli.rlib ELSE 0)]
        /\ artifact' = [artifact EXCEPT ![cli.profile][p] = NoArtifact]
        /\ p \in cli.todo
    BY <1>7 DEF RustcSucceeds, Ready
  <2>2. unit'.pkg = p /\ unit'.build.form = form
    BY <2>1 DEF Build
  <2>3. form # "prepass"
    BY <1>7 DEF RustcSucceeds, EmitterFor
  <2>4. artifact'[cli.profile][p] = NoArtifact
    BY <1>a, <2>1
  <2>5. unit'.build.at = clock' /\ clock' # 0
    BY <1>7, <2>1 DEF RustcSucceeds, Build, TypeOK
  <2> QED
    BY <2>1, <2>2, <2>3, <2>4, <2>5 DEF UnitInv
<1>8. CASE StampUnit
  <2>1. unit \in Units /\ unit # NoUnit
    BY <1>a, <1>8 DEF StampUnit
  <2>2. /\ unit'.pkg = unit.pkg /\ unit'.build.form = unit.build.form
        /\ unit'.build.at = unit.build.at
    BY <1>8, <2>1 DEF StampUnit, Units, Artifacts
  <2> QED
    BY <1>8, <2>1, <2>2 DEF UnitInv, StampUnit
<1>9. CASE RecordUnit \/ Crash
  BY <1>9 DEF RecordUnit, Crash, UnitInv
<1>10. CASE BuildFails \/ BuildSucceeds \/ RecordPolicy
  BY <1>10, <1>b DEF BuildFails, BuildSucceeds, RecordPolicy
<1>11. ASSUME NEW mode \in Modes, NEW request \in Requests, NEW orchestrated \in BOOLEAN,
              Invoke(mode, request, orchestrated)
       PROVE  UnitInv'
  BY <1>11, <1>b DEF Invoke
<1>12. CASE \E p \in Packages : Edit(p)
  BY <1>12 DEF Edit, UnitInv, process
<1>13. CASE LoseRuntime
  BY <1>13, <1>b DEF LoseRuntime, process
<1> QED
  BY <1>0, <1>1, <1>2, <1>3, <1>4, <1>5, <1>6, <1>7, <1>8, <1>9, <1>10, <1>11, <1>12, <1>13
  DEF Next, Step, Environment

-----------------------------------------------------------------------------
(* Stamps *)

\* Artifacts and stamps that disappear, and a unit that is given up.
LEMMA FewerProve ==
  ASSUME StampInv,
         \A q \in Profiles, p \in Packages :
           /\ artifact'[q][p] \in {NoArtifact, artifact[q][p]}
           /\ stamp'[q][p] \in {0, stamp[q][p]},
         unit' = NoUnit \/ UNCHANGED <<unit, cli, stamp>>
  PROVE  StampInv'
BY DEF StampInv, Proves

LEMMA CompiledProves ==
  ASSUME NEW p \in Packages, NEW form, NEW instance
  PROVE  Proves(stamp[cli.profile][p], Build(p, form, instance))
BY DEF Build, Proves

LEMMA StampStep == TypeOK /\ UnitInv /\ StampInv /\ [Next]_vars => StampInv'
<1> SUFFICES ASSUME TypeOK, UnitInv, StampInv, [Next]_vars PROVE StampInv'
  OBVIOUS
<1>a. /\ cli \in Locals /\ cli.profile \in Profiles
      /\ artifact \in [Profiles -> [Packages -> Artifacts \cup {NoArtifact}]]
      /\ clock \in Nat
      /\ stamp \in [Profiles -> [Packages -> 0 .. clock]]
      /\ unit \in Units \cup {NoUnit}
  BY LocalsFields DEF TypeOK
<1>0. CASE UNCHANGED vars
  BY <1>0 DEF StampInv, vars, disk, process
\* Neither artifacts nor stamps change.
<1>b. ASSUME artifact' = artifact, stamp' = stamp,
             unit' = NoUnit \/ UNCHANGED <<unit, cli>> \/ (unit = NoUnit /\ unit' = unit)
      PROVE  StampInv'
  BY <1>b, FewerProve
<1>c. pc # "build" => unit = NoUnit
  BY DEF UnitInv
\* The build has not begun, and one cell of artifact or stamp is cleared.
<1>d. ASSUME NEW q \in Profiles, NEW p \in Packages, pc # "build", unit' = unit,
             \/ artifact' = [artifact EXCEPT ![q][p] = NoArtifact] /\ stamp' = stamp
             \/ stamp' = [stamp EXCEPT ![q][p] = 0] /\ artifact' = artifact
      PROVE  StampInv'
  <2>1. \A x \in Profiles, y \in Packages :
          /\ artifact'[x][y] \in {NoArtifact, artifact[x][y]}
          /\ stamp'[x][y] \in {0, stamp[x][y]}
    BY <1>a, <1>d
  <2> QED
    BY <1>c, <1>d, <2>1, FewerProve
<1>1. ASSUME NEW q \in Profiles, NEW p \in Packages, WipeArtifact(q, p) \/ WipeStamp(q, p)
      PROVE  StampInv'
  BY <1>1, <1>d DEF WipeArtifact, WipeStamp, process
<1>2. CASE WipePolicy \/ WipeDone \/ \E found \in BOOLEAN : Plan(found)
  BY <1>2, <1>b, <1>c DEF WipePolicy, WipeDone, Plan, process, disk
<1>3. CASE StartPrepass \/ StartFinal
  BY <1>3, <1>b, <1>c DEF StartPrepass, StartFinal
<1>4. ASSUME NEW p \in Packages, PrepassCompiles(p) PROVE StampInv'
  <2>1. /\ artifact' = [artifact EXCEPT ![cli.profile][p] = Build(p, "prepass", 0)]
        /\ stamp' = stamp /\ unit' = NoUnit
    BY <1>4, <1>c DEF PrepassCompiles
  <2>2. Proves(stamp[cli.profile][p], Build(p, "prepass", 0))
    BY <1>a, CompiledProves
  <2>3. ASSUME NEW q \in Profiles, NEW r \in Packages, artifact'[q][r] # NoArtifact
        PROVE  Proves(stamp[q][r], artifact'[q][r])
    <3>1. CASE q = cli.profile /\ r = p
      BY <1>a, <2>1, <2>2, <3>1
    <3>2. CASE ~(q = cli.profile /\ r = p)
      <4>1. artifact'[q][r] = artifact[q][r]
        BY <1>a, <2>1, <3>2
      <4> QED
        BY <2>3, <4>1 DEF StampInv
    <3> QED
      BY <3>1, <3>2
  <2> QED
    BY <2>1, <2>3 DEF StampInv
<1>5. CASE PrepassFails \/ FindNoRuntime \/ CaptureRuntime
  BY <1>5, <1>b, <1>c DEF PrepassFails, FindNoRuntime, CaptureRuntime, disk
<1>6. CASE \E q \in Profiles, p \in Packages : CleanPackage(q, p)
  BY <1>a, <1>6, <1>d DEF CleanPackage, process
<1>7. CASE RemoveStamps
  <2>1. \A x \in Profiles, y \in Packages : stamp'[x][y] \in {0, stamp[x][y]}
    BY <1>7 DEF RemoveStamps
  <2>2. artifact' = artifact /\ unit' = NoUnit
    BY <1>c, <1>7 DEF RemoveStamps
  <2> QED
    BY <2>1, <2>2, FewerProve
<1>8. CASE CleanFails \/ FindRuntimeMissing \/ FindRuntimeKept
  BY <1>8, <1>b, <1>c DEF CleanFails, FindRuntimeMissing, FindRuntimeKept, disk
<1>9. ASSUME NEW p \in Packages, NEW form \in Forms, RustcSucceeds(p, form)
      PROVE  StampInv'
  <2> DEFINE b == Build(p, form, IF form = "native" THEN cli.rlib ELSE 0)
  <2>1. /\ unit' = [pkg |-> p, build |-> b] /\ cli' = cli /\ stamp' = stamp
        /\ artifact' = [artifact EXCEPT ![cli.profile][p] = NoArtifact]
    BY <1>9 DEF RustcSucceeds
  <2>2. Proves(stamp[cli.profile][p], b)
    BY <1>a, CompiledProves
  <2> HIDE DEF b
  <2>3. Proves(stamp'[cli'.profile][unit'.pkg], unit'.build)
    BY <2>1, <2>2
  <2>4. \A x \in Profiles, y \in Packages : artifact'[x][y] \in {NoArtifact, artifact[x][y]}
    BY <1>a, <2>1
  <2> QED
    BY <2>1, <2>3, <2>4 DEF StampInv, Proves
<1>10. CASE StampUnit
  <2>1. /\ unit \in Units /\ unit # NoUnit /\ unit.build.form \in Transformed
        /\ cli' = cli /\ artifact' = artifact
        /\ stamp' = [stamp EXCEPT ![cli.profile][unit.pkg] = clock]
    BY <1>a, <1>10 DEF StampUnit
  <2>2. unit'.pkg = unit.pkg /\ unit'.build.form = unit.build.form
    BY <1>10, <2>1 DEF StampUnit, Units, Artifacts
  <2>3. artifact[cli.profile][unit.pkg] = NoArtifact
    BY <2>1 DEF UnitInv
  <2>4. ASSUME NEW q \in Profiles, NEW p \in Packages, artifact[q][p] # NoArtifact
        PROVE  Proves(stamp'[q][p], artifact[q][p])
    <3>1. stamp'[q][p] = stamp[q][p]
      BY <1>a, <2>1, <2>3, <2>4
    <3> QED
      BY <2>4, <3>1 DEF StampInv
  <2>5. Proves(stamp'[cli'.profile][unit'.pkg], unit'.build)
    BY <2>1, <2>2 DEF Proves
  <2> QED
    BY <2>1, <2>4, <2>5 DEF StampInv
<1>11. CASE RecordUnit
  <2>1. /\ unit \in Units /\ unit # NoUnit /\ unit' = NoUnit /\ stamp' = stamp
        /\ artifact' = [artifact EXCEPT ![cli.profile][unit.pkg] = unit.build]
    BY <1>a, <1>11 DEF RecordUnit
  <2>2. Proves(stamp[cli.profile][unit.pkg], unit.build)
    BY <2>1 DEF StampInv
  <2>3. ASSUME NEW q \in Profiles, NEW r \in Packages, artifact'[q][r] # NoArtifact
        PROVE  Proves(stamp[q][r], artifact'[q][r])
    <3>1. CASE q = cli.profile /\ r = unit.pkg
      BY <1>a, <2>1, <2>2, <3>1
    <3>2. CASE ~(q = cli.profile /\ r = unit.pkg)
      <4>1. artifact'[q][r] = artifact[q][r]
        BY <1>a, <2>1, <3>2
      <4> QED
        BY <2>3, <4>1 DEF StampInv
    <3> QED
      BY <3>1, <3>2
  <2> QED
    BY <2>1, <2>3 DEF StampInv
<1>12. CASE BuildFails \/ BuildSucceeds \/ RecordPolicy
  BY <1>12, <1>b, <1>c DEF BuildFails, BuildSucceeds, RecordPolicy, disk
<1>13. ASSUME NEW mode \in Modes, NEW request \in Requests, NEW orchestrated \in BOOLEAN,
              Invoke(mode, request, orchestrated)
       PROVE  StampInv'
  BY <1>13, <1>b, <1>c DEF Invoke, disk
<1>14. CASE Crash \/ \E p \in Packages : Edit(p)
  BY <1>14, <1>b DEF Crash, Edit, disk, process
<1>15. CASE LoseRuntime
  BY <1>a, <1>15, <1>d, PackagesIn DEF LoseRuntime, process
<1> QED
  BY <1>0, <1>1, <1>2, <1>3, <1>4, <1>5, <1>6, <1>7, <1>8, <1>9, <1>10, <1>11, <1>12,
     <1>13, <1>14, <1>15
  DEF Next, Step, Environment

-----------------------------------------------------------------------------
(* What is left of the pre-pass *)

\* A fresh unit with a valid stamp is not of the pre-pass, or is tolerated.
LEMMA NotDirtyKept ==
  ASSUME TypeOK, StampInv, NEW p \in Packages,
         p \in Desired(cli.mode) \ Dirty
  PROVE  Kept(p)
<1>1. cli.profile \in Profiles
  BY LocalsFields DEF TypeOK
<1>2. StampValid(p)
  BY DEF Dirty
<1> QED
  BY <1>1, <1>2 DEF Kept, StampInv, Proves, StampValid, here, Transformed

\* The clean works on the same profiles as long as the arguments are the same.
LEMMA SameRequest ==
  ASSUME cli'.profile = cli.profile, cli'.named = cli.named
  PROVE  CleansWhatItBuilds' = CleansWhatItBuilds
BY DEF CleansWhatItBuilds, CleanedProfiles

\* Artifacts that disappear leave the others as they are.
LEMMA ClearingKeeps ==
  ASSUME TypeOK, NEW q \in Profiles, NEW p \in Packages, NEW r \in Packages, Kept(r),
         cli' = cli, artifact' = [artifact EXCEPT ![q][p] = NoArtifact]
  PROVE  Kept(r)'
BY LocalsFields DEF Kept, TypeOK

LEMMA KeptStep == TypeOK /\ UnitInv /\ StampInv /\ KeptInv /\ [Next]_vars => KeptInv'
<1> SUFFICES ASSUME TypeOK, UnitInv, StampInv, KeptInv, [Next]_vars PROVE KeptInv'
  OBVIOUS
<1>a. /\ cli \in Locals /\ cli.profile \in Profiles /\ cli.mode \in Modes
      /\ Desired(cli.mode) \in SUBSET Packages
      /\ artifact \in [Profiles -> [Packages -> Artifacts \cup {NoArtifact}]]
  BY LocalsFields, PackagesIn DEF TypeOK
<1>0. CASE UNCHANGED vars
  BY <1>0, SameRequest DEF KeptInv, Kept, Desired, vars, disk, process
\* Places where nothing is promised.
<1>b. ASSUME pc' \notin {"clean", "verify", "final", "build", "record"} PROVE KeptInv'
  BY <1>b DEF KeptInv
\* Nothing KeptInv speaks of changes.
<1>c. ASSUME UNCHANGED <<pc, cli, artifact>> PROVE KeptInv'
  BY <1>c, SameRequest DEF KeptInv, Kept, Desired
\* A set is condemned; what is not in it is kept.
<1>d. ASSUME NEW packages, NEW rlib, Condemn(packages, rlib), artifact' = artifact,
             \A p \in Desired(cli.mode) \ packages : Kept(p)
      PROVE  KeptInv'
  <2>1. /\ pc' = "clean" /\ cli'.doomed = packages
        /\ cli'.mode = cli.mode /\ cli'.profile = cli.profile
    BY <1>a, <1>d DEF Condemn, Locals
  <2>2. Desired(cli'.mode) = Desired(cli.mode)
    BY <2>1
  <2> QED
    BY <1>d, <2>1, <2>2 DEF KeptInv, Kept, Desired
\* One artifact is cleared.
<1>e. ASSUME NEW q \in Profiles, NEW p \in Packages, UNCHANGED <<pc, cli>>,
             artifact' = [artifact EXCEPT ![q][p] = NoArtifact]
      PROVE  KeptInv'
  <2>1. ASSUME NEW r \in Packages, Kept(r) PROVE Kept(r)'
    BY <1>e, <2>1, ClearingKeeps
  <2>2. Desired(cli'.mode) = Desired(cli.mode) /\ CleansWhatItBuilds' = CleansWhatItBuilds
    BY <1>e, SameRequest
  <2> QED
    BY <1>a, <1>e, <2>1, <2>2 DEF KeptInv, Desired
<1>1. ASSUME NEW q \in Profiles, NEW p \in Packages, WipeArtifact(q, p) \/ WipeStamp(q, p)
      PROVE  KeptInv'
  BY <1>1, <1>b DEF WipeArtifact, WipeStamp, process
<1>2. CASE WipePolicy \/ WipeDone \/ StartPrepass
  BY <1>2, <1>b DEF WipePolicy, WipeDone, StartPrepass, process
<1>3. ASSUME NEW found \in BOOLEAN, Plan(found) PROVE KeptInv'
  <2>1. /\ cli'.planned = found /\ cli'.orchestrated = cli.orchestrated
        /\ pc' = IF found /\ cli.orchestrated THEN "prepass" ELSE "final"
    BY <1>a, <1>3 DEF Plan, Locals
  <2> QED
    BY <2>1 DEF KeptInv
<1>4. CASE (\E p \in Packages : PrepassCompiles(p)) \/ CleanFails \/ BuildFails \/ RecordPolicy \/ Crash
  BY <1>4, <1>b DEF PrepassCompiles, CleanFails, BuildFails, RecordPolicy, Crash
<1>5. CASE PrepassFails \/ FindRuntimeMissing
  BY <1>5, <1>d DEF PrepassFails, FindRuntimeMissing, disk
<1>6. CASE FindNoRuntime
  <2>1. \A p \in Desired(cli.mode) \ Dirty : Kept(p)
    BY <1>a, NotDirtyKept
  <2> QED
    BY <1>6, <1>d, <2>1 DEF FindNoRuntime, disk
<1>7. CASE CaptureRuntime
  <2>1. CASE Desired(cli.mode) \cap RuntimeClosure = {}
    <3>1. \A p \in Desired(cli.mode) \ (Dirty \ RuntimeClosure) : p \in Desired(cli.mode) \ Dirty
      BY <2>1
    <3>2. \A p \in Desired(cli.mode) \ (Dirty \ RuntimeClosure) : Kept(p)
      BY <1>a, <3>1, NotDirtyKept
    <3> QED
      BY <1>7, <1>d, <2>1, <3>2 DEF CaptureRuntime, disk
  <2>2. CASE Desired(cli.mode) \cap RuntimeClosure # {}
    BY <1>7, <1>d, <2>2 DEF CaptureRuntime, disk
  <2> QED
    BY <2>1, <2>2
<1>8. ASSUME NEW q \in Profiles, NEW p \in Packages, CleanPackage(q, p) PROVE KeptInv'
  BY <1>8, <1>e DEF CleanPackage, process
<1>9. CASE RemoveStamps
  <2>1. /\ pc = "clean" /\ pc' = "verify" /\ artifact' = artifact
        /\ cli'.mode = cli.mode /\ cli'.profile = cli.profile /\ cli'.named = cli.named
        /\ CleansWhatItBuilds => \A p \in cli.doomed : artifact[cli.profile][p] = NoArtifact
    BY <1>a, <1>9 DEF RemoveStamps, Locals, CleansWhatItBuilds
  <2>2. CleansWhatItBuilds => \A p \in Desired(cli.mode) : Kept(p)
    BY <2>1 DEF KeptInv, Kept
  <2>3. Desired(cli'.mode) = Desired(cli.mode) /\ CleansWhatItBuilds' = CleansWhatItBuilds
    BY <2>1, SameRequest
  <2> QED
    BY <2>1, <2>2, <2>3 DEF KeptInv, Kept, Desired
<1>10. CASE FindRuntimeKept
  BY <1>10, SameRequest DEF FindRuntimeKept, KeptInv, Kept, Desired, disk
<1>11. CASE StartFinal
  <2>1. /\ pc = "final" /\ pc' = "build" /\ artifact' = artifact
        /\ cli'.mode = cli.mode /\ cli'.profile = cli.profile /\ cli'.named = cli.named
        /\ cli'.planned = cli.planned /\ cli'.orchestrated = cli.orchestrated
    BY <1>a, <1>11 DEF StartFinal, Locals
  <2>2. Desired(cli'.mode) = Desired(cli.mode) /\ CleansWhatItBuilds' = CleansWhatItBuilds
    BY <2>1, SameRequest
  <2> QED
    BY <2>1, <2>2 DEF KeptInv, Kept, Desired
<1>12. ASSUME NEW p \in Packages, NEW form \in Forms, RustcSucceeds(p, form)
       PROVE  KeptInv'
  BY <1>12, <1>a, <1>e DEF RustcSucceeds
<1>13. CASE StampUnit \/ \E p \in Packages : Edit(p)
  BY <1>13, <1>c DEF StampUnit, Edit, process
<1>14. CASE RecordUnit
  <2>1. /\ pc = "build" /\ pc' = "build"
        /\ artifact' = [artifact EXCEPT ![cli.profile][unit.pkg] = unit.build]
        /\ cli'.mode = cli.mode /\ cli'.profile = cli.profile /\ cli'.named = cli.named
        /\ cli'.planned = cli.planned /\ cli'.orchestrated = cli.orchestrated
    BY <1>a, <1>14 DEF RecordUnit, Locals
  <2>2. unit.build.form # "prepass" /\ unit.pkg \in Packages
    BY <1>14 DEF RecordUnit, UnitInv, TypeOK, Units
  <2>3. ASSUME NEW r \in Packages, Kept(r) PROVE Kept(r)'
    <3>1. CASE r = unit.pkg
      BY <1>a, <2>1, <2>2, <3>1 DEF Kept
    <3>2. CASE r # unit.pkg
      BY <1>a, <2>1, <2>2, <2>3, <3>2 DEF Kept
    <3> QED
      BY <3>1, <3>2
  <2>4. Desired(cli'.mode) = Desired(cli.mode) /\ CleansWhatItBuilds' = CleansWhatItBuilds
    BY <2>1, SameRequest
  <2> QED
    BY <1>a, <2>1, <2>3, <2>4 DEF KeptInv, Desired
<1>15. CASE BuildSucceeds
  BY <1>15, SameRequest DEF BuildSucceeds, KeptInv, Kept, Desired, disk
<1>16. ASSUME NEW mode \in Modes, NEW request \in Requests, NEW orchestrated \in BOOLEAN,
              Invoke(mode, request, orchestrated)
       PROVE  KeptInv'
  BY <1>16, <1>b DEF Invoke
<1>17. CASE LoseRuntime
  BY <1>17, <1>a, <1>e, PackagesIn DEF LoseRuntime, process
<1> QED
  BY <1>0, <1>1, <1>2, <1>3, <1>4, <1>5, <1>6, <1>7, <1>8, <1>9, <1>10, <1>11, <1>12,
     <1>13, <1>14, <1>15, <1>16, <1>17
  DEF Next, Step, Environment

-----------------------------------------------------------------------------
(* What the final build has *)

LEMMA BuiltStep == TypeOK /\ UnitInv /\ BuiltInv /\ [Next]_vars => BuiltInv'
<1> SUFFICES ASSUME TypeOK, UnitInv, BuiltInv, [Next]_vars PROVE BuiltInv'
  OBVIOUS
<1>a. /\ cli \in Locals /\ cli.profile \in Profiles /\ cli.todo \in SUBSET Packages
      /\ artifact \in [Profiles -> [Packages -> Artifacts \cup {NoArtifact}]]
  BY LocalsFields DEF TypeOK
<1>0. CASE UNCHANGED vars
  BY <1>0 DEF BuiltInv, vars, disk, process
<1>b. ASSUME pc' # "build", pc' # "record" PROVE BuiltInv'
  BY <1>b DEF BuiltInv
<1>1. ASSUME NEW q \in Profiles, NEW p \in Packages, WipeArtifact(q, p) \/ WipeStamp(q, p)
      PROVE  BuiltInv'
  BY <1>1, <1>b DEF WipeArtifact, WipeStamp, process
<1>2. CASE WipePolicy \/ WipeDone \/ \E found \in BOOLEAN : Plan(found)
  BY <1>2, <1>b DEF WipePolicy, WipeDone, Plan, process
<1>3. CASE StartPrepass \/ \E p \in Packages : PrepassCompiles(p)
  BY <1>3, <1>b DEF StartPrepass, PrepassCompiles
<1>4. CASE PrepassFails \/ FindNoRuntime \/ CaptureRuntime \/ FindRuntimeMissing
  BY <1>4, <1>b DEF PrepassFails, FindNoRuntime, CaptureRuntime, FindRuntimeMissing, Condemn
<1>5. CASE (\E q \in Profiles, p \in Packages : CleanPackage(q, p)) \/ RemoveStamps \/ CleanFails \/ LoseRuntime
  BY <1>5, <1>b DEF CleanPackage, RemoveStamps, CleanFails, LoseRuntime, process
<1>6. CASE FindRuntimeKept \/ BuildFails \/ RecordPolicy \/ Crash
  BY <1>6, <1>b DEF FindRuntimeKept, BuildFails, RecordPolicy, Crash
<1>7. CASE StartFinal
  <2>1. /\ pc' = "build" /\ artifact' = artifact /\ cli'.profile = cli.profile
        /\ cli'.todo = {p \in Packages : Stale(p)}
    BY <1>a, <1>7 DEF StartFinal, Locals
  <2>2. ASSUME NEW p \in Packages, ~Stale(p) PROVE artifact[cli.profile][p] # NoArtifact
    BY <2>2 DEF Stale, OwnStale, here
  <2> QED
    BY <2>1, <2>2 DEF BuiltInv
<1>8. ASSUME NEW p \in Packages, NEW form \in Forms, RustcSucceeds(p, form)
      PROVE  BuiltInv'
  <2>1. /\ pc = "build" /\ pc' = "build" /\ cli' = cli /\ p \in cli.todo
        /\ artifact' = [artifact EXCEPT ![cli.profile][p] = NoArtifact]
    BY <1>8 DEF RustcSucceeds, Ready
  <2>2. ASSUME NEW r \in Packages \ cli.todo PROVE artifact'[cli.profile][r] # NoArtifact
    BY <1>a, <2>1 DEF BuiltInv
  <2> QED
    BY <2>1, <2>2 DEF BuiltInv
<1>9. CASE StampUnit \/ \E p \in Packages : Edit(p)
  BY <1>9 DEF StampUnit, Edit, BuiltInv, process
<1>10. CASE RecordUnit
  <2>1. /\ pc = "build" /\ pc' = "build" /\ cli'.profile = cli.profile
        /\ cli'.todo = cli.todo \ {unit.pkg}
        /\ artifact' = [artifact EXCEPT ![cli.profile][unit.pkg] = unit.build]
    BY <1>a, <1>10 DEF RecordUnit, Locals
  <2>2. unit.pkg \in Packages /\ unit.build \in Artifacts
    BY <1>10 DEF RecordUnit, TypeOK, Units
  <2>3. ASSUME NEW r \in Packages \ cli'.todo PROVE artifact'[cli.profile][r] # NoArtifact
    <3>1. CASE r = unit.pkg
      BY <1>a, <2>1, <2>2, <3>1, NoArtifactAssumption
    <3>2. CASE r # unit.pkg
      BY <1>a, <2>1, <2>2, <3>2 DEF BuiltInv
    <3> QED
      BY <3>1, <3>2
  <2> QED
    BY <2>1, <2>3 DEF BuiltInv
<1>11. CASE BuildSucceeds
  BY <1>11 DEF BuildSucceeds, BuiltInv, disk
<1>12. ASSUME NEW mode \in Modes, NEW request \in Requests, NEW orchestrated \in BOOLEAN,
              Invoke(mode, request, orchestrated)
       PROVE  BuiltInv'
  BY <1>12, <1>b DEF Invoke
<1> QED
  BY <1>0, <1>1, <1>2, <1>3, <1>4, <1>5, <1>6, <1>7, <1>8, <1>9, <1>10, <1>11, <1>12
  DEF Next, Step, Environment

-----------------------------------------------------------------------------
(* What a repeated invocation finds *)

LEMMA CompiledStep == TypeOK /\ UnitInv /\ CompiledInv /\ [Next]_vars => CompiledInv'
<1> SUFFICES ASSUME TypeOK, UnitInv, CompiledInv, [Next]_vars PROVE CompiledInv'
  OBVIOUS
<1>a. /\ cli \in Locals /\ cli.profile \in Profiles /\ cli.compiled \in SUBSET Packages
      /\ artifact \in [Profiles -> [Packages -> Artifacts \cup {NoArtifact}]]
  BY LocalsFields DEF TypeOK
<1>0. CASE UNCHANGED vars
  BY <1>0 DEF CompiledInv, vars, disk, process
<1>b. ASSUME pc' \notin {"wipe", "plan", "prepass", "precompile", "build", "record"}
      PROVE  CompiledInv'
  BY <1>b DEF CompiledInv
<1>1. ASSUME NEW q \in Profiles, NEW p \in Packages, WipeArtifact(q, p) \/ WipeStamp(q, p)
      PROVE  CompiledInv'
  BY <1>1 DEF WipeArtifact, WipeStamp, CompiledInv, process
<1>2. CASE WipePolicy \/ WipeDone
  BY <1>2 DEF WipePolicy, WipeDone, CompiledInv, process
<1>3. ASSUME NEW found \in BOOLEAN, Plan(found) PROVE CompiledInv'
  <2>1. /\ pc = "plan" /\ pc' \in {"prepass", "final"}
        /\ cli'.compiled = cli.compiled
    BY <1>a, <1>3 DEF Plan, Locals
  <2> QED
    BY <2>1 DEF CompiledInv
<1>4. CASE StartPrepass
  <2>1. pc = "prepass" /\ pc' = "precompile" /\ cli'.compiled = cli.compiled
    BY <1>a, <1>4 DEF StartPrepass, Locals
  <2> QED
    BY <2>1 DEF CompiledInv
<1>5. ASSUME NEW p \in Packages, PrepassCompiles(p) PROVE CompiledInv'
  <2>1. /\ pc = "precompile" /\ pc' = "precompile"
        /\ cli'.compiled = cli.compiled \cup {p} /\ cli'.profile = cli.profile
        /\ artifact' = [artifact EXCEPT ![cli.profile][p] = Build(p, "prepass", 0)]
    BY <1>a, <1>5 DEF PrepassCompiles, Locals
  <2>2. Build(p, "prepass", 0).stamped = FALSE
    BY DEF Build
  <2>3. ASSUME NEW r \in cli'.compiled, artifact'[cli.profile][r] # NoArtifact
        PROVE  ~artifact'[cli.profile][r].stamped
    <3>1. CASE r = p
      BY <1>a, <2>1, <2>2, <3>1
    <3>2. CASE r # p
      BY <1>a, <2>1, <2>3, <3>2 DEF CompiledInv
    <3> QED
      BY <3>1, <3>2
  <2> QED
    BY <2>1, <2>3 DEF CompiledInv
<1>6. CASE PrepassFails \/ FindNoRuntime \/ CaptureRuntime \/ FindRuntimeMissing
  BY <1>6, <1>b DEF PrepassFails, FindNoRuntime, CaptureRuntime, FindRuntimeMissing, Condemn
<1>7. CASE (\E q \in Profiles, p \in Packages : CleanPackage(q, p)) \/ RemoveStamps \/ CleanFails \/ LoseRuntime
  BY <1>7, <1>b DEF CleanPackage, RemoveStamps, CleanFails, LoseRuntime, process
<1>8. CASE FindRuntimeKept \/ BuildFails \/ RecordPolicy \/ Crash
  BY <1>8, <1>b DEF FindRuntimeKept, BuildFails, RecordPolicy, Crash
<1>9. CASE StartFinal
  BY <1>9 DEF StartFinal, CompiledInv
<1>10. ASSUME NEW p \in Packages, NEW form \in Forms, RustcSucceeds(p, form)
       PROVE  CompiledInv'
  BY <1>10 DEF RustcSucceeds, CompiledInv
<1>11. CASE StampUnit \/ RecordUnit \/ BuildSucceeds
  BY <1>11 DEF StampUnit, RecordUnit, BuildSucceeds, CompiledInv, disk
<1>12. CASE \E p \in Packages : Edit(p)
  BY <1>12 DEF Edit, CompiledInv, process
<1>13. ASSUME NEW mode \in Modes, NEW request \in Requests, NEW orchestrated \in BOOLEAN,
              Invoke(mode, request, orchestrated)
       PROVE  CompiledInv'
  <2>1. cli'.compiled = {} /\ pc' \in {"wipe", "plan"}
    BY <1>13 DEF Invoke, Idle
  <2> QED
    BY <2>1 DEF CompiledInv
<1> QED
  BY <1>0, <1>1, <1>2, <1>3, <1>4, <1>5, <1>6, <1>7, <1>8, <1>9, <1>10, <1>11, <1>12, <1>13
  DEF Next, Step, Environment

\* What is desired and not dirty has its stamp; what is dirty is not stamped, if
\* before the pre-pass every stamped artifact had its stamp.
LEMMA NotDirtyStands ==
  ASSUME NEW p \in Desired(cli.mode) \ Dirty
  PROVE  Stands(cli.profile, p)
BY DEF Dirty, StampValid, Stands, here

LEMMA DirtyUnstamped ==
  ASSUME CompiledInv, pc = "precompile", NEW p \in Dirty, Stands(cli.profile, p),
         artifact[cli.profile][p] # NoArtifact
  PROVE  ~artifact[cli.profile][p].stamped
<1>1. CASE p \in cli.compiled
  BY <1>1 DEF CompiledInv
<1>2. CASE ~StampValid(p)
  BY <1>2 DEF StampValid, Stands, here
<1> QED
  BY <1>1, <1>2 DEF Dirty

LEMMA ClearingStands ==
  ASSUME TypeOK, NEW q \in Profiles, NEW p \in Packages, NEW r \in Packages,
         Stands(cli.profile, r), cli' = cli, stamp' = stamp,
         artifact' = [artifact EXCEPT ![q][p] = NoArtifact]
  PROVE  Stands(cli.profile, r)'
BY LocalsFields DEF Stands, TypeOK

LEMMA StandStep ==
  ASSUME \A d, p \in Packages : <<d, p>> \in StampPrefixOf => d = p
  PROVE  TypeOK /\ UnitInv /\ StandInv /\ [Next]_vars => StandInv'
<1> SUFFICES ASSUME TypeOK, UnitInv, StandInv, [Next]_vars PROVE StandInv'
  OBVIOUS
<1>a. /\ cli \in Locals /\ cli.profile \in Profiles /\ cli.mode \in Modes
      /\ Desired(cli.mode) \in SUBSET Packages
      /\ cli.doomed \in SUBSET Packages
      /\ artifact \in [Profiles -> [Packages -> Artifacts \cup {NoArtifact}]]
      /\ stamp \in [Profiles -> [Packages -> 0 .. clock]] /\ clock \in Nat
      /\ unit \in Units \cup {NoUnit}
  BY LocalsFields, PackagesIn DEF TypeOK
<1>c. pc # "build" => unit = NoUnit
  BY DEF UnitInv
<1>0. CASE UNCHANGED vars
  BY <1>0, SameRequest DEF StandInv, Stands, Desired, vars, disk, process
\* Places where nothing is promised.
<1>b. ASSUME pc' \notin {"clean", "verify", "final", "build", "record"}, unit' = NoUnit
      PROVE  StandInv'
  BY <1>b DEF StandInv
<1>d. ASSUME NEW packages, NEW rlib, Condemn(packages, rlib),
             artifact' = artifact, stamp' = stamp, unit' = NoUnit,
             \A p \in Desired(cli.mode) \ packages : Stands(cli.profile, p)
      PROVE  StandInv'
  <2>1. /\ pc' = "clean" /\ cli'.doomed = packages
        /\ cli'.mode = cli.mode /\ cli'.profile = cli.profile
    BY <1>a, <1>d DEF Condemn, Locals
  <2>2. Desired(cli'.mode) = Desired(cli.mode)
    BY <2>1
  <2> QED
    BY <1>d, <2>1, <2>2 DEF StandInv, Stands, Desired
<1>e. ASSUME NEW q \in Profiles, NEW p \in Packages, UNCHANGED <<pc, cli, stamp>>,
             artifact' = [artifact EXCEPT ![q][p] = NoArtifact],
             unit' = NoUnit \/ ~unit'.build.stamped
      PROVE  StandInv'
  <2>1. ASSUME NEW r \in Packages, Stands(cli.profile, r) PROVE Stands(cli.profile, r)'
    BY <1>e, <2>1, ClearingStands
  <2>2. /\ Desired(cli'.mode) = Desired(cli.mode) /\ cli' = cli /\ pc' = pc
        /\ CleansWhatItBuilds' = CleansWhatItBuilds
    BY <1>e, SameRequest
  <2>3. unit' # NoUnit => ~unit'.build.stamped
    BY <1>e
  <2> QED
    BY <1>a, <2>1, <2>2, <2>3 DEF StandInv, Desired
<1>1. ASSUME NEW q \in Profiles, NEW p \in Packages, WipeArtifact(q, p) \/ WipeStamp(q, p)
      PROVE  StandInv'
  BY <1>1, <1>b, <1>c DEF WipeArtifact, WipeStamp, process
<1>2. CASE WipePolicy \/ WipeDone \/ StartPrepass
  BY <1>2, <1>b, <1>c DEF WipePolicy, WipeDone, StartPrepass, process
<1>3. ASSUME NEW found \in BOOLEAN, Plan(found) PROVE StandInv'
  <2>1. /\ cli'.planned = found /\ cli'.orchestrated = cli.orchestrated
        /\ pc' = IF found /\ cli.orchestrated THEN "prepass" ELSE "final"
        /\ unit' = NoUnit
    BY <1>a, <1>c, <1>3 DEF Plan, Locals
  <2> QED
    BY <2>1 DEF StandInv
<1>4. CASE (\E p \in Packages : PrepassCompiles(p)) \/ CleanFails \/ BuildFails \/ RecordPolicy \/ Crash
  BY <1>4, <1>b, <1>c DEF PrepassCompiles, CleanFails, BuildFails, RecordPolicy, Crash
<1>5. CASE PrepassFails \/ FindRuntimeMissing
  BY <1>5, <1>c, <1>d DEF PrepassFails, FindRuntimeMissing, disk
<1>6. CASE FindNoRuntime
  <2>1. \A p \in Desired(cli.mode) \ Dirty : Stands(cli.profile, p)
    BY NotDirtyStands
  <2> QED
    BY <1>6, <1>c, <1>d, <2>1 DEF FindNoRuntime, disk
<1>7. CASE CaptureRuntime
  <2>1. CASE Desired(cli.mode) \cap RuntimeClosure = {}
    <3>1. \A p \in Desired(cli.mode) \ (Dirty \ RuntimeClosure) : p \in Desired(cli.mode) \ Dirty
      BY <2>1
    <3>2. \A p \in Desired(cli.mode) \ (Dirty \ RuntimeClosure) : Stands(cli.profile, p)
      BY <3>1, NotDirtyStands
    <3> QED
      BY <1>7, <1>c, <1>d, <2>1, <3>2 DEF CaptureRuntime, disk
  <2>2. CASE Desired(cli.mode) \cap RuntimeClosure # {}
    BY <1>7, <1>c, <1>d, <2>2 DEF CaptureRuntime, disk
  <2> QED
    BY <2>1, <2>2
<1>8. ASSUME NEW q \in Profiles, NEW p \in Packages, CleanPackage(q, p) PROVE StandInv'
  BY <1>8, <1>c, <1>e DEF CleanPackage, process
<1>9. CASE RemoveStamps
  <2>1. /\ pc = "clean" /\ pc' = "verify" /\ artifact' = artifact /\ unit' = NoUnit
        /\ cli'.mode = cli.mode /\ cli'.profile = cli.profile /\ cli'.named = cli.named
        /\ CleansWhatItBuilds => \A p \in cli.doomed : artifact[cli.profile][p] = NoArtifact
    BY <1>a, <1>c, <1>9 DEF RemoveStamps, Locals, CleansWhatItBuilds
  <2>2. ASSUME NEW p \in Packages \ cli.doomed PROVE stamp'[cli.profile][p] = stamp[cli.profile][p]
    BY <1>a, <1>9 DEF RemoveStamps
  <2>3. ASSUME CleansWhatItBuilds, NEW p \in Desired(cli.mode) PROVE Stands(cli.profile, p)'
    <3>1. CASE p \in cli.doomed
      BY <2>1, <2>3, <3>1 DEF Stands
    <3>2. CASE p \notin cli.doomed
      BY <1>a, <2>1, <2>2, <3>2 DEF StandInv, Stands
    <3> QED
      BY <3>1, <3>2
  <2>4. Desired(cli'.mode) = Desired(cli.mode) /\ CleansWhatItBuilds' = CleansWhatItBuilds
    BY <2>1, SameRequest
  <2> QED
    BY <2>1, <2>3, <2>4 DEF StandInv, Stands, Desired
<1>10. CASE FindRuntimeKept
  BY <1>10, <1>c, SameRequest DEF FindRuntimeKept, StandInv, Stands, Desired, disk
<1>11. CASE StartFinal
  <2>1. /\ pc = "final" /\ pc' = "build" /\ artifact' = artifact /\ stamp' = stamp
        /\ unit' = NoUnit
        /\ cli'.mode = cli.mode /\ cli'.profile = cli.profile /\ cli'.named = cli.named
        /\ cli'.planned = cli.planned /\ cli'.orchestrated = cli.orchestrated
    BY <1>a, <1>c, <1>11 DEF StartFinal, Locals
  <2>2. Desired(cli'.mode) = Desired(cli.mode) /\ CleansWhatItBuilds' = CleansWhatItBuilds
    BY <2>1, SameRequest
  <2> QED
    BY <2>1, <2>2 DEF StandInv, Stands, Desired
<1>12. ASSUME NEW p \in Packages, NEW form \in Forms, RustcSucceeds(p, form)
       PROVE  StandInv'
  <2>1. ~unit'.build.stamped
    BY <1>12 DEF RustcSucceeds, Build
  <2> QED
    BY <1>12, <1>a, <1>e, <2>1 DEF RustcSucceeds
<1>13. CASE \E p \in Packages : Edit(p)
  BY <1>13, SameRequest DEF Edit, StandInv, Stands, Desired, process
<1>14. CASE StampUnit
  <2>1. /\ unit \in Units /\ unit # NoUnit /\ pc' = pc /\ cli' = cli /\ artifact' = artifact
        /\ stamp' = [stamp EXCEPT ![cli.profile][unit.pkg] = clock]
    BY <1>a, <1>14 DEF StampUnit
  <2>2. unit.pkg \in Packages /\ unit'.pkg = unit.pkg /\ unit'.build.at = unit.build.at
    BY <1>14, <2>1 DEF StampUnit, Units, Artifacts
  <2>3. stamp'[cli.profile][unit.pkg] = clock
    BY <1>a, <2>1, <2>2
  <2>4. artifact[cli.profile][unit.pkg] = NoArtifact /\ pc = "build"
    BY <2>1 DEF UnitInv
  <2>5. ASSUME NEW p \in Packages, Stands(cli.profile, p) PROVE Stands(cli.profile, p)'
    BY <1>a, <2>1, <2>2, <2>4, <2>5 DEF Stands
  <2>6. clock # 0 /\ clock + Slack >= unit.build.at
    BY <1>a, <2>1, BuildAssumption DEF UnitInv
  <2>7. Desired(cli'.mode) = Desired(cli.mode) /\ CleansWhatItBuilds' = CleansWhatItBuilds
    BY <2>1, SameRequest
  <2> QED
    BY <1>a, <2>1, <2>2, <2>3, <2>4, <2>5, <2>6, <2>7 DEF StandInv, Desired
<1>15. CASE RecordUnit
  <2>1. /\ pc = "build" /\ pc' = "build" /\ stamp' = stamp /\ unit' = NoUnit
        /\ unit # NoUnit /\ unit \in Units
        /\ artifact' = [artifact EXCEPT ![cli.profile][unit.pkg] = unit.build]
        /\ cli'.mode = cli.mode /\ cli'.profile = cli.profile /\ cli'.named = cli.named
        /\ cli'.planned = cli.planned /\ cli'.orchestrated = cli.orchestrated
    BY <1>a, <1>15 DEF RecordUnit, Locals
  <2>2. unit.pkg \in Packages
    BY <2>1 DEF Units
  <2>3. ASSUME NEW r \in Packages, Stands(cli.profile, r) PROVE Stands(cli.profile, r)'
    <3>1. CASE r = unit.pkg
      BY <1>a, <2>1, <2>2, <3>1 DEF Stands, StandInv
    <3>2. CASE r # unit.pkg
      BY <1>a, <2>1, <2>2, <2>3, <3>2 DEF Stands
    <3> QED
      BY <3>1, <3>2
  <2>4. Desired(cli'.mode) = Desired(cli.mode) /\ CleansWhatItBuilds' = CleansWhatItBuilds
    BY <2>1, SameRequest
  <2> QED
    BY <1>a, <2>1, <2>3, <2>4 DEF StandInv, Desired
<1>16. CASE BuildSucceeds
  BY <1>16, SameRequest DEF BuildSucceeds, StandInv, Stands, Desired, disk
<1>17. ASSUME NEW mode \in Modes, NEW request \in Requests, NEW orchestrated \in BOOLEAN,
              Invoke(mode, request, orchestrated)
       PROVE  StandInv'
  BY <1>17, <1>b, <1>c DEF Invoke
<1>18. CASE LoseRuntime
  BY <1>18, <1>a, <1>c, <1>e, PackagesIn DEF LoseRuntime, process
<1> QED
  BY <1>0, <1>1, <1>2, <1>3, <1>4, <1>5, <1>6, <1>7, <1>8, <1>9, <1>10, <1>11, <1>12,
     <1>13, <1>14, <1>15, <1>16, <1>17, <1>18
  DEF Next, Step, Environment

LEMMA SettledStep ==
  TypeOK /\ UnitInv /\ StandInv /\ CompiledInv /\ SettledInv /\ [Next]_vars => SettledInv'
<1> SUFFICES ASSUME TypeOK, UnitInv, StandInv, CompiledInv, SettledInv, [Next]_vars
             PROVE  SettledInv'
  OBVIOUS
<1>a. /\ cli \in Locals /\ cli.profile \in Profiles /\ cli.mode \in Modes
      /\ Desired(cli.mode) \in SUBSET Packages
      /\ artifact \in [Profiles -> [Packages -> Artifacts \cup {NoArtifact}]]
      /\ stamp \in [Profiles -> [Packages -> 0 .. clock]]
      /\ "none" \notin Modes
  BY LocalsFields, PackagesIn DEF TypeOK, Modes
<1>0. CASE UNCHANGED vars
  BY <1>0 DEF SettledInv, Repeats, Stands, Desired, vars, disk, process
\* Places where nothing is promised, and steps that unsettle.
<1>b. ASSUME pc' \in {"final", "build", "record"} PROVE SettledInv'
  BY <1>b DEF SettledInv
<1>c. ASSUME settled' = NotSettled, cli' \in Locals PROVE SettledInv'
  <2>1. settled'.mode = "none" /\ cli'.mode # "none"
    BY <1>a, <1>c DEF NotSettled, Locals
  <2>2. ~Repeats'
    BY <2>1 DEF Repeats
  <2> QED
    BY <2>1, <2>2 DEF SettledInv
<1>d. cli' \in Locals
  BY TypeStep DEF TypeOK
<1>1. ASSUME NEW q \in Profiles, NEW p \in Packages, WipeArtifact(q, p) \/ WipeStamp(q, p)
      PROVE  SettledInv'
  BY <1>1 DEF WipeArtifact, WipeStamp, SettledInv, Repeats, process
<1>2. CASE WipePolicy
  BY <1>2 DEF WipePolicy, SettledInv, Repeats, process
<1>3. CASE WipeDone
  BY <1>3 DEF WipeDone, SettledInv, Repeats
<1>4. ASSUME NEW found \in BOOLEAN, Plan(found) PROVE SettledInv'
  <2>1. /\ pc = "plan" /\ pc' \in {"prepass", "final"}
        /\ cli'.mode = cli.mode /\ cli'.profile = cli.profile
        /\ UNCHANGED <<artifact, stamp, settled>>
    BY <1>a, <1>4 DEF Plan, Locals, disk
  <2> QED
    BY <2>1 DEF SettledInv, Repeats, Stands, Desired
<1>5. CASE StartPrepass
  <2>1. /\ pc = "prepass" /\ pc' = "precompile"
        /\ cli'.mode = cli.mode /\ cli'.profile = cli.profile
        /\ UNCHANGED <<artifact, stamp, settled>>
    BY <1>a, <1>5 DEF StartPrepass, Locals
  <2> QED
    BY <2>1 DEF SettledInv, Repeats, Stands, Desired
<1>6. ASSUME NEW p \in Packages, PrepassCompiles(p) PROVE SettledInv'
  <2>1. /\ pc = "precompile" /\ pc' = "precompile"
        /\ cli'.mode = cli.mode /\ cli'.profile = cli.profile
        /\ UNCHANGED <<stamp, settled>>
        /\ artifact' = [artifact EXCEPT ![cli.profile][p] = Build(p, "prepass", 0)]
    BY <1>a, <1>6 DEF PrepassCompiles, Locals
  <2>2. Build(p, "prepass", 0).stamped = FALSE
    BY DEF Build
  <2>3. ASSUME NEW r \in Packages, Stands(cli.profile, r) PROVE Stands(cli.profile, r)'
    <3>1. CASE r = p
      BY <1>a, <2>1, <2>2, <3>1 DEF Stands
    <3>2. CASE r # p
      BY <1>a, <2>1, <2>3, <3>2 DEF Stands
    <3> QED
      BY <3>1, <3>2
  <2>4. Desired(cli'.mode) = Desired(cli.mode) /\ Repeats' = Repeats
    BY <2>1 DEF Repeats
  <2> QED
    BY <1>a, <2>1, <2>3, <2>4 DEF SettledInv, Desired
<1>7. CASE PrepassFails \/ CleanFails \/ BuildFails \/ Crash \/ LoseRuntime
  BY <1>7, <1>c, <1>d DEF PrepassFails, CleanFails, BuildFails, Crash, LoseRuntime
<1>8. CASE \E p \in Packages : Edit(p)
  BY <1>8, <1>c, <1>d DEF Edit
\* A repeated invocation condemns nothing that is stamped, nor the runtime.
<1>e. ASSUME NEW packages, NEW rlib, Condemn(packages, rlib),
             UNCHANGED <<artifact, settled>>,
             Repeats /\ Desired(cli.mode) \cap RuntimeClosure = {} =>
               /\ \A p \in packages :
                    artifact[cli.profile][p] # NoArtifact => ~artifact[cli.profile][p].stamped
               /\ rlib # 0 => Runtime \notin packages /\ artifact[cli.profile][Runtime] # NoArtifact
      PROVE  SettledInv'
  <2>1. /\ pc' = "clean" /\ cli'.doomed = packages /\ cli'.rlib = rlib
        /\ cli'.mode = cli.mode /\ cli'.profile = cli.profile
    BY <1>a, <1>e DEF Condemn, Locals
  <2>2. Desired(cli'.mode) = Desired(cli.mode) /\ Repeats' = Repeats
    BY <1>e, <2>1 DEF Repeats
  <2> QED
    BY <1>e, <2>1, <2>2 DEF SettledInv, Desired
<1>f. ASSUME pc = "precompile", Repeats, NEW p \in Dirty,
             artifact[cli.profile][p] # NoArtifact
      PROVE  ~artifact[cli.profile][p].stamped
  <2>1. Stands(cli.profile, p)
    BY <1>f DEF SettledInv, Dirty
  <2> QED
    BY <1>f, <2>1, DirtyUnstamped
<1>9. CASE FindNoRuntime
  BY <1>9, <1>e, <1>f DEF FindNoRuntime, disk
<1>10. CASE CaptureRuntime
  <2>1. CASE Desired(cli.mode) \cap RuntimeClosure = {}
    <3>1. Runtime \notin Dirty \ RuntimeClosure
      BY BuildAssumption
    <3>2. artifact[cli.profile][Runtime] # NoArtifact
      BY <1>10 DEF CaptureRuntime, here
    <3> QED
      BY <1>10, <1>e, <1>f, <2>1, <3>1, <3>2 DEF CaptureRuntime, disk
  <2>2. CASE Desired(cli.mode) \cap RuntimeClosure # {}
    BY <1>10, <1>e, <2>2 DEF CaptureRuntime, disk
  <2> QED
    BY <2>1, <2>2
<1>11. ASSUME NEW q \in Profiles, NEW p \in Packages, CleanPackage(q, p) PROVE SettledInv'
  <2>1. /\ pc = "clean" /\ pc' = "clean" /\ cli' = cli /\ settled' = settled
        /\ p \in cli.doomed
        /\ artifact[q][p] # NoArtifact
        /\ artifact' = [artifact EXCEPT ![q][p] = NoArtifact]
    BY <1>11 DEF CleanPackage, process
  <2>2. ASSUME NEW r \in Packages
        PROVE  artifact'[cli.profile][r] =
                 IF q = cli.profile /\ r = p THEN NoArtifact ELSE artifact[cli.profile][r]
    BY <1>a, <2>1
  <2>3. cli.doomed \in SUBSET Packages
    BY LocalsFields, <1>a
  <2>4. Repeats' = Repeats /\ Desired(cli'.mode) = Desired(cli.mode)
    BY <2>1 DEF Repeats
  <2> QED
    BY <1>a, <2>1, <2>2, <2>3, <2>4, PackagesIn DEF SettledInv, Desired
<1>12. CASE RemoveStamps
  <2>1. /\ pc = "clean" /\ pc' = "verify" /\ artifact' = artifact /\ settled' = settled
        /\ cli'.mode = cli.mode /\ cli'.profile = cli.profile
        /\ cli'.doomed = {} /\ cli'.rlib = cli.rlib
    BY <1>a, <1>12 DEF RemoveStamps, Locals
  <2>2. Repeats' = Repeats /\ Desired(cli'.mode) = Desired(cli.mode)
    BY <2>1 DEF Repeats
  <2> QED
    BY <2>1, <2>2 DEF SettledInv, Desired
<1>13. CASE FindRuntimeMissing
  <2>1. /\ pc = "verify" /\ cli.rlib # 0 /\ artifact[cli.profile][Runtime] = NoArtifact
    BY <1>13 DEF FindRuntimeMissing, here
  <2>2. ~(Repeats /\ Desired(cli.mode) \cap RuntimeClosure = {})
    BY <2>1 DEF SettledInv
  <2> QED
    BY <1>13, <1>e, <2>2 DEF FindRuntimeMissing, disk
<1>14. CASE FindRuntimeKept \/ StartFinal \/ StampUnit \/ RecordUnit \/ BuildSucceeds
  BY <1>14, <1>b DEF FindRuntimeKept, StartFinal, StampUnit, RecordUnit, BuildSucceeds
<1>15. ASSUME NEW p \in Packages, NEW form \in Forms, RustcSucceeds(p, form)
       PROVE  SettledInv'
  BY <1>15, <1>b DEF RustcSucceeds
<1>16. CASE RecordPolicy
  <2>1. /\ pc = "record" /\ pc' = "idle" /\ policyFile' = cli.mode
        /\ UNCHANGED <<artifact, stamp, dirExists>>
    BY <1>16 DEF RecordPolicy
  <2>2. CASE cli.planned /\ cli.orchestrated /\ CleansWhatItBuilds
    <3>1. settled' = [mode |-> cli.mode, profile |-> cli.profile]
      BY <1>16, <2>2 DEF RecordPolicy
    <3>2. \A p \in Desired(cli.mode) : Stands(cli.profile, p)
      BY <2>1, <2>2 DEF StandInv
    <3>3. dirExists
      BY <2>1 DEF CompiledInv
    <3>4. settled'.mode = cli.mode /\ settled'.profile = cli.profile
      BY <3>1
    <3> QED
      BY <2>1, <3>2, <3>3, <3>4 DEF SettledInv, Stands, Desired
  <2>3. CASE ~(cli.planned /\ cli.orchestrated /\ CleansWhatItBuilds)
    BY <1>16, <1>c, <1>d, <2>3 DEF RecordPolicy
  <2> QED
    BY <2>2, <2>3
<1>17. ASSUME NEW mode \in Modes, NEW request \in Requests, NEW orchestrated \in BOOLEAN,
              Invoke(mode, request, orchestrated)
       PROVE  SettledInv'
  <2>1. /\ pc = "idle" /\ cli'.mode = mode /\ cli'.profile = request.profile
        /\ pc' = IF PolicyDiffers(mode) THEN "wipe" ELSE "plan"
        /\ UNCHANGED <<artifact, stamp, settled>>
    BY <1>17 DEF Invoke, Idle, disk
  <2>2. CASE ~Repeats'
    BY <2>1, <2>2 DEF SettledInv
  <2>3. CASE Repeats'
    <3>1. settled.mode = mode /\ settled.profile = request.profile
      BY <2>1, <2>3 DEF Repeats
    <3>2. /\ policyFile = mode /\ dirExists
          /\ \A p \in Desired(mode) : Stands(request.profile, p)
      BY <1>a, <2>1, <3>1 DEF SettledInv
    <3>3. ~PolicyDiffers(mode)
      BY <1>a, <3>2 DEF PolicyDiffers
    <3> QED
      BY <2>1, <3>2, <3>3 DEF SettledInv, Stands, Desired
  <2> QED
    BY <2>2, <2>3
<1> QED
  BY <1>0, <1>1, <1>2, <1>3, <1>4, <1>5, <1>6, <1>7, <1>8, <1>9, <1>10, <1>11, <1>12,
     <1>13, <1>14, <1>15, <1>16, <1>17
  DEF Next, Step, Environment

-----------------------------------------------------------------------------
(* Two policies, with no profile named *)

\* A removal makes nothing worse.
LEMMA OwnRemoved ==
  ASSUME TypeOK, OwnInv, NEW q \in Profiles, NEW p \in Packages,
         artifact' = [artifact EXCEPT ![q][p] = NoArtifact],
         policyFile' = policyFile, dirExists' = dirExists
  PROVE  /\ Own => Own'
         /\ ~dirExists' => \A x \in Profiles, r \in Packages : artifact'[x][r] = NoArtifact
<1>1. artifact \in [Profiles -> [Packages -> Artifacts \cup {NoArtifact}]]
  BY DEF TypeOK
<1>2. \A x \in Profiles, r \in Packages : artifact'[x][r] \in {artifact[x][r], NoArtifact}
  BY <1>1
<1> QED
  BY <1>2 DEF Own, OwnInv

\* Something compiled under the policy of the invocation is added.
LEMMA OwnAdded ==
  ASSUME TypeOK, OwnInv, pc \in {"precompile", "build"},
         NEW p \in Packages, NEW a, a.policy = cli.mode,
         artifact' = [artifact EXCEPT ![cli.profile][p] = a],
         policyFile' = policyFile, dirExists' = dirExists, pc' = pc,
         cli'.mode = cli.mode, cli'.named = cli.named,
         unit' \in {unit, NoUnit}
  PROVE  OwnInv'
<1>1. /\ artifact \in [Profiles -> [Packages -> Artifacts \cup {NoArtifact}]]
      /\ cli.profile \in Profiles
  BY LocalsFields DEF TypeOK
<1>2. \A x \in Profiles, r \in Packages : artifact'[x][r] \in {artifact[x][r], a}
  BY <1>1
<1>3. cli.mode = "dependencies-v1" => Own'
  BY <1>2 DEF Own, OwnInv
<1>4. cli.mode # "dependencies-v1" => policyFile' # "dependencies-v1"
  BY DEF OwnInv
<1>5. policyFile' = "dependencies-v1" => Own'
  BY <1>3, <1>4
<1> QED
  BY <1>3, <1>4, <1>5 DEF OwnInv

LEMMA OwnStep ==
  ASSUME \A request \in Requests : request.named = {}
  PROVE  TypeOK /\ UnitInv /\ OwnInv /\ [Next]_vars => OwnInv'
<1> SUFFICES ASSUME TypeOK, UnitInv, OwnInv, [Next]_vars PROVE OwnInv'
  OBVIOUS
<1>a. /\ cli \in Locals /\ cli.profile \in Profiles /\ cli.mode \in Modes
      /\ artifact \in [Profiles -> [Packages -> Artifacts \cup {NoArtifact}]]
      /\ unit \in Units \cup {NoUnit}
      /\ WipedProfiles = Profiles
  BY LocalsFields DEF TypeOK, OwnInv, WipedProfiles
<1>0. CASE UNCHANGED vars
  BY <1>0 DEF OwnInv, Own, vars, disk, process
\* Steps that leave the directory as it is, and the invocation where it is.
<1>b. ASSUME UNCHANGED <<artifact, policyFile, dirExists>>,
             cli'.mode = cli.mode, cli'.named = cli.named, pc \notin {"idle", "wipe"},
             pc' \notin {"precompile", "build", "record"}, unit' = unit
      PROVE  OwnInv'
  BY <1>b DEF OwnInv, Own
\* Every end of an invocation before its build is finished.
<1>c. ASSUME UNCHANGED <<artifact, policyFile, dirExists>>, pc' = "idle", cli' = Idle,
             unit' = NoUnit
      PROVE  OwnInv'
  <2>1. cli'.named = {}
    BY <1>c DEF Idle
  <2> QED
    BY <1>c, <2>1 DEF OwnInv, Own
<1>1. ASSUME NEW q \in Profiles, NEW p \in Packages, WipeArtifact(q, p) PROVE OwnInv'
  BY <1>1, OwnRemoved DEF WipeArtifact, OwnInv, process
<1>2. ASSUME NEW q \in Profiles, NEW p \in Packages, WipeStamp(q, p) PROVE OwnInv'
  BY <1>2 DEF WipeStamp, OwnInv, Own, process
<1>3. CASE WipePolicy
  BY <1>3 DEF WipePolicy, OwnInv, Own, process
<1>4. CASE WipeDone
  <2>1. \A q \in Profiles, p \in Packages : artifact'[q][p] = NoArtifact
    BY <1>4, <1>a DEF WipeDone
  <2>2. policyFile' = "none" /\ pc' = "plan" /\ unit' = unit /\ cli' = cli
    BY <1>4, <1>a DEF WipeDone
  <2> QED
    BY <2>1, <2>2 DEF OwnInv, Own
<1>5. ASSUME NEW found \in BOOLEAN, Plan(found) PROVE OwnInv'
  <2>1. cli'.mode = cli.mode /\ cli'.named = cli.named
    BY <1>a, <1>5 DEF Plan, Locals
  <2> QED
    BY <1>5, <1>b, <2>1 DEF Plan, disk
<1>6. CASE StartPrepass
  <2>1. cli'.mode = cli.mode /\ cli'.named = cli.named
    BY <1>a, <1>6 DEF StartPrepass, Locals
  <2> QED
    BY <1>6, <2>1 DEF StartPrepass, OwnInv, Own
<1>7. ASSUME NEW p \in Packages, PrepassCompiles(p) PROVE OwnInv'
  <2>1. cli'.mode = cli.mode /\ cli'.named = cli.named
    BY <1>a, <1>7 DEF PrepassCompiles, Locals
  <2>2. Build(p, "prepass", 0).policy = cli.mode
    BY DEF Build
  <2> QED
    BY <1>7, <2>1, <2>2, OwnAdded DEF PrepassCompiles
<1>8. CASE PrepassFails \/ FindNoRuntime \/ CaptureRuntime \/ FindRuntimeMissing
  <2>1. ASSUME NEW packages, NEW rlib, Condemn(packages, rlib) PROVE cli'.mode = cli.mode /\ cli'.named = cli.named
    BY <1>a, <2>1 DEF Condemn, Locals
  <2>2. /\ cli'.mode = cli.mode /\ cli'.named = cli.named /\ pc \in {"precompile", "verify"} /\ pc' = "clean"
        /\ UNCHANGED <<disk, unit>>
    BY <1>8, <2>1 DEF PrepassFails, FindNoRuntime, CaptureRuntime, FindRuntimeMissing, Condemn
  <2> QED
    BY <1>b, <2>2 DEF disk
<1>9. ASSUME NEW q \in Profiles, NEW p \in Packages, CleanPackage(q, p) PROVE OwnInv'
  BY <1>9, <1>a, OwnRemoved DEF CleanPackage, OwnInv, process
<1>10. CASE RemoveStamps
  <2>1. cli'.mode = cli.mode /\ cli'.named = cli.named
    BY <1>a, <1>10 DEF RemoveStamps, Locals
  <2> QED
    BY <1>10, <1>b, <2>1 DEF RemoveStamps
<1>11. CASE CleanFails \/ BuildFails \/ Crash
  <2>1. unit' = NoUnit
    BY <1>11 DEF CleanFails, BuildFails, Crash, UnitInv
  <2> QED
    BY <1>11, <1>c, <2>1 DEF CleanFails, BuildFails, Crash, disk
<1>12. CASE FindRuntimeKept
  BY <1>12, <1>b DEF FindRuntimeKept, disk
<1>13. CASE StartFinal
  <2>1. cli'.mode = cli.mode /\ cli'.named = cli.named
    BY <1>a, <1>13 DEF StartFinal, Locals
  <2> QED
    BY <1>13, <2>1 DEF StartFinal, OwnInv, Own
<1>14. ASSUME NEW p \in Packages, NEW form \in Forms, RustcSucceeds(p, form) PROVE OwnInv'
  <2>1. unit'.build.policy = cli.mode
    BY <1>14 DEF RustcSucceeds, Build
  <2> QED
    BY <1>14, <1>a, <2>1, OwnRemoved DEF RustcSucceeds, OwnInv
<1>15. CASE StampUnit
  <2>1. unit'.build.policy = unit.build.policy
    BY <1>15, <1>a DEF StampUnit, Units, Artifacts
  <2> QED
    BY <1>15, <2>1 DEF StampUnit, OwnInv, Own
<1>16. CASE RecordUnit
  <2>1. /\ cli'.mode = cli.mode /\ cli'.named = cli.named
        /\ unit.pkg \in Packages /\ unit.build.policy = cli.mode
    BY <1>a, <1>16 DEF RecordUnit, Locals, Units, OwnInv
  <2> QED
    BY <1>16, <2>1, OwnAdded DEF RecordUnit
<1>17. CASE BuildSucceeds
  BY <1>17 DEF BuildSucceeds, OwnInv, Own, disk
<1>18. CASE RecordPolicy
  <2>1. unit = NoUnit
    BY <1>18 DEF RecordPolicy, UnitInv
  <2>2. cli'.named = {}
    BY <1>18 DEF RecordPolicy, Idle
  <2> QED
    BY <1>18, <2>1, <2>2 DEF RecordPolicy, OwnInv, Own
<1>19. ASSUME NEW mode \in Modes, NEW request \in Requests, NEW orchestrated \in BOOLEAN,
              Invoke(mode, request, orchestrated)
       PROVE  OwnInv'
  <2>1. /\ cli'.mode = mode /\ cli'.named = {} /\ unit' = NoUnit /\ pc' \in {"wipe", "plan"}
        /\ pc' = "plan" => ~PolicyDiffers(mode)
        /\ UNCHANGED <<artifact, policyFile, dirExists>>
    BY <1>19 DEF Invoke, Idle, UnitInv, disk
  <2>2. ~PolicyDiffers(mode) =>
          /\ mode = "dependencies-v1" => Own
          /\ mode # "dependencies-v1" => policyFile # "dependencies-v1"
    BY DEF PolicyDiffers, OwnInv, Own
  <2> QED
    BY <2>1, <2>2 DEF OwnInv, Own
<1>20. ASSUME NEW p \in Packages, Edit(p) PROVE OwnInv'
  BY <1>20 DEF Edit, OwnInv, Own, process
<1>21. CASE LoseRuntime
  BY <1>21, <1>a, PackagesIn, OwnRemoved DEF LoseRuntime, OwnInv, process
<1> QED
  BY <1>0, <1>1, <1>2, <1>3, <1>4, <1>5, <1>6, <1>7, <1>8, <1>9, <1>10, <1>11, <1>12, <1>13,
     <1>14, <1>15, <1>16, <1>17, <1>18, <1>19, <1>20, <1>21
  DEF Next, Step, Environment

-----------------------------------------------------------------------------
(* The order of compilations *)

LEMMA DatedStep == TypeOK /\ UnitInv /\ DatedInv /\ [Next]_vars => DatedInv'
<1> SUFFICES ASSUME TypeOK, UnitInv, DatedInv, [Next]_vars PROVE DatedInv'
  OBVIOUS
<1>a. /\ cli.profile \in Profiles /\ clock \in Nat
      /\ artifact \in [Profiles -> [Packages -> Artifacts \cup {NoArtifact}]]
      /\ unit \in Units \cup {NoUnit}
      /\ pc # "build" => unit = NoUnit
  BY LocalsFields DEF TypeOK, UnitInv
<1>b. \A q \in Profiles, p \in Packages :
        artifact[q][p] # NoArtifact => artifact[q][p].at \in Nat
  BY <1>a DEF Artifacts
<1>0. CASE UNCHANGED vars
  BY <1>0 DEF DatedInv, vars, disk, process
\* Artifacts only disappear, and no unit is begun.
<1>c. ASSUME \A q \in Profiles, p \in Packages : artifact'[q][p] \in {NoArtifact, artifact[q][p]},
             clock' = clock, unit' # NoUnit => unit # NoUnit
      PROVE  DatedInv'
  BY <1>c DEF DatedInv
<1>1. ASSUME NEW q \in Profiles, NEW p \in Packages,
             WipeArtifact(q, p) \/ WipeStamp(q, p) \/ CleanPackage(q, p)
      PROVE  DatedInv'
  BY <1>a, <1>c, <1>1 DEF WipeArtifact, WipeStamp, CleanPackage, process
<1>2. CASE WipePolicy \/ WipeDone \/ StartPrepass \/ \E found \in BOOLEAN : Plan(found)
  BY <1>2, <1>c DEF WipePolicy, WipeDone, StartPrepass, Plan, process, disk
<1>3. ASSUME NEW p \in Packages, PrepassCompiles(p) PROVE DatedInv'
  <2>1. /\ artifact' = [artifact EXCEPT ![cli.profile][p] = Build(p, "prepass", 0)]
        /\ clock' = clock + 1 /\ unit' = NoUnit
    BY <1>a, <1>3 DEF PrepassCompiles
  <2>2. Build(p, "prepass", 0).at = clock + 1
    BY DEF Build
  <2>3. ASSUME NEW q \in Profiles, NEW r \in Packages, artifact'[q][r] # NoArtifact
        PROVE  artifact'[q][r].at <= clock'
    <3>1. CASE q = cli.profile /\ r = p
      BY <1>a, <2>1, <2>2, <3>1
    <3>2. CASE ~(q = cli.profile /\ r = p)
      <4>1. artifact'[q][r] = artifact[q][r]
        BY <1>a, <2>1, <3>2
      <4> QED
        BY <1>a, <1>b, <2>1, <2>3, <4>1 DEF DatedInv
    <3> QED
      BY <3>1, <3>2
  <2> QED
    BY <2>1, <2>3 DEF DatedInv
<1>4. CASE PrepassFails \/ FindNoRuntime \/ CaptureRuntime \/ RemoveStamps \/ CleanFails
  BY <1>4, <1>c DEF PrepassFails, FindNoRuntime, CaptureRuntime, RemoveStamps, CleanFails, disk
<1>5. CASE FindRuntimeMissing \/ FindRuntimeKept \/ StartFinal
  BY <1>5, <1>c DEF FindRuntimeMissing, FindRuntimeKept, StartFinal, disk
<1>6. ASSUME NEW p \in Packages, NEW form \in Forms, RustcSucceeds(p, form) PROVE DatedInv'
  <2>1. /\ artifact' = [artifact EXCEPT ![cli.profile][p] = NoArtifact]
        /\ clock' = clock + 1
    BY <1>6 DEF RustcSucceeds
  <2>2. \A q \in Profiles, r \in Packages : artifact'[q][r] \in {NoArtifact, artifact[q][r]}
    BY <1>a, <2>1
  <2> QED
    BY <1>a, <1>b, <2>1, <2>2 DEF DatedInv
<1>7. CASE StampUnit
  BY <1>7, <1>c DEF StampUnit
<1>8. CASE RecordUnit
  <2>1. /\ unit # NoUnit /\ unit \in Units /\ unit' = NoUnit /\ clock' = clock
        /\ artifact' = [artifact EXCEPT ![cli.profile][unit.pkg] = unit.build]
        /\ unit.build.at = clock
    BY <1>a, <1>8 DEF RecordUnit, UnitInv
  <2>2. ASSUME NEW q \in Profiles, NEW r \in Packages, artifact'[q][r] # NoArtifact
        PROVE  artifact'[q][r].at <= clock'
    <3>1. CASE q = cli.profile /\ r = unit.pkg
      BY <1>a, <2>1, <3>1
    <3>2. CASE ~(q = cli.profile /\ r = unit.pkg)
      <4>1. artifact'[q][r] = artifact[q][r]
        BY <1>a, <2>1, <3>2
      <4> QED
        BY <2>1, <2>2, <4>1 DEF DatedInv
    <3> QED
      BY <3>1, <3>2
  <2> QED
    BY <2>1, <2>2 DEF DatedInv
<1>9. CASE BuildFails \/ BuildSucceeds \/ RecordPolicy \/ Crash \/ \E p \in Packages : Edit(p)
  BY <1>9, <1>c DEF BuildFails, BuildSucceeds, RecordPolicy, Crash, Edit, disk, process
<1>10. ASSUME NEW mode \in Modes, NEW request \in Requests, NEW orchestrated \in BOOLEAN,
              Invoke(mode, request, orchestrated)
       PROVE  DatedInv'
  BY <1>10, <1>c DEF Invoke, disk
<1>11. CASE LoseRuntime
  BY <1>a, <1>11, <1>c, PackagesIn DEF LoseRuntime, process
<1> QED
  BY <1>0, <1>1, <1>2, <1>3, <1>4, <1>5, <1>6, <1>7, <1>8, <1>9, <1>10, <1>11
  DEF Next, Step, Environment

\* Cargo finds a package fresh: so is what it needs, and older.
LEMMA FreshNeedsFresh ==
  ASSUME TypeOK, ChainInv, NEW p \in Packages, NEW r \in Packages,
         <<p, r>> \in Needs, ~Stale(p)
  PROVE  ~Stale(r) /\ ~Later(cli.profile, r, p)
<1>1. cli.profile \in Profiles
  BY LocalsFields DEF TypeOK
<1>2. ~OwnStale(p) /\ ~OwnStale(r) /\ ~(here[r].at > here[p].at)
  BY DEF Stale
<1>3. ASSUME NEW x \in Packages, <<r, x>> \in Needs
      PROVE  ~OwnStale(x) /\ ~(here[x].at > here[r].at)
  <2>1. <<p, x>> \in Needs
    BY <1>3, BuildAssumption
  <2>2. ~OwnStale(x) /\ ~(here[x].at > here[p].at)
    BY <2>1 DEF Stale
  <2> QED
    BY <1>1, <1>2, <1>3, <2>2 DEF ChainInv, Later, OwnStale, here
<1> QED
  BY <1>2, <1>3 DEF Stale, Later, here

\* Artifacts that disappear break no chain.
LEMMA RemovalKeepsChains ==
  ASSUME ChainInv,
         \A q \in Profiles, p \in Packages : artifact'[q][p] \in {NoArtifact, artifact[q][p]}
  PROVE  /\ ChainInv'
         /\ \A q \in Profiles, r, p \in Packages : ~Later(q, r, p) => ~Later(q, r, p)'
<1>1. ASSUME NEW q \in Profiles, NEW r \in Packages, NEW p \in Packages, Later(q, r, p)'
      PROVE  Later(q, r, p)
  BY <1>1 DEF Later
<1>2. ASSUME NEW q \in Profiles, NEW p \in Packages, NEW r \in Packages, NEW x \in Packages,
             <<p, r>> \in Needs, <<r, x>> \in Needs, artifact'[q][p] # NoArtifact,
             Later(q, x, r)'
      PROVE  Later(q, x, p)'
  <2>1. Later(q, x, r) /\ artifact[q][p] = artifact'[q][p]
    BY <1>1, <1>2
  <2>2. Later(q, x, p)
    BY <1>2, <2>1 DEF ChainInv
  <2> QED
    BY <1>2, <2>1, <2>2 DEF Later
<1> QED
  BY <1>1, <1>2 DEF ChainInv

\* The last compilation: of a package p none of whose needs is behind its own.
LEMMA LastCompiled ==
  ASSUME TypeOK, ChainInv, NEW o \in Profiles, NEW p \in Packages,
         NEW a \in Artifacts, artifact' = [artifact EXCEPT ![o][p] = a],
         \A r \in Packages : artifact[o][r] # NoArtifact /\ r # p
                               => artifact[o][r].at < a.at,
         \A r, x \in Packages :
           <<p, r>> \in Needs /\ <<r, x>> \in Needs => ~Later(o, x, r)
  PROVE  /\ ChainInv'
         /\ \A r \in Packages : <<p, r>> \in Needs => ~(Later(o, r, p)')
         /\ \A r, x \in Packages \ {p} : Later(o, x, r)' <=> Later(o, x, r)
<1>1. /\ artifact \in [Profiles -> [Packages -> Artifacts \cup {NoArtifact}]]
      /\ a.at \in Nat /\ a # NoArtifact
  BY NoArtifactAssumption DEF TypeOK, Artifacts
<1>2. /\ artifact'[o][p] = a
      /\ \A q \in Profiles, r \in Packages :
           q # o \/ r # p => artifact'[q][r] = artifact[q][r]
  BY <1>1
<1>3. \A q \in Profiles, r \in Packages :
        artifact[q][r] # NoArtifact => artifact[q][r].at \in Nat
  BY <1>1 DEF Artifacts
<1>4. ASSUME NEW r \in Packages, <<p, r>> \in Needs PROVE ~(Later(o, r, p)')
  <2>1. r # p
    BY <1>4, BuildAssumption
  <2> QED
    BY <1>1, <1>2, <1>3, <2>1 DEF Later
<1>5. ASSUME NEW q \in Profiles, NEW b \in Packages, NEW r \in Packages, NEW x \in Packages,
             <<b, r>> \in Needs, <<r, x>> \in Needs, artifact'[q][b] # NoArtifact,
             Later(q, x, r)'
      PROVE  Later(q, x, b)'
  <2>1. b # r /\ r # x /\ <<b, x>> \in Needs /\ b # x
    BY <1>5, BuildAssumption
  <2>2. CASE q # o \/ p \notin {b, r, x}
    <3>1. /\ artifact'[q][b] = artifact[q][b] /\ artifact'[q][r] = artifact[q][r]
          /\ artifact'[q][x] = artifact[q][x]
      BY <1>2, <2>2
    <3> QED
      BY <1>5, <3>1 DEF ChainInv, Later
  <2>3. CASE q = o /\ p = b
    <3>1. Later(q, x, r)
      BY <1>2, <1>5, <2>1, <2>3 DEF Later
    <3> QED
      BY <1>5, <2>3, <3>1
  <2>4. CASE q = o /\ p = r
    BY <1>4, <1>5, <2>4
  <2>5. CASE q = o /\ p = x
    <3>1. artifact[q][b] # NoArtifact /\ artifact'[q][b] = artifact[q][b]
      BY <1>2, <1>5, <2>1, <2>5
    <3> QED
      BY <1>1, <1>2, <1>3, <2>1, <2>5, <3>1 DEF Later
  <2> QED
    BY <2>2, <2>3, <2>4, <2>5
<1>6. ASSUME NEW r \in Packages \ {p}, NEW x \in Packages \ {p}
      PROVE  Later(o, x, r)' <=> Later(o, x, r)
  BY <1>1, <1>2 DEF Later
<1> QED
  BY <1>4, <1>5, <1>6 DEF ChainInv

LEMMA ChainStep ==
  TypeOK /\ UnitInv /\ DatedInv /\ ChainInv /\ TodoInv /\ [Next]_vars => ChainInv' /\ TodoInv'
<1> SUFFICES ASSUME TypeOK, UnitInv, DatedInv, ChainInv, TodoInv, [Next]_vars
             PROVE  ChainInv' /\ TodoInv'
  OBVIOUS
<1>a. /\ cli \in Locals /\ cli.profile \in Profiles /\ cli.todo \in SUBSET Packages
      /\ clock \in Nat
      /\ artifact \in [Profiles -> [Packages -> Artifacts \cup {NoArtifact}]]
      /\ unit \in Units \cup {NoUnit}
      /\ pc # "build" => unit = NoUnit
  BY LocalsFields DEF TypeOK, UnitInv
<1>0. CASE UNCHANGED vars
  BY <1>0 DEF ChainInv, TodoInv, Later, vars, disk, process
\* Artifacts only disappear, outside both builds.
<1>b. ASSUME \A q \in Profiles, p \in Packages : artifact'[q][p] \in {NoArtifact, artifact[q][p]},
             pc' \notin {"precompile", "build", "record"}, unit' = NoUnit
      PROVE  ChainInv' /\ TodoInv'
  <2>1. ChainInv'
    BY <1>b, RemovalKeepsChains
  <2> QED
    BY <1>b, <2>1 DEF TodoInv
\* A build begins: what it finds fresh stands after what that needs.
<1>c. ASSUME artifact' = artifact, cli'.profile = cli.profile, unit' = NoUnit,
             cli'.todo = {p \in Packages : Stale(p)}, pc' # "record"
      PROVE  ChainInv' /\ TodoInv'
  <2>1. ChainInv'
    BY <1>c DEF ChainInv, Later
  <2>2. ASSUME NEW p \in Packages \ cli'.todo, NEW r \in Packages, <<p, r>> \in Needs
        PROVE  r \notin cli'.todo /\ ~Later(cli.profile, r, p)
    BY <1>c, <2>2, FreshNeedsFresh
  <2> QED
    BY <1>c, <2>1, <2>2 DEF TodoInv, Later
\* A package that is ready is compiled.
<1>d. ASSUME NEW o \in Profiles, cli.profile = o, cli'.profile = o,
             NEW p \in Packages, NEW a \in Artifacts,
             pc \in {"precompile", "build"}, pc' = pc, p \in cli.todo,
             \A r \in cli.todo : <<p, r>> \notin Needs,
             artifact' = [artifact EXCEPT ![o][p] = a],
             \A r \in Packages : artifact[o][r] # NoArtifact /\ r # p
                                   => artifact[o][r].at < a.at,
             cli'.todo = cli.todo \ {p}, unit' = NoUnit
      PROVE  ChainInv' /\ TodoInv'
  <2>1. \A r, x \in Packages :
          <<p, r>> \in Needs /\ <<r, x>> \in Needs => ~Later(o, x, r)
    BY <1>d DEF TodoInv
  <2>2. /\ ChainInv'
        /\ \A r \in Packages : <<p, r>> \in Needs => ~(Later(o, r, p)')
        /\ \A r, x \in Packages \ {p} : Later(o, x, r)' <=> Later(o, x, r)
    BY <1>d, <2>1, LastCompiled
  <2>3. ASSUME NEW b \in Packages \ cli'.todo, NEW r \in Packages, <<b, r>> \in Needs
        PROVE  r \notin cli'.todo /\ ~(Later(o, r, b)')
    <3>1. CASE b = p
      BY <1>d, <2>2, <2>3, <3>1
    <3>2. CASE b # p
      <4>1. b \notin cli.todo
        BY <1>d, <2>3, <3>2
      <4>2. r \notin cli.todo /\ ~Later(o, r, b) /\ r # p
        BY <1>d, <2>3, <4>1 DEF TodoInv
      <4> QED
        BY <1>d, <2>2, <3>2, <4>2
    <3> QED
      BY <3>1, <3>2
  <2> QED
    BY <1>d, <2>2, <2>3 DEF TodoInv
<1>1. ASSUME NEW q \in Profiles, NEW p \in Packages,
             WipeArtifact(q, p) \/ WipeStamp(q, p) \/ CleanPackage(q, p)
      PROVE  ChainInv' /\ TodoInv'
  <2>1. /\ \A x \in Profiles, r \in Packages : artifact'[x][r] \in {NoArtifact, artifact[x][r]}
        /\ pc' \in {"wipe", "clean"} /\ unit' = NoUnit
    BY <1>a, <1>1 DEF WipeArtifact, WipeStamp, CleanPackage, process
  <2> QED
    BY <1>b, <2>1
<1>2. CASE WipePolicy \/ WipeDone \/ \E found \in BOOLEAN : Plan(found)
  BY <1>a, <1>2, <1>b DEF WipePolicy, WipeDone, Plan, process, disk
<1>3. CASE StartPrepass \/ StartFinal
  <2>1. /\ artifact' = artifact /\ cli'.profile = cli.profile /\ unit' = NoUnit
        /\ cli'.todo = {p \in Packages : Stale(p)} /\ pc' # "record"
    BY <1>a, <1>3 DEF StartPrepass, StartFinal, Locals
  <2> QED
    BY <1>c, <2>1
<1>4. ASSUME NEW p \in Packages, PrepassCompiles(p) PROVE ChainInv' /\ TodoInv'
  <2>1. /\ pc = "precompile" /\ pc' = pc /\ p \in cli.todo
        /\ \A r \in cli.todo : <<p, r>> \notin Needs
        /\ artifact' = [artifact EXCEPT ![cli.profile][p] = Build(p, "prepass", 0)]
        /\ cli'.profile = cli.profile /\ cli'.todo = cli.todo \ {p} /\ unit' = NoUnit
    BY <1>a, <1>4 DEF PrepassCompiles, Ready, Locals
  <2>2. Build(p, "prepass", 0) \in Artifacts /\ Build(p, "prepass", 0).at = clock + 1
    BY BuildIn DEF Forms, Build
  <2>3. \A r \in Packages : artifact[cli.profile][r] # NoArtifact /\ r # p
          => artifact[cli.profile][r].at < Build(p, "prepass", 0).at
    BY <1>a, <2>2 DEF DatedInv, Artifacts
  <2> QED
    BY <1>a, <1>d, <2>1, <2>2, <2>3
<1>5. CASE PrepassFails \/ FindNoRuntime \/ CaptureRuntime \/ FindRuntimeMissing
  BY <1>a, <1>5, <1>b
  DEF PrepassFails, FindNoRuntime, CaptureRuntime, FindRuntimeMissing, Condemn, disk
<1>6. CASE RemoveStamps \/ CleanFails \/ FindRuntimeKept
  BY <1>a, <1>6, <1>b DEF RemoveStamps, CleanFails, FindRuntimeKept, disk
<1>7. ASSUME NEW p \in Packages, NEW form \in Forms, RustcSucceeds(p, form)
      PROVE  ChainInv' /\ TodoInv'
  <2>1. /\ pc = "build" /\ pc' = pc /\ cli' = cli
        /\ \A r \in cli.todo : <<p, r>> \notin Needs
        /\ artifact' = [artifact EXCEPT ![cli.profile][p] = NoArtifact]
    BY <1>7 DEF RustcSucceeds, Ready
  <2>2. unit'.pkg = p
    BY <1>7 DEF RustcSucceeds
  <2>3. /\ ChainInv'
        /\ \A q \in Profiles, r, b \in Packages : ~Later(q, r, b) => ~Later(q, r, b)'
    BY <1>a, <2>1, RemovalKeepsChains
  <2> QED
    BY <1>a, <2>1, <2>2, <2>3 DEF TodoInv
<1>8. CASE StampUnit
  <2>1. unit \in Units /\ unit # NoUnit /\ unit'.pkg = unit.pkg
    BY <1>a, <1>8 DEF StampUnit, Units
  <2> QED
    BY <1>8, <2>1 DEF StampUnit, ChainInv, TodoInv, Later
<1>9. CASE RecordUnit
  <2>1. /\ unit # NoUnit /\ unit.pkg \in Packages /\ unit.build \in Artifacts
        /\ unit.build.at = clock /\ unit.pkg \in cli.todo
    BY <1>a, <1>9 DEF RecordUnit, UnitInv, Units
  <2>2. /\ pc = "build" /\ pc' = pc /\ unit' = NoUnit
        /\ artifact' = [artifact EXCEPT ![cli.profile][unit.pkg] = unit.build]
        /\ cli'.profile = cli.profile /\ cli'.todo = cli.todo \ {unit.pkg}
    BY <1>a, <1>9 DEF RecordUnit, Locals
  <2>3. /\ \A r \in cli.todo : <<unit.pkg, r>> \notin Needs
        /\ \A r \in Packages : artifact[cli.profile][r] # NoArtifact
                                 => artifact[cli.profile][r].at < unit.build.at
    BY <1>a, <2>1 DEF TodoInv, DatedInv
  <2> QED
    BY <1>a, <1>d, <2>1, <2>2, <2>3
<1>10. CASE BuildFails \/ RecordPolicy \/ Crash
  BY <1>a, <1>10, <1>b DEF BuildFails, RecordPolicy, Crash, disk, UnitInv
<1>11. CASE BuildSucceeds
  BY <1>11 DEF BuildSucceeds, ChainInv, TodoInv, Later, disk
<1>12. ASSUME NEW mode \in Modes, NEW request \in Requests, NEW orchestrated \in BOOLEAN,
              Invoke(mode, request, orchestrated)
       PROVE  ChainInv' /\ TodoInv'
  BY <1>a, <1>12, <1>b DEF Invoke, disk
<1>13. CASE \E p \in Packages : Edit(p)
  BY <1>13 DEF Edit, ChainInv, TodoInv, Later, process
<1>14. CASE LoseRuntime
  <2>1. /\ \A x \in Profiles, r \in Packages : artifact'[x][r] \in {NoArtifact, artifact[x][r]}
        /\ pc' \in {"clean", "verify"} /\ unit' = NoUnit
    BY <1>a, <1>14, PackagesIn DEF LoseRuntime, process
  <2> QED
    BY <1>b, <2>1
<1> QED
  BY <1>0, <1>1, <1>2, <1>3, <1>4, <1>5, <1>6, <1>7, <1>8, <1>9, <1>10, <1>11, <1>12, <1>13,
     <1>14
  DEF Next, Step, Environment

-----------------------------------------------------------------------------
(* Which OpenTelemetry the native units are bound to *)

LEMMA ExternStep ==
  TypeOK /\ UnitInv /\ DatedInv /\ ExternInv /\ [Next]_vars => ExternInv'
<1> SUFFICES ASSUME TypeOK, UnitInv, DatedInv, ExternInv, [Next]_vars PROVE ExternInv'
  OBVIOUS
<1>a. /\ cli \in Locals /\ cli.profile \in Profiles /\ clock \in Nat
      /\ artifact \in [Profiles -> [Packages -> Artifacts \cup {NoArtifact}]]
      /\ unit \in Units \cup {NoUnit}
      /\ pc # "build" => unit = NoUnit
  BY LocalsFields DEF TypeOK, UnitInv
<1>b. OwnExtern \subseteq Packages /\ Runtime \in Packages /\ Runtime \notin OwnExtern
  BY BuildAssumption, PackagesIn
<1>0. CASE UNCHANGED vars
  BY <1>0 DEF ExternInv, Agrees, Later, vars, disk, process
\* Artifacts only disappear.
<1>c. ASSUME \A q \in Profiles, p \in Packages : artifact'[q][p] \in {NoArtifact, artifact[q][p]},
             (unit # NoUnit /\ unit.pkg \in OwnExtern => Agrees(cli.profile, unit.build))'
      PROVE  ExternInv'
  <2>1. ASSUME NEW q \in Profiles, NEW p \in OwnExtern, artifact'[q][p] # NoArtifact
        PROVE  Later(q, Runtime, p)' \/ Agrees(q, artifact[q][p])'
    <3>1. /\ artifact'[q][p] = artifact[q][p] /\ artifact[q][p] # NoArtifact
          /\ artifact'[q][Runtime] \in {NoArtifact, artifact[q][Runtime]}
      BY <1>b, <1>c, <2>1
    <3>2. Later(q, Runtime, p) \/ Agrees(q, artifact[q][p])
      BY <3>1 DEF ExternInv
    <3> QED
      BY <3>1, <3>2 DEF Later, Agrees
  <2> QED
    BY <1>c, <2>1 DEF ExternInv
\* A package is compiled last: opentelemetry, or one that agrees, or any other.
<1>d. ASSUME NEW p \in Packages, NEW a \in Artifacts,
             artifact' = [artifact EXCEPT ![cli.profile][p] = a], unit' = NoUnit,
             \A r \in Packages : artifact[cli.profile][r] # NoArtifact /\ r # p
                                   => artifact[cli.profile][r].at < a.at,
             p \in OwnExtern => Agrees(cli.profile, a)
      PROVE  ExternInv'
  <2>1. /\ artifact'[cli.profile][p] = a /\ a # NoArtifact
        /\ \A q \in Profiles, r \in Packages :
             q # cli.profile \/ r # p => artifact'[q][r] = artifact[q][r]
    BY <1>a, <1>d, NoArtifactAssumption
  <2>2. ASSUME NEW q \in Profiles, NEW r \in OwnExtern, artifact'[q][r] # NoArtifact
        PROVE  Later(q, Runtime, r)' \/ Agrees(q, artifact[q][r])'
    <3>1. r \in Packages /\ r # Runtime
      BY <1>b
    <3>2. CASE q # cli.profile \/ p \notin {r, Runtime}
      <4>1. artifact'[q][r] = artifact[q][r] /\ artifact'[q][Runtime] = artifact[q][Runtime]
        BY <1>b, <2>1, <3>1, <3>2
      <4> QED
        BY <2>2, <4>1 DEF ExternInv, Later, Agrees
    <3>3. CASE q = cli.profile /\ p = r
      <4>1. artifact'[q][r] = a /\ artifact'[q][Runtime] = artifact[q][Runtime]
        BY <1>b, <2>1, <3>1, <3>3
      <4> QED
        BY <1>d, <3>3, <4>1 DEF Agrees
    <3>4. CASE q = cli.profile /\ p = Runtime
      <4>1. artifact'[q][r] = artifact[q][r] /\ artifact'[q][Runtime] = a
        BY <1>b, <2>1, <3>1, <3>4
      <4>2. artifact[q][r].at < a.at /\ artifact[q][r].at \in Nat /\ a.at \in Nat
        BY <1>a, <1>d, <2>2, <3>1, <3>4, <4>1 DEF Artifacts
      <4> QED
        BY <2>1, <2>2, <4>1, <4>2 DEF Later
    <3> QED
      BY <3>2, <3>3, <3>4
  <2> QED
    BY <1>d, <2>2 DEF ExternInv
<1>1. ASSUME NEW q \in Profiles, NEW p \in Packages,
             WipeArtifact(q, p) \/ WipeStamp(q, p) \/ CleanPackage(q, p)
      PROVE  ExternInv'
  <2>1. /\ \A x \in Profiles, r \in Packages : artifact'[x][r] \in {NoArtifact, artifact[x][r]}
        /\ unit' = NoUnit
    BY <1>a, <1>1 DEF WipeArtifact, WipeStamp, CleanPackage, process
  <2> QED
    BY <1>c, <2>1
<1>2. CASE WipePolicy \/ WipeDone \/ \E found \in BOOLEAN : Plan(found)
  BY <1>a, <1>2, <1>c DEF WipePolicy, WipeDone, Plan, process, disk
<1>3. CASE StartPrepass \/ StartFinal
  BY <1>a, <1>3, <1>c DEF StartPrepass, StartFinal
<1>4. ASSUME NEW p \in Packages, PrepassCompiles(p) PROVE ExternInv'
  <2>1. /\ artifact' = [artifact EXCEPT ![cli.profile][p] = Build(p, "prepass", 0)]
        /\ unit' = NoUnit
    BY <1>a, <1>4 DEF PrepassCompiles
  <2>2. /\ Build(p, "prepass", 0) \in Artifacts /\ Build(p, "prepass", 0).at = clock + 1
        /\ Build(p, "prepass", 0).form # "native"
    BY BuildIn DEF Forms, Build
  <2>3. \A r \in Packages : artifact[cli.profile][r] # NoArtifact /\ r # p
          => artifact[cli.profile][r].at < Build(p, "prepass", 0).at
    BY <1>a, <2>2 DEF DatedInv, Artifacts
  <2>4. Agrees(cli.profile, Build(p, "prepass", 0))
    BY <2>2 DEF Agrees
  <2> QED
    BY <1>d, <2>1, <2>2, <2>3, <2>4
<1>5. CASE PrepassFails \/ FindNoRuntime \/ CaptureRuntime \/ FindRuntimeMissing
  BY <1>a, <1>5, <1>c
  DEF PrepassFails, FindNoRuntime, CaptureRuntime, FindRuntimeMissing, disk
<1>6. CASE RemoveStamps \/ CleanFails \/ FindRuntimeKept
  BY <1>a, <1>6, <1>c DEF RemoveStamps, CleanFails, FindRuntimeKept, disk
<1>7. ASSUME NEW p \in Packages, NEW form \in Forms, RustcSucceeds(p, form)
      PROVE  ExternInv'
  <2>1. /\ cli' = cli /\ unit'.pkg = p /\ unit'.build.form = form
        /\ unit'.build.instance = IF form = "native" THEN cli.rlib ELSE 0
        /\ artifact' = [artifact EXCEPT ![cli.profile][p] = NoArtifact]
    BY <1>7 DEF RustcSucceeds, Build
  <2>2. form = "native" /\ p \in OwnExtern => artifact[cli.profile][Runtime].version = cli.rlib
    BY <1>7 DEF RustcSucceeds, EmitterFor, here
  <2>3. /\ \A x \in Profiles, r \in Packages : artifact'[x][r] \in {NoArtifact, artifact[x][r]}
        /\ p \in OwnExtern => artifact'[cli.profile][Runtime] = artifact[cli.profile][Runtime]
    BY <1>a, <1>b, <2>1
  <2> QED
    BY <1>c, <2>1, <2>2, <2>3 DEF Agrees
<1>8. CASE StampUnit
  <2>1. unit \in Units /\ unit # NoUnit
    BY <1>a, <1>8 DEF StampUnit
  <2>2. /\ unit'.pkg = unit.pkg /\ unit'.build.form = unit.build.form
        /\ unit'.build.instance = unit.build.instance
    BY <1>8, <2>1 DEF StampUnit, Units, Artifacts
  <2> QED
    BY <1>8, <2>1, <2>2 DEF StampUnit, ExternInv, Agrees, Later
<1>9. CASE RecordUnit
  <2>1. /\ unit # NoUnit /\ unit.pkg \in Packages /\ unit.build \in Artifacts
        /\ unit.build.at = clock
    BY <1>a, <1>9 DEF RecordUnit, UnitInv, Units
  <2>2. /\ unit' = NoUnit
        /\ artifact' = [artifact EXCEPT ![cli.profile][unit.pkg] = unit.build]
    BY <1>9 DEF RecordUnit
  <2>3. /\ unit.pkg \in OwnExtern => Agrees(cli.profile, unit.build)
        /\ \A r \in Packages : artifact[cli.profile][r] # NoArtifact
                                 => artifact[cli.profile][r].at < unit.build.at
    BY <1>a, <2>1 DEF ExternInv, DatedInv
  <2> QED
    BY <1>d, <2>1, <2>2, <2>3
<1>10. CASE BuildFails \/ BuildSucceeds \/ RecordPolicy \/ Crash
  BY <1>a, <1>10, <1>c DEF BuildFails, BuildSucceeds, RecordPolicy, Crash, disk
<1>11. ASSUME NEW mode \in Modes, NEW request \in Requests, NEW orchestrated \in BOOLEAN,
              Invoke(mode, request, orchestrated)
       PROVE  ExternInv'
  BY <1>a, <1>11, <1>c DEF Invoke, disk
<1>12. CASE \E p \in Packages : Edit(p)
  BY <1>12 DEF Edit, ExternInv, Agrees, Later, process
<1>13. CASE LoseRuntime
  <2>1. /\ \A x \in Profiles, r \in Packages : artifact'[x][r] \in {NoArtifact, artifact[x][r]}
        /\ unit' = NoUnit
    BY <1>a, <1>b, <1>13 DEF LoseRuntime, process
  <2> QED
    BY <1>c, <2>1
<1> QED
  BY <1>0, <1>1, <1>2, <1>3, <1>4, <1>5, <1>6, <1>7, <1>8, <1>9, <1>10, <1>11, <1>12, <1>13
  DEF Next, Step, Environment

-----------------------------------------------------------------------------
(* The theorems *)

LEMMA BuildInit ==
  Init => /\ TypeOK /\ UnitInv /\ StampInv /\ KeptInv /\ BuiltInv
          /\ StandInv /\ CompiledInv /\ SettledInv
<1> SUFFICES ASSUME Init
             PROVE  /\ UnitInv /\ StampInv /\ KeptInv /\ BuiltInv
                    /\ StandInv /\ CompiledInv /\ SettledInv
  BY TypeInit
<1>1. unit = NoUnit /\ pc = "idle" /\ settled.mode = "none"
  BY DEF Init, NotSettled
<1>2. \A q \in Profiles, p \in Packages : artifact[q][p] = NoArtifact
  BY DEF Init
<1> QED
  BY <1>1, <1>2 DEF UnitInv, StampInv, KeptInv, BuiltInv, StandInv, CompiledInv, SettledInv

LEMMA StampsAlways == Spec => [](TypeOK /\ UnitInv /\ StampInv)
<1>1. TypeOK /\ UnitInv /\ StampInv /\ [Next]_vars => (TypeOK /\ UnitInv /\ StampInv)'
  BY TypeStep, UnitStep, StampStep
<1> QED
  BY <1>1, BuildInit, PTL DEF Spec

LEMMA BuiltAlways == Spec => []BuiltInv
<1>1. TypeOK /\ UnitInv /\ BuiltInv /\ [Next]_vars => BuiltInv'
  BY BuiltStep
<1> QED
  BY <1>1, BuildInit, StampsAlways, PTL DEF Spec

\* Through any sequence of invocations, kills, edits and failures the state of
\* the target directory and of the CLI is well-typed; no stamp is later than the
\* last compilation.
THEOREM BuildTypeOK == Spec => []TypeOK
BY StampsAlways, PTL

\* Whatever the tolerance, a stamp StampValid accepts was left by the wrapper for that
\* very artifact, or was on disk when the artifact was compiled and, within the
\* tolerance, passed for its own.
THEOREM BuildStampsProve == Spec => []StampsProve
<1>1. StampInv => StampsProve
  BY DEF StampInv, Proves, StampsProve
<1> QED
  BY <1>1, StampsAlways, PTL

\* For every tolerance, every set of profiles and every way of asking for them: where
\* the clean works on the profile that is built, no artifact of an unwrapped pre-pass
\* is in a finished build of acquire_native_artifacts, whatever the invocations before
\* it left or cleaned elsewhere; what the tolerance lets through apart.
THEOREM BuildPrepassIsReplacedIfCleaned == Spec => []PrepassIsReplacedIfCleaned
<1>1. TypeOK /\ UnitInv /\ StampInv /\ KeptInv /\ [Next]_vars => KeptInv'
  BY KeptStep
<1>2. Spec => []KeptInv
  BY <1>1, BuildInit, StampsAlways, PTL DEF Spec
<1>3. TypeOK /\ KeptInv /\ BuiltInv => PrepassIsReplacedIfCleaned
  <2> SUFFICES ASSUME TypeOK, KeptInv, BuiltInv, CleansWhatItBuilds,
                      pc = "record", cli.planned, cli.orchestrated,
                      NEW p \in Desired(cli.mode)
               PROVE  here[p] # NoArtifact /\ (here[p].form # "prepass" \/ here[p].tolerated)
    BY DEF PrepassIsReplaced, PrepassIsReplacedIfCleaned
  <2>1. p \in Packages
    BY LocalsFields, PackagesIn DEF TypeOK
  <2> QED
    BY <2>1 DEF KeptInv, Kept, BuiltInv, here
<1> QED
  BY <1>2, <1>3, StampsAlways, BuiltAlways, PTL

\* If no package's stamps are removed with another's, an invocation that repeats
\* the last one condemns nothing that the wrapper transformed and stamped.
THEOREM BuildRepeatKeepsStamped ==
  ASSUME \A d, p \in Packages : <<d, p>> \in StampPrefixOf => d = p
  PROVE  Spec => []RepeatKeepsStamped
<1>1. TypeOK /\ UnitInv /\ StandInv /\ [Next]_vars => StandInv'
  BY StandStep
<1>2. Spec => []StandInv
  BY <1>1, BuildInit, StampsAlways, PTL DEF Spec
<1>3. Spec => []CompiledInv
  BY CompiledStep, BuildInit, StampsAlways, PTL DEF Spec
<1>4. Spec => []SettledInv
  BY <1>2, <1>3, SettledStep, BuildInit, StampsAlways, PTL DEF Spec
<1>5. SettledInv => RepeatKeepsStamped
  BY DEF SettledInv, Repeats, RepeatKeepsStamped, here
<1> QED
  BY <1>4, <1>5, PTL

\* If no flag names a profile for the clean, a finished build of --with-dependencies
\* holds nothing that was compiled under the legacy policy, whichever builds and wipes
\* were cut short before it (the policy test of execute_cargo_with_wrapper).
THEOREM BuildDependenciesAreOwn ==
  ASSUME \A request \in Requests : request.named = {}
  PROVE  Spec => []DependenciesAreOwn
<1>1. Init => OwnInv
  <2> SUFFICES ASSUME Init PROVE OwnInv
    OBVIOUS
  <2>1. \A q \in Profiles, p \in Packages : artifact[q][p] = NoArtifact
    BY DEF Init
  <2> QED
    BY <2>1 DEF Init, OwnInv, Idle
<1>2. Spec => []OwnInv
  BY <1>1, OwnStep, StampsAlways, PTL DEF Spec
<1>3. TypeOK /\ OwnInv => DependenciesAreOwn
  <2> SUFFICES ASSUME TypeOK, OwnInv, pc = "record", cli.mode = "dependencies-v1",
                      NEW p \in Packages, here[p] # NoArtifact
               PROVE  here[p].policy = cli.mode
    BY DEF DependenciesAreOwn
  <2>1. cli.profile \in Profiles
    BY LocalsFields DEF TypeOK
  <2> QED
    BY <2>1 DEF OwnInv, Own, here
<1> QED
  BY <1>2, <1>3, StampsAlways, PTL

\* A native unit with an --extern of its own is bound to the OpenTelemetry the finished
\* build has, for every dependency graph, however often the lock file changed or the
\* library was lost or compiled again since it was captured (rust_dependency_extern and
\* the test of its artifact in run_wrapper).
THEOREM BuildOwnExternsAgree == Spec => []OwnExternsAgree
<1>1. Init => DatedInv /\ ChainInv /\ TodoInv /\ ExternInv
  <2> SUFFICES ASSUME Init PROVE DatedInv /\ ChainInv /\ TodoInv /\ ExternInv
    OBVIOUS
  <2>1. \A q \in Profiles, p \in Packages : artifact[q][p] = NoArtifact
    BY DEF Init
  <2>2. pc = "idle" /\ unit = NoUnit /\ OwnExtern \subseteq Packages
    BY BuildAssumption DEF Init
  <2> QED
    BY <2>1, <2>2 DEF DatedInv, ChainInv, TodoInv, ExternInv
<1>2. Spec => [](DatedInv /\ ChainInv /\ TodoInv /\ ExternInv)
  BY <1>1, DatedStep, ChainStep, ExternStep, StampsAlways, PTL DEF Spec
<1>3. TypeOK /\ TodoInv /\ ExternInv => OwnExternsAgree
  <2> SUFFICES ASSUME TypeOK, TodoInv, ExternInv, pc = "record", here[Runtime] # NoArtifact,
                      NEW p \in OwnExtern, here[p] # NoArtifact, here[p].form = "native"
               PROVE  here[p].instance = here[Runtime].version
    BY DEF OwnExternsAgree
  <2>1. /\ cli.profile \in Profiles /\ p \in Packages /\ Runtime \in Packages
        /\ <<p, Runtime>> \in Needs
    BY LocalsFields, PackagesIn, BuildAssumption DEF TypeOK
  <2>2. ~Later(cli.profile, Runtime, p)
    BY <2>1 DEF TodoInv
  <2> QED
    BY <2>1, <2>2 DEF ExternInv, Agrees, here
<1> QED
  BY <1>2, <1>3, StampsAlways, PTL

=============================================================================
