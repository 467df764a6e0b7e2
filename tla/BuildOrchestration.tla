------------------------- MODULE BuildOrchestration -------------------------
(***************************************************************************)
(* `cargo instrument -- build` over one target directory, through several  *)
(* invocations: the policy file, the unwrapped pre-pass, the selective     *)
(* clean, the wrapped build and the stamps it leaves                       *)
(* (cargo-instrument/src/main.rs and the end of run_wrapper).              *)
(*                                                                         *)
(* A package stands for its library or binary unit.  Cargo is modelled by  *)
(* what the CLI relies on: a unit is compiled again when it is missing,    *)
(* when its source has changed, or when a unit it needs was compiled       *)
(* later.  Time is a count of compilations.                                *)
(***************************************************************************)
EXTENDS Naturals, FiniteSets

CONSTANTS Deps,            \* packages that are not members of the workspace
          PathDeps,        \* those of them that have no registry source
          App,             \* the workspace member at the root of the graph
          Runtime,         \* the package opentelemetry
          RuntimeClosure,  \* opentelemetry and the packages it needs
          OwnExtern,       \* packages to which Cargo gives an --extern opentelemetry
          Needs,           \* pairs <<p, q>>: p depends on q, directly or not
          StampPrefixOf,   \* pairs <<p, q>>: cleaning p's stamps removes q's
          Profiles,        \* the profiles builds are asked for
          Dev,             \* the one of them that no flag selects
          Requests,        \* how the CLI is asked for them
          ShimProvider,    \* TRUE: otel-shim is in the build graph
          Slack,           \* compilations in the second that StampValid allows
          MaxEdits,        \* bound: edits of sources and of the lock file
          MaxInvocations,  \* bound: runs of the CLI
          NoArtifact, NoPackage

Packages == Deps \cup {App, Runtime}

\* profile: the one Cargo builds.  named: what clean_forward_flags hands on of the
\* arguments.  It is {} for no flag, but also for -r, which it does not know.
ProfileRequests == [profile : Profiles, named : SUBSET Profiles]

ASSUME BuildAssumption ==
  /\ App \notin Deps \cup {Runtime}
  /\ Runtime \notin Deps
  /\ PathDeps \subseteq Deps
  /\ Runtime \in RuntimeClosure
  /\ RuntimeClosure \subseteq Deps \cup {Runtime}
  /\ Needs \subseteq Packages \X Packages
  /\ \A p, q, r \in Packages :
       <<p, q>> \in Needs => /\ p # q
                             /\ q # App
                             /\ p \in RuntimeClosure => q \in RuntimeClosure
                             /\ <<q, r>> \in Needs => <<p, r>> \in Needs
  /\ OwnExtern \subseteq Packages \ RuntimeClosure
  /\ \A p \in OwnExtern : <<p, Runtime>> \in Needs
  /\ StampPrefixOf \subseteq Packages \X Packages
  /\ Dev \in Profiles
  /\ Requests \subseteq ProfileRequests
  /\ ShimProvider \in BOOLEAN
  /\ Slack \in Nat
  /\ MaxEdits \in Nat
  /\ MaxInvocations \in Nat
  /\ NoPackage \notin Packages

Modes == {"dependencies-v1", "legacy-v1"}

\* How a unit was compiled: without the wrapper, by the wrapper from the source
\* as it is, or from a mirror with the fallback or the native emitter's code.
Forms == {"prepass", "passed", "fallback", "native"}
Transformed == {"fallback", "native"}

Artifacts == [version : Nat,  form : Forms,  at : Nat,
              instance : Nat,         \* the version of Runtime it is bound to, 0: none
              policy : Modes,         \* the policy of the invocation that compiled it
              tolerated : BOOLEAN,    \* auxiliary: a stamp of the unit passed for its own
              stamped : BOOLEAN]      \* auxiliary: its stamp was written

ASSUME NoArtifactAssumption == NoArtifact \notin Artifacts

VARIABLES source,      \* source[p]: edits of p (of its version, for Runtime) + 1
          artifact,    \* artifact[q][p]: what Cargo has recorded for profile q
          stamp,       \* stamp[q][p]: when its stamp was written, 0 if there is none
          policyFile,  \* cargo_instrument_policy, "none" if there is none
          dirExists,   \* the target directory exists
          clock,       \* compilations so far
          pc,          \* where the CLI is
          cli,         \* its locals
          unit,        \* the unit the wrapper compiles, with the artifact to be
          edits, invocations,  \* counters for the bounds
          settled      \* auxiliary: the mode and profile of the last invocation, if it
                       \* went all the way and nothing has happened since

disk == <<source, artifact, stamp, policyFile, dirExists, clock>>
process == <<pc, cli, unit>>
counters == <<edits, invocations>>
vars == <<disk, process, counters, settled>>

Idle == [mode |-> "legacy-v1", profile |-> Dev, named |-> {}, orchestrated |-> FALSE,
         planned |-> FALSE, rlib |-> 0, todo |-> {}, compiled |-> {}, doomed |-> {}]
Locals ==
  [mode : Modes, profile : Profiles, named : SUBSET Profiles,
   orchestrated : BOOLEAN, planned : BOOLEAN,
   rlib : Nat,                  \* the version of the retained Runtime, 0: none
   todo : SUBSET Packages,      \* what Cargo still has to compile
   compiled : SUBSET Packages,  \* what the pre-pass compiled
   doomed : SUBSET Packages]    \* what is to be cleaned
Units == [pkg : Packages, build : Artifacts]
NoUnit == [pkg |-> NoPackage, build |-> NoArtifact]
NotSettled == [mode |-> "none", profile |-> Dev]

\* The CLI's locals for the invocation under way.
here == artifact[cli.profile]

-----------------------------------------------------------------------------
(* What the CLI computes *)

\* desired_instrumented_package_ids, and what the wrapper does not skip: the
\* dependency policy leaves out the workspace and the runtime's closure, the
\* legacy one the registry packages.
Desired(mode) ==
  IF mode = "dependencies-v1" THEN Deps \ RuntimeClosure
                              ELSE PathDeps \cup {App}

OwnStale(p) == here[p] = NoArtifact \/ here[p].version # source[p]

\* Cargo's freshness, decided for the whole graph when a build starts.
Stale(p) ==
  \/ OwnStale(p)
  \/ \E q \in Packages :
       /\ <<p, q>> \in Needs
       /\ OwnStale(q) \/ here[q].at > here[p].at

StampValid_AnyAge(p) == stamp[cli.profile][p] # 0
StampValid_Strict(p) ==
  /\ stamp[cli.profile][p] # 0
  /\ stamp[cli.profile][p] + Slack > here[p].at
StampValid(p) ==
  /\ stamp[cli.profile][p] # 0
  /\ stamp[cli.profile][p] + Slack >= here[p].at

\* The desired packages the pre-pass compiled, and those it found fresh that
\* have no valid stamp (uninstrumented_fresh_package_ids).
Dirty ==
  {p \in Desired(cli.mode) : p \in cli.compiled \/ ~StampValid(p)}

\* `cargo instrument` notices that the directory holds another policy's work.
PolicyDiffers_TrustsMissing(mode) ==
  policyFile # "none" /\ policyFile # mode
PolicyDiffers(mode) ==
  \/ policyFile # "none" /\ policyFile # mode
  \/ mode = "dependencies-v1" /\ dirExists /\ policyFile = "none"

\* `cargo clean` works on the profiles that the flags name; without any, on the
\* whole directory, and on the dev profile if packages are given.
WipedProfiles == IF cli.named = {} THEN Profiles ELSE cli.named
CleanedProfiles == IF cli.named = {} THEN {Dev} ELSE cli.named

\* The selective clean works on the profile that is built.
CleansWhatItBuilds == cli.profile \in CleanedProfiles

Ready(p) ==
  /\ p \in cli.todo
  /\ \A q \in cli.todo : <<p, q>> \notin Needs

Build(p, form, instance) ==
  [version |-> source[p], form |-> form, at |-> clock + 1,
   instance |-> instance, policy |-> cli.mode, stamped |-> FALSE,
   tolerated |-> /\ stamp[cli.profile][p] # 0
                 /\ stamp[cli.profile][p] + Slack >= clock + 1]

-----------------------------------------------------------------------------
(* execute_cargo_with_wrapper: the policy and the plan *)

Invoke(mode, request, orchestrated) ==
  /\ pc = "idle"
  /\ invocations < MaxInvocations
  /\ invocations' = invocations + 1
  /\ cli' = [Idle EXCEPT !.mode = mode, !.profile = request.profile,
                         !.named = request.named, !.orchestrated = orchestrated]
  /\ pc' = IF PolicyDiffers(mode) THEN "wipe" ELSE "plan"
  /\ UNCHANGED <<disk, unit, edits, settled>>

\* The clean removes files in no given order; a kill can leave any of them.
WipeArtifact(q, p) ==
  /\ pc = "wipe"
  /\ q \in WipedProfiles
  /\ artifact[q][p] # NoArtifact
  /\ artifact' = [artifact EXCEPT ![q][p] = NoArtifact]
  /\ UNCHANGED <<source, stamp, policyFile, dirExists, clock, process, counters, settled>>

WipeStamp(q, p) ==
  /\ pc = "wipe"
  /\ q \in WipedProfiles
  /\ stamp[q][p] # 0
  /\ stamp' = [stamp EXCEPT ![q][p] = 0]
  /\ UNCHANGED <<source, artifact, policyFile, dirExists, clock, process, counters, settled>>

\* The policy file is in the target directory itself, which a clean of one
\* profile leaves in place.
WipePolicy ==
  /\ pc = "wipe"
  /\ WipedProfiles = Profiles
  /\ policyFile # "none"
  /\ policyFile' = "none"
  /\ UNCHANGED <<source, artifact, stamp, dirExists, clock, process, counters, settled>>

WipeDone ==
  /\ pc = "wipe"
  /\ \A q \in WipedProfiles, p \in Packages : artifact[q][p] = NoArtifact /\ stamp[q][p] = 0
  /\ WipedProfiles = Profiles => policyFile = "none"
  /\ dirExists' = (dirExists /\ WipedProfiles # Profiles)
  /\ pc' = "plan"
  /\ UNCHANGED <<source, artifact, stamp, policyFile, clock, cli, unit, counters, settled>>

\* build_session_plan: without metadata there is no plan, and no pre-pass.
Plan(found) ==
  /\ pc = "plan"
  /\ cli' = [cli EXCEPT !.planned = found]
  /\ pc' = IF found /\ cli.orchestrated THEN "prepass" ELSE "final"
  /\ UNCHANGED <<disk, unit, counters, settled>>

-----------------------------------------------------------------------------
(* acquire_native_artifacts *)

StartPrepass ==
  /\ pc = "prepass"
  /\ cli' = [cli EXCEPT !.todo = {p \in Packages : Stale(p)}]
  /\ dirExists' = TRUE
  /\ pc' = "precompile"
  /\ UNCHANGED <<source, artifact, stamp, policyFile, clock, unit, counters, settled>>

PrepassCompiles(p) ==
  /\ pc = "precompile"
  /\ Ready(p)
  /\ artifact' = [artifact EXCEPT ![cli.profile][p] = Build(p, "prepass", 0)]
  /\ clock' = clock + 1
  /\ cli' = [cli EXCEPT !.todo = @ \ {p}, !.compiled = @ \cup {p}]
  /\ UNCHANGED <<source, stamp, policyFile, dirExists, pc, unit, counters, settled>>

\* What is to be cleaned is decided; the native artifacts are kept or dropped.
Condemn(packages, rlib) ==
  /\ cli' = [cli EXCEPT !.doomed = packages, !.rlib = rlib, !.todo = {}]
  /\ pc' = "clean"

\* A unit does not compile, or the output is malformed or incomplete: what was
\* compiled is not known, so the whole desired set is condemned.
PrepassFails_TrustsOutput ==
  /\ pc = "precompile"
  /\ Condemn(Desired(cli.mode) \cap cli.compiled, 0)
  /\ settled' = NotSettled
  /\ UNCHANGED <<disk, unit, counters>>
PrepassFails ==
  /\ pc = "precompile"
  /\ Condemn(Desired(cli.mode), 0)
  /\ settled' = NotSettled
  /\ UNCHANGED <<disk, unit, counters>>

\* No eligible OpenTelemetry artifact is among the output.
FindNoRuntime ==
  /\ pc = "precompile"
  /\ cli.todo = {}
  /\ Condemn(Dirty, 0)
  /\ UNCHANGED <<disk, unit, counters, settled>>

\* It is captured, unless its closure overlaps the desired set.
CaptureRuntime ==
  /\ pc = "precompile"
  /\ cli.todo = {}
  /\ here[Runtime] # NoArtifact
  /\ IF Desired(cli.mode) \cap RuntimeClosure = {}
     THEN Condemn(Dirty \ RuntimeClosure, here[Runtime].version)
     ELSE Condemn(Desired(cli.mode), 0)
  /\ UNCHANGED <<disk, unit, counters, settled>>

\* invalidate_packages: `cargo clean --package` for each condemned package.
CleanPackage(q, p) ==
  /\ pc = "clean"
  /\ q \in CleanedProfiles
  /\ p \in cli.doomed
  /\ artifact[q][p] # NoArtifact
  /\ artifact' = [artifact EXCEPT ![q][p] = NoArtifact]
  /\ UNCHANGED <<source, stamp, policyFile, dirExists, clock, process, counters, settled>>

\* Then their stamps, by name prefix and in every profile; with nothing to
\* clean it returns early.
RemoveStamps ==
  /\ pc = "clean"
  /\ \A q \in CleanedProfiles, p \in cli.doomed : artifact[q][p] = NoArtifact
  /\ stamp' = [q \in Profiles |-> [p \in Packages |->
                 IF \E d \in cli.doomed : <<d, p>> \in StampPrefixOf THEN 0 ELSE stamp[q][p]]]
  /\ cli' = [cli EXCEPT !.doomed = {}, !.compiled = {}]
  /\ pc' = "verify"
  /\ UNCHANGED <<source, artifact, policyFile, dirExists, clock, unit, counters, settled>>

\* A refusal because of a shared name, or a failing cargo clean: exit 1.
CleanFails ==
  /\ pc = "clean"
  /\ cli.doomed # {}
  /\ pc' = "idle"
  /\ cli' = Idle
  /\ settled' = NotSettled
  /\ UNCHANGED <<disk, unit, counters>>

\* The retained library disappeared: drop it and condemn the desired set.
FindRuntimeMissing_Kept ==
  /\ pc = "verify"
  /\ cli.rlib # 0 /\ here[Runtime] = NoArtifact
  /\ Condemn(Desired(cli.mode), cli.rlib)
  /\ UNCHANGED <<disk, unit, counters, settled>>
FindRuntimeMissing ==
  /\ pc = "verify"
  /\ cli.rlib # 0 /\ here[Runtime] = NoArtifact
  /\ Condemn(Desired(cli.mode), 0)
  /\ UNCHANGED <<disk, unit, counters, settled>>

FindRuntimeKept ==
  /\ pc = "verify"
  /\ cli.rlib = 0 \/ here[Runtime] # NoArtifact
  /\ pc' = "final"
  /\ UNCHANGED <<disk, cli, unit, counters, settled>>

-----------------------------------------------------------------------------
(* The final build: Cargo runs the wrapper for each stale unit *)

StartFinal ==
  /\ pc = "final"
  /\ cli' = [cli EXCEPT !.todo = {p \in Packages : Stale(p)}]
  /\ dirExists' = TRUE
  /\ pc' = "build"
  /\ UNCHANGED <<source, artifact, stamp, policyFile, clock, unit, counters, settled>>

\* The emitter run_wrapper ends up with.  Any unit may be passed through: it has
\* nothing to instrument, or a check or the mirror failed (S11).  A unit may find
\* no artifact of its own among the captured ones.  One with an extern of its own
\* gets nothing injected, and is native only if the captured artifact is the
\* library Cargo gives it; the application is native only with its own.
EmitterFor_Unmatched(p, form) ==
  \/ form = "passed"
  \/ /\ form = "native"
     /\ p \in Desired(cli.mode)
     /\ cli.rlib # 0
     /\ p \in OwnExtern \/ p # App
  \/ /\ form = "fallback"
     /\ p \in Desired(cli.mode)
     /\ ShimProvider \/ p = App
EmitterFor(p, form) ==
  \/ form = "passed"
  \/ /\ form = "native"
     /\ p \in Desired(cli.mode)
     /\ cli.rlib # 0
     /\ p \in OwnExtern => here[Runtime] # NoArtifact /\ here[Runtime].version = cli.rlib
     /\ p \in OwnExtern \/ p # App
  \/ /\ form = "fallback"
     /\ p \in Desired(cli.mode)
     /\ ShimProvider \/ p = App

RustcSucceeds(p, form) ==
  /\ pc = "build"
  /\ unit = NoUnit
  /\ Ready(p)
  /\ EmitterFor(p, form)
  /\ unit' = [pkg |-> p,
              build |-> Build(p, form, IF form = "native" THEN cli.rlib ELSE 0)]
  /\ artifact' = [artifact EXCEPT ![cli.profile][p] = NoArtifact]
  /\ clock' = clock + 1
  /\ UNCHANGED <<source, stamp, policyFile, dirExists, pc, cli, counters, settled>>

\* Only a transformed unit gets a stamp; a failing write is ignored.
StampUnit_Always ==
  /\ pc = "build"
  /\ unit # NoUnit
  /\ ~unit.build.stamped
  /\ stamp' = [stamp EXCEPT ![cli.profile][unit.pkg] = clock]
  /\ unit' = [unit EXCEPT !.build.stamped = TRUE]
  /\ UNCHANGED <<source, artifact, policyFile, dirExists, clock, pc, cli, counters, settled>>
StampUnit ==
  /\ pc = "build"
  /\ unit # NoUnit
  /\ unit.build.form \in Transformed
  /\ ~unit.build.stamped
  /\ stamp' = [stamp EXCEPT ![cli.profile][unit.pkg] = clock]
  /\ unit' = [unit EXCEPT !.build.stamped = TRUE]
  /\ UNCHANGED <<source, artifact, policyFile, dirExists, clock, pc, cli, counters, settled>>

\* The wrapper exits and Cargo takes the unit for compiled.
RecordUnit ==
  /\ pc = "build"
  /\ unit # NoUnit
  /\ artifact' = [artifact EXCEPT ![cli.profile][unit.pkg] = unit.build]
  /\ cli' = [cli EXCEPT !.todo = @ \ {unit.pkg}]
  /\ unit' = NoUnit
  /\ UNCHANGED <<source, stamp, policyFile, dirExists, clock, pc, counters, settled>>

\* A unit does not compile, or the program that `cargo run` starts fails.
BuildFails ==
  /\ pc = "build"
  /\ unit = NoUnit
  /\ pc' = "idle"
  /\ cli' = Idle
  /\ settled' = NotSettled
  /\ UNCHANGED <<disk, unit, counters>>

BuildSucceeds ==
  /\ pc = "build"
  /\ unit = NoUnit
  /\ cli.todo = {}
  /\ pc' = "record"
  /\ UNCHANGED <<disk, cli, unit, counters, settled>>

RecordPolicy_Profile ==
  /\ pc = "record"
  /\ policyFile' = cli.profile
  /\ settled' = NotSettled
  /\ pc' = "idle"
  /\ cli' = Idle
  /\ UNCHANGED <<source, artifact, stamp, dirExists, clock, unit, counters>>
RecordPolicy ==
  /\ pc = "record"
  /\ policyFile' = cli.mode
  /\ settled' = IF cli.planned /\ cli.orchestrated /\ CleansWhatItBuilds
                THEN [mode |-> cli.mode, profile |-> cli.profile] ELSE NotSettled
  /\ pc' = "idle"
  /\ cli' = Idle
  /\ UNCHANGED <<source, artifact, stamp, dirExists, clock, unit, counters>>

-----------------------------------------------------------------------------
(* Around the CLI *)

\* The CLI and the Cargo below it are killed.
Crash ==
  /\ pc # "idle"
  /\ pc' = "idle"
  /\ cli' = Idle
  /\ unit' = NoUnit
  /\ settled' = NotSettled
  /\ UNCHANGED <<disk, counters>>

\* Somebody edits a source, or updates the lock file.
Edit(p) ==
  /\ edits < MaxEdits
  /\ edits' = edits + 1
  /\ source' = [source EXCEPT ![p] = @ + 1]
  /\ settled' = NotSettled
  /\ UNCHANGED <<artifact, stamp, policyFile, dirExists, clock, process, invocations>>

\* Something else removes the library the CLI has retained.
LoseRuntime ==
  /\ pc \in {"clean", "verify"}
  /\ here[Runtime] # NoArtifact
  /\ artifact' = [artifact EXCEPT ![cli.profile][Runtime] = NoArtifact]
  /\ settled' = NotSettled
  /\ UNCHANGED <<source, stamp, policyFile, dirExists, clock, process, counters>>

-----------------------------------------------------------------------------

Init ==
  /\ source = [p \in Packages |-> 1]
  /\ artifact = [q \in Profiles |-> [p \in Packages |-> NoArtifact]]
  /\ stamp = [q \in Profiles |-> [p \in Packages |-> 0]]
  /\ policyFile = "none"
  /\ dirExists = FALSE
  /\ clock = 0
  /\ pc = "idle"
  /\ cli = Idle
  /\ unit = NoUnit
  /\ edits = 0
  /\ invocations = 0
  /\ settled = NotSettled

\* The steps that carry an invocation to its end.
Step ==
  \/ \E q \in Profiles, p \in Packages : WipeArtifact(q, p) \/ WipeStamp(q, p)
  \/ WipePolicy
  \/ WipeDone
  \/ \E found \in BOOLEAN : Plan(found)
  \/ StartPrepass
  \/ \E p \in Packages : PrepassCompiles(p)
  \/ PrepassFails
  \/ FindNoRuntime
  \/ CaptureRuntime
  \/ \E q \in Profiles, p \in Packages : CleanPackage(q, p)
  \/ RemoveStamps
  \/ CleanFails
  \/ FindRuntimeMissing
  \/ FindRuntimeKept
  \/ StartFinal
  \/ \E p \in Packages, form \in Forms : RustcSucceeds(p, form)
  \/ StampUnit
  \/ RecordUnit
  \/ BuildFails
  \/ BuildSucceeds
  \/ RecordPolicy

Environment ==
  \/ \E mode \in Modes, request \in Requests, orchestrated \in BOOLEAN :
       Invoke(mode, request, orchestrated)
  \/ Crash
  \/ \E p \in Packages : Edit(p)
  \/ LoseRuntime

Next == Step \/ Environment

Spec == Init /\ [][Next]_vars

\* The CLI and the processes it waits for run to their end.
FairSpec == Spec /\ WF_vars(Step)

-----------------------------------------------------------------------------

TypeOK ==
  /\ source \in [Packages -> 1 .. edits + 1]
  /\ artifact \in [Profiles -> [Packages -> Artifacts \cup {NoArtifact}]]
  /\ stamp \in [Profiles -> [Packages -> 0 .. clock]]
  /\ policyFile \in Modes \cup {"none"}
  /\ dirExists \in BOOLEAN
  /\ clock \in Nat
  /\ pc \in {"idle", "wipe", "plan", "prepass", "precompile", "clean", "verify",
             "final", "build", "record"}
  /\ cli \in Locals
  /\ unit \in Units \cup {NoUnit}
  /\ edits \in 0 .. MaxEdits
  /\ invocations \in 0 .. MaxInvocations
  /\ settled \in [mode : Modes \cup {"none"}, profile : Profiles]

\* A valid stamp proves that the artifact was compiled from a transformed mirror
\* (UnitId::instrumentation_stamp_name), however often the CLI was killed, except
\* for what was compiled within the second that an older stamp is given.
StampsProve ==
  \A q \in Profiles, p \in Packages :
    /\ artifact[q][p] # NoArtifact
    /\ stamp[q][p] # 0
    /\ stamp[q][p] + Slack >= artifact[q][p].at
    => artifact[q][p].form \in Transformed \/ artifact[q][p].tolerated

\* No artifact of the unwrapped pre-pass is in a finished build, whatever was left
\* behind by the invocations before it ("so the final build cannot reuse
\* uninstrumented artifacts from the pre-pass", clean_forward_flags), except again
\* for what the tolerance lets through.
PrepassIsReplaced ==
  pc = "record" /\ cli.planned /\ cli.orchestrated =>
    \A p \in Desired(cli.mode) :
      here[p] # NoArtifact /\ (here[p].form # "prepass" \/ here[p].tolerated)

\* That is so if the clean works on the profile that is built, which it does not
\* after -r, whichever builds came before and whatever these cleaned.
PrepassIsReplacedIfCleaned == CleansWhatItBuilds => PrepassIsReplaced

\* A build that repeats the last one keeps what was transformed and stamped, if that
\* one cleaned the profile it built.
RepeatKeepsStamped ==
  /\ pc = "clean"
  /\ settled = [mode |-> cli.mode, profile |-> cli.profile]
  /\ Desired(cli.mode) \cap RuntimeClosure = {}
  => \A p \in cli.doomed : here[p] # NoArtifact => ~here[p].stamped

\* Every recovery path comes to an end.
InvocationsEnd == pc # "idle" ~> pc = "idle"

\* What a finished build contains was compiled under its own policy.
PolicyChangesInvalidate ==
  pc = "record" => \A p \in Packages : here[p] # NoArtifact => here[p].policy = cli.mode

\* This is so for --with-dependencies where no flag names a profile for the clean,
\* whatever was killed, failed or half removed before: while the policy file names
\* that policy nothing of the other is in the directory, and a directory without
\* the file is not trusted.
DependenciesAreOwn ==
  pc = "record" /\ cli.mode = "dependencies-v1" =>
    \A p \in Packages : here[p] # NoArtifact => here[p].policy = cli.mode

\* A native unit with an extern of its own is bound to the OpenTelemetry that the
\* finished build has, though the artifact was captured before it and lock file,
\* library and process may go in between.
OwnExternsAgree ==
  pc = "record" /\ here[Runtime] # NoArtifact =>
    \A p \in OwnExtern :
      here[p] # NoArtifact /\ here[p].form = "native"
      => here[p].instance = here[Runtime].version
=============================================================================
