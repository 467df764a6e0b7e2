-------------------------- MODULE InstrumentedBuild --------------------------
(***************************************************************************)
(* `cargo instrument` over a workspace with several binaries: the plan of  *)
(* each invocation, the pre-pass and the artifacts captured from it, the   *)
(* wrapper's decision for every unit, and what the images Cargo links in   *)
(* the end are made of (cargo-instrument/src/main.rs with SessionPlan and  *)
(* WrapperDecision).                                                       *)
(*                                                                         *)
(* BuildOrchestration has one package graph and looks at edits, kills and  *)
(* stamps; here nothing is edited, and the graph, the selection of         *)
(* packages and the settings vary.  Cargo is modelled by what it needs to  *)
(* build and link.                                                         *)
(***************************************************************************)
EXTENDS WrapperDecision

CONSTANTS Worlds,          \* the workspaces looked at
          Invocations,     \* what the CLI may be asked
          Hyphened,        \* those of OtelFamily whose name has a hyphen
          Fragile          \* packages whose source may resist transformation

Commands == {"build", "test"}

\* A workspace with the settings of its builds.
WorldRecords ==
  [edges : SUBSET Edges,
   renamed : SUBSET Packages,      \* packages whose crate has a name of its own
   profile : [Sides -> Profiles],
   explicit : BOOLEAN,             \* the Cargo configuration sets build.target
   trace : SUBSET Sides,           \* where OpenTelemetry has the feature trace
   rt : BOOLEAN,                   \* Tokio has the feature rt
   mode : Modes,
   enforced : BOOLEAN,
   limit : Nat]                    \* bound: runs of the CLI

ASSUME WorldsAssumption ==
  /\ Invocations \subseteq [request : (SUBSET Members) \ {{}}, named : BOOLEAN,
                             command : Commands]
  /\ Hyphened \subseteq OtelFamily \ Named("opentelemetry")
  /\ Worlds \subseteq WorldRecords
  /\ "renamed" \notin Names
  /\ \A w \in Worlds :
       /\ \A p \in w.renamed : Name[p] \notin {"otel_shim", "cargo_instrument"}
       /\ \A e \in w.edges : e.binding = "otel_shim" => e.to \in Named("otel_shim")

VARIABLES world,     \* the workspace
          artifact,  \* artifact[u]: how u was compiled last, NoArtifact if it is not there
          pc, inv,   \* where the invocation is, and its locals
          count      \* invocations so far

vars == <<world, artifact, pc, inv, count>>

\* A compiled unit.  for: what was built when it was compiled (auxiliary).
Compiled == [form : Forms, otel : Units \cup {NoUnit}, spawns : BOOLEAN,
             for : SUBSET Members]
ASSUME CompiledAssumption == NoArtifact \notin Compiled

Nothing == [request |-> {}, command |-> "build", plan |-> PlanOf({}, {}),
            desired |-> {}, own |-> FALSE, todo |-> {}, broken |-> {}]

-----------------------------------------------------------------------------
(* What Cargo builds *)

\* One unit serves both sides unless they are told apart.
Shared == /\ ~world.explicit
          /\ world.profile["target"] = world.profile["host"]
          /\ world.trace \in {{}, Sides}

Unit(p, side) == [pkg |-> p, side |-> IF Shared THEN "target" ELSE side]

Tested == IF inv.command = "test" THEN inv.request ELSE {}

\* The edges Cargo links along: dev-dependencies only to test a package.
Linked == {e \in world.edges : /\ e.built
                               /\ e.kind = "dev" => e.from \in Tested
                               /\ e.kind # "build"}
Links(p) == {e \in Linked : e.from = p}
LinkPairs == Pairs({e \in Linked : e.to \notin ProcMacros})

TargetPackages == Reach(inv.request \ ProcMacros, LinkPairs)

\* Where the host's part of the build begins: proc-macros and what build scripts link.
HostRoots ==
  LET targets == TargetPackages
  IN  (ProcMacros \cap (inv.request \cup {e.to : e \in {d \in Linked : d.from \in targets}}))
        \cup {e.to : e \in {d \in world.edges :
                               d.kind = "build" /\ d.built /\ d.from \in targets}}

Needed == {Unit(p, "target") : p \in TargetPackages}
            \cup {Unit(p, "host") : p \in Reach(HostRoots, LinkPairs)}

Using(u, p) == Unit(p, IF p \in ProcMacros THEN "host" ELSE u.side)
UsesOf(u) == {Using(u, e.to) : e \in Links(u.pkg)}

\* The units to compile: the missing ones and those that use a compiled one.
ToCompile ==
  Reach({u \in Needed : artifact[u] = NoArtifact},
        UNION {UsesOf(u) \X {u} : u \in Needed})

\* The invocation of rustc for a unit.
Rustc(u) ==
  [pkg |-> u.pkg,
   crate |-> IF u.pkg \in world.renamed THEN "renamed" ELSE Name[u.pkg],
   target |-> IF world.explicit /\ u.side = "target" THEN "triple" ELSE "none",
   flags |-> CargoFlags(world.profile[u.side]),
   externs |-> {[binding |-> e.binding, rlib |-> Using(u, e.to)] : e \in Links(u.pkg)}]

\* The images of a build, and the units linked into each.  A build script is
\* named by what it links.
Images == {Unit(p, "target") : p \in inv.request \cap Executables}
            \cup {Unit(p, "host") : p \in HostRoots}
LinkedInto(image) ==
  {Unit(p, image.side) : p \in Reach({image.pkg}, LinkPairs)}

\* Trampolines call symbols that only the shim defines.
Unresolved(built) ==
  {i \in Images :
     LET linked == LinkedInto(i)
     IN  /\ \E u \in linked : built[u].form = "trampoline"
         /\ \A u \in linked : u.pkg \notin Named("otel_shim")}

\* The compiler-artifact messages of a build: one for every library unit.
Messages ==
  {[pkg |-> u.pkg,
    profile |-> world.profile[u.side],
    enough |-> IF u.pkg \in Named("tokio") THEN world.rt ELSE u.side \in world.trace,
    rlib |-> u] : u \in {v \in Needed : v.pkg \notin ProcMacros \cup Executables}}

-----------------------------------------------------------------------------
(* The CLI *)

\* The plan of a selection under the mode.
PlanFor(selected) ==
  LET plan == PlanOf(world.edges, selected)
  IN  IF world.mode = "dependencies" THEN DependencyOnly(plan) ELSE plan

\* desired_instrumented_package_ids.  The family is told by "opentelemetry_",
\* with which a name that has a hyphen there does not start.
Desired_Unfiltered(plan) ==
  {p \in plan.reachable : p \notin FromRegistry \/ world.mode # "legacy"}
Desired(plan) ==
  {p \in plan.reachable \ plan.excluded :
     /\ p \notin OtelFamily \ Hyphened
     /\ Name[p] \notin {"otel_shim", "cargo_instrument"}
     /\ p \notin FromRegistry \/ world.mode # "legacy"}

\* retained_artifact_closure.
Retained_Direct(plan) == {a.pkg : a \in plan.otel}
Retained(plan) == Reach({a.pkg : a \in plan.otel}, Pairs(plan.edges))

\* Only a transformed unit leaves a stamp.
Stamped(u, built) == built[u] # NoArtifact /\ built[u].form # "plain"

Clean(packages, built) ==
  [u \in Units |-> IF u.pkg \in packages THEN NoArtifact ELSE built[u]]

\* execute_cargo_with_wrapper up to the pre-pass: the request is what Cargo will
\* build; named says whether -p names it.
Invoke(request, named, command) ==
  /\ pc = "idle"
  /\ count < world.limit
  /\ LET plan == PlanFor(IF named THEN request ELSE {})
     IN  inv' = [Nothing EXCEPT !.request = request, !.command = command,
                                !.plan = plan, !.desired = Desired(plan)]
  /\ pc' = IF command = "build" THEN "prepass" ELSE "planned"
  /\ count' = count + 1
  /\ UNCHANGED <<world, artifact>>

\* The artifacts after the pre-pass, which compiles without the wrapper.
AfterPrepass(compiled) ==
  [u \in Units |-> IF u \in compiled
                   THEN [form |-> "plain", otel |-> NoUnit, spawns |-> FALSE,
                         for |-> inv.request]
                   ELSE artifact[u]]

\* acquire_native_artifacts when the pre-pass failed, its output is incomplete,
\* or the retained artifact is gone.
Tier2(built) ==
  /\ artifact' = Clean(inv.desired, built)
  /\ inv' = [inv EXCEPT !.plan = Forget(@)]

\* A fault can make any pre-pass fail; one that does not link, or whose artifacts
\* are ambiguous, has no other way.
PrepassFails ==
  /\ pc = "prepass"
  /\ Tier2(AfterPrepass(ToCompile))
  /\ pc' = "planned"
  /\ UNCHANGED <<world, count>>

PrepassSucceeds ==
  /\ pc = "prepass"
  /\ LET compiled == ToCompile
         built == AfterPrepass(compiled)
         messages == Messages
         plan == Capture(inv.plan, messages)
         retained == Retained(plan)
         dirty == {u.pkg : u \in compiled \cup {v \in Needed : ~Stamped(v, built)}}
     IN  /\ Unresolved(built) = {}
         /\ ~CaptureFails(inv.plan, messages)
         /\ IF inv.desired \cap retained # {}
            THEN /\ artifact' = Clean(inv.desired, built)
                 /\ inv' = [inv EXCEPT !.plan = [plan EXCEPT !.otel = {}]]
            ELSE /\ artifact' = Clean((inv.desired \cap dirty) \ retained, built)
                 /\ inv' = [inv EXCEPT !.plan = plan]
  /\ pc' = "planned"
  /\ UNCHANGED <<world, count>>

StartBuild ==
  /\ pc = "planned"
  /\ inv' = [inv EXCEPT !.todo = ToCompile]
  /\ pc' = "building"
  /\ UNCHANGED <<world, artifact, count>>

\* The session file is gone or stale: a wrapper makes a plan of its own from the
\* metadata, for every root and without artifacts, and saves it for the others.
LosePlan ==
  /\ pc = "building"
  /\ inv.todo # {}
  /\ ~inv.own
  /\ inv' = [inv EXCEPT !.plan = PlanFor({}), !.own = TRUE]
  /\ UNCHANGED <<world, artifact, pc, count>>

\* run_wrapper for one unit; asItIs: the source is not transformable or cannot be
\* mirrored.
Compile(u, asItIs) ==
  /\ pc = "building"
  /\ u \in inv.todo
  /\ UsesOf(u) \cap inv.todo = {}
  /\ asItIs => u.pkg \in Fragile
  /\ LET form == IF asItIs THEN "plain"
                 ELSE Emitter(inv.plan, Rustc(u), world.mode, world.enforced)
     IN  artifact' = [artifact EXCEPT ![u] =
                        [form |-> form,
                         otel |-> BoundOtel(inv.plan, Rustc(u), form),
                         spawns |-> RewritesSpawns(inv.plan, Rustc(u), form),
                         for |-> inv.request]]
  /\ inv' = [inv EXCEPT !.todo = @ \ {u}]
  /\ UNCHANGED <<world, pc, count>>

\* Cargo links.
Link ==
  /\ pc = "building"
  /\ inv.todo = {}
  /\ inv' = [inv EXCEPT !.broken = Unresolved(artifact)]
  /\ pc' = "linked"
  /\ UNCHANGED <<world, artifact, count>>

End ==
  /\ pc = "linked"
  /\ pc' = "idle"
  /\ inv' = Nothing
  /\ UNCHANGED <<world, artifact, count>>

Init ==
  /\ world \in Worlds
  /\ artifact = [u \in Units |-> NoArtifact]
  /\ pc = "idle"
  /\ inv = Nothing
  /\ count = 0

Next ==
  \/ \E i \in Invocations : Invoke(i.request, i.named, i.command)
  \/ PrepassFails
  \/ PrepassSucceeds
  \/ StartBuild
  \/ LosePlan
  \/ \E u \in Units, asItIs \in BOOLEAN : Compile(u, asItIs)
  \/ Link
  \/ End

Spec == Init /\ [][Next]_vars

-----------------------------------------------------------------------------
(* Properties *)

TypeOK ==
  /\ artifact \in [Units -> Compiled \cup {NoArtifact}]
  /\ pc \in {"idle", "prepass", "planned", "building", "linked"}
  /\ inv.request \subseteq Members
  /\ inv.command \in Commands
  /\ inv.desired \subseteq Packages
  /\ inv.todo \cup inv.broken \subseteq Units
  /\ inv.plan.otel \cup inv.plan.tokio \subseteq Artifacts
  /\ count \in 0..world.limit

Transformed(u) == artifact[u] # NoArtifact /\ artifact[u].form # "plain"

\* An image that does not link has one of the four things the plan cannot see:
\* it runs on the host and shares a package with the target; it reaches the shim
\* in the metadata but not in this build; a trampolined crate has another name
\* than its package; or it takes over a unit compiled for another selection
\* with no pre-pass in between.
BeyondThePlan(i) ==
  \/ i.pkg \notin inv.request \cap Executables
       /\ \E u \in LinkedInto(i) :
            /\ Transformed(u)
            /\ u.pkg \in PlanFor({}).reachable \cup PlanFor(artifact[u].for).reachable
  \/ Reach({i.pkg}, Pairs(TargetEdges(world.edges))) \cap Named("otel_shim") # {}
  \/ \E u \in LinkedInto(i) : Transformed(u) /\ u.pkg \in world.renamed
  \/ inv.command = "test" /\ \E u \in LinkedInto(i) : artifact[u].for # inv.request

\* Instrumentation does not break a link (is_shim_unsafe and the gates around
\* it): an image without the shim gets no trampoline, whatever the other
\* images of the workspace link.
ImagesLink == \A i \in inv.broken : BeyondThePlan(i)

\* Spans of natively instrumented code reach the provider of the program: an
\* executable that was asked for and whose native units were compiled for the
\* same selection has a single instance of OpenTelemetry, whatever its units are
\* bound to.  A test that follows a build must not tell the sides apart.
OneOtelInstance ==
  pc = "linked" /\ inv.broken = {} /\ (inv.command = "build" \/ Shared) =>
    \A i \in Images :
      LET linked == LinkedInto(i)
          natives == {u \in linked : artifact[u].form = "native"}
      IN  /\ i.pkg \in inv.request \cap Executables
          /\ natives # {}
          /\ \A u \in natives : artifact[u].for = inv.request
          => Cardinality({u \in linked : u.pkg \in Named("opentelemetry")}
                           \cup {artifact[u].otel : u \in natives}) = 1

\* No unit is bound to an OpenTelemetry that is itself built from that unit.
NativeIsAcyclic ==
  pc = "linked" => \A u \in Units :
    Transformed(u) /\ artifact[u].form = "native" =>
      u.pkg \notin Reach({artifact[u].otel.pkg}, Pairs(world.edges))

\* Under --with-dependencies neither the workspace's code nor anything the
\* telemetry runtime and the executor are built from is ever transformed.
RuntimeIsUntouched ==
  pc = "linked" /\ world.mode = "dependencies" =>
    LET runtime == Reach(OtelFamily \cup Named("otel_shim") \cup Named("tokio"),
                         Pairs(world.edges))
    IN  \A u \in Units : Transformed(u) => u.pkg \notin Members \cup runtime

\* spawn calls are rewritten only where the name tokio is Tokio, with its runtime.
SpawnsAreTokios ==
  pc = "linked" => \A u \in Units :
    Transformed(u) /\ artifact[u].spawns =>
      /\ world.rt
      /\ \A e \in world.edges :
           e.from = u.pkg /\ e.binding = "tokio" /\ e.built => e.to \in Named("tokio")

\* What the CLI cleans to have it instrumented the wrapper does not leave alone,
\* unless the package lies inside the directory of one that is not reached, is
\* of the OpenTelemetry family under a name the CLI does not know, or is only
\* reached from the selection that a wrapper with a plan of its own has not.
CleanedIsTreated ==
  pc = "linked" /\ inv.command = "build" =>
    \A p \in inv.desired :
      Skips(inv.plan, Rustc(Unit(p, "target")), world.mode) =>
        \/ p \in Hyphened
        \/ \E d \in inv.plan.hostDirs : <<p, d>> \in Inside
        \/ inv.own /\ p \notin inv.plan.reachable
=============================================================================
