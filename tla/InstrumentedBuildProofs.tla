------------------------ MODULE InstrumentedBuildProofs ------------------------
(***************************************************************************)
(* Theorems about InstrumentedBuild, for all workspaces, settings and      *)
(* sequences of invocations.                                               *)
(***************************************************************************)
EXTENDS InstrumentedBuild, SessionPlanProofs

-----------------------------------------------------------------------------
(* What a workspace determines, whichever invocation there is *)

SharedIn(w) ==
  /\ ~w.explicit
  /\ w.profile["target"] = w.profile["host"]
  /\ w.trace \in {{}, Sides}
UnitIn(w, p, side) == [pkg |-> p, side |-> IF SharedIn(w) THEN "target" ELSE side]

PlanIn(w, selected) ==
  LET plan == PlanOf(w.edges, selected)
  IN  IF w.mode = "dependencies" THEN DependencyOnly(plan) ELSE plan

Runtime(edges) ==
  Reach(OtelFamily \cup Named("otel_shim") \cup Named("tokio"), Pairs(edges))

\* What the policy excludes, whatever is selected.
ExcludedIn(w) == IF w.mode = "dependencies" THEN Members \cup Runtime(w.edges) ELSE {}

\* What the wrapper instruments if it is reachable.
Treatable(w, p) ==
  /\ p \notin ExcludedIn(w)
  /\ p \notin OtelFamily
  /\ Name[p] \notin {"otel_shim", "cargo_instrument"}
  /\ p \notin FromRegistry \/ w.mode # "legacy"

DesiredIn(w, selected) ==
  {p \in PlanIn(w, selected).reachable \ ExcludedIn(w) :
     /\ p \notin OtelFamily \ Hyphened
     /\ Name[p] \notin {"otel_shim", "cargo_instrument"}
     /\ p \notin FromRegistry \/ w.mode # "legacy"}

\* What `build' needs for a request, reports, and links into an image.
BuildEdges(w) == {e \in w.edges : e.built /\ e.kind = "normal"}
BuildPairs(w) == Pairs({e \in BuildEdges(w) : e.to \notin ProcMacros})
TargetsIn(w, request) == Reach(request \ ProcMacros, BuildPairs(w))
HostsIn(w, request) ==
  (ProcMacros \cap
     (request \cup {e.to : e \in {d \in BuildEdges(w) : d.from \in TargetsIn(w, request)}}))
    \cup {e.to : e \in {d \in w.edges :
                           d.kind = "build" /\ d.built /\ d.from \in TargetsIn(w, request)}}
NeededIn(w, request) ==
  {UnitIn(w, p, "target") : p \in TargetsIn(w, request)}
    \cup {UnitIn(w, p, "host") : p \in Reach(HostsIn(w, request), BuildPairs(w))}
Message(w, u) ==
  [pkg |-> u.pkg, profile |-> w.profile[u.side],
   enough |-> IF u.pkg \in Named("tokio") THEN w.rt ELSE u.side \in w.trace,
   rlib |-> u]
MessagesIn(w, request) ==
  {Message(w, u) : u \in {v \in NeededIn(w, request) : v.pkg \notin ProcMacros \cup Executables}}
ImagesIn(w, request) ==
  {UnitIn(w, p, "target") : p \in request \cap Executables}
    \cup {UnitIn(w, p, "host") : p \in HostsIn(w, request)}
LinkedIn(w, image) == {UnitIn(w, p, image.side) : p \in Reach({image.pkg}, BuildPairs(w))}

-----------------------------------------------------------------------------
(* The inductive invariant *)

PlanFields == {"edges", "provider", "shimUnsafe", "reachable", "hostNames", "hostDirs",
               "otelOf", "tokioOf", "excluded", "otel", "tokio"}

\* A plan is that of a selection, with artifacts of this build.
PlanOK(w, plan, selected) ==
  /\ DOMAIN plan = PlanFields
  /\ \A f \in PlanFields \ {"otel", "tokio"} : plan[f] = PlanIn(w, selected)[f]
  /\ plan.otel \cup plan.tokio \subseteq Artifacts
  /\ \A a \in plan.tokio : a.pkg \in Named("tokio") => a.enough = w.rt

\* The plan has artifacts only as the pre-pass of this invocation captured them,
\* and then nothing they are built from is to be instrumented.
CapturedOK ==
  /\ inv.command = "build" /\ ~inv.own
  /\ inv.plan.otel = Reported(MessagesIn(world, inv.request), WantedOtel(inv.plan))
  /\ ~Ambiguous(inv.plan.otel)
  /\ inv.desired \cap Retained(inv.plan) = {}

\* A wrapper has the plan of what the CLI chose, or of the whole workspace.
InvocationOK ==
  /\ DOMAIN inv = {"request", "command", "plan", "desired", "own", "todo", "broken"}
  /\ pc # "linked" => inv.broken = {}
  /\ pc \in {"prepass", "planned"} => ~inv.own
  /\ pc = "prepass" => inv.command = "build"
  /\ pc # "idle" =>
       /\ \E selected \in {{}, inv.request} :
            /\ inv.desired = DesiredIn(world, selected)
            /\ inv.own => PlanOK(world, inv.plan, {})
            /\ ~inv.own => PlanOK(world, inv.plan, selected)
       /\ inv.plan.otel # {} => CapturedOK

\* A natively instrumented unit is bound to an OpenTelemetry that it is no part
\* of, which is the only one of its profile in that build and the only one any
\* executable then asked for has with the unit.
NativeOK(w, u, unit) ==
  /\ u.pkg \notin Reach({unit.otel.pkg}, Pairs(w.edges))
  /\ unit.otel \in NeededIn(w, unit.for)
  /\ \A v \in NeededIn(w, unit.for) :
       v.pkg = unit.otel.pkg /\ w.profile[v.side] = w.profile[u.side] => v = unit.otel
  /\ w.profile[unit.otel.side] = w.profile[u.side]
  /\ \A p \in unit.for \cap Executables :
       u.pkg \in Reached(p, w.edges) =>
         Reached(p, w.edges) \cap Named("opentelemetry") = {unit.otel.pkg}

\* Every executable then asked for that has a trampolined unit has the shim.
TrampolineOK(w, u, unit) ==
  u.pkg \notin w.renamed =>
    \A p \in unit.for \cap Executables :
      u.pkg \in Reached(p, w.edges) => Reached(p, w.edges) \cap Named("otel_shim") # {}

SpawnsOK(w, u, unit) ==
  unit.spawns =>
    /\ w.rt
    /\ \A e \in w.edges : e.from = u.pkg /\ e.binding = "tokio" => e.to \in Named("tokio")

TransformedOK(w, u, unit) ==
  /\ Treatable(w, u.pkg)
  /\ u.pkg \in PlanIn(w, {}).reachable \cup PlanIn(w, unit.for).reachable
  /\ SpawnsOK(w, u, unit)
  /\ unit.form = "native" => NativeOK(w, u, unit)
  /\ unit.form = "trampoline" => TrampolineOK(w, u, unit)

ArtifactsOK == \A u \in Units : Transformed(u) => TransformedOK(world, u, artifact[u])

\* The pre-pass has found the shim in every executable that takes over a
\* trampolined unit compiled for another selection, or the unit was cleaned.
TakenOverOK ==
  \A i \in ImagesIn(world, inv.request) :
    i.pkg \in inv.request \cap Executables
    /\ (\A s \in LinkedIn(world, i) : s.pkg \notin Named("otel_shim")) =>
      \A u \in LinkedIn(world, i) :
        Transformed(u) /\ artifact[u].form = "trampoline" /\ u.pkg \notin world.renamed =>
          i.pkg \in artifact[u].for

BuildOK ==
  /\ pc \in {"building", "linked"} =>
       \A u \in Needed : artifact[u] = NoArtifact => u \in inv.todo
  /\ pc = "linked" => inv.todo = {} /\ inv.broken = Unresolved(artifact)
  /\ inv.command = "build" /\ pc \in {"planned", "building", "linked"} => TakenOverOK

IInv ==
  /\ world \in Worlds
  /\ TypeOK
  /\ InvocationOK
  /\ ArtifactsOK
  /\ BuildOK

-----------------------------------------------------------------------------
(* Workspaces and their plans *)

LEMMA WorldFacts ==
  ASSUME NEW w \in Worlds
  PROVE  /\ w.edges \in SUBSET Edges
         /\ w.profile \in [Sides -> Profiles]
         /\ w.rt \in BOOLEAN /\ w.limit \in Nat
         /\ \A p \in w.renamed : Name[p] \notin {"otel_shim", "cargo_instrument"}
         /\ \A e \in w.edges : e.binding = "otel_shim" => e.to \in Named("otel_shim")
         /\ Pairs(w.edges) \in SUBSET (Packages \X Packages)
         /\ BuildPairs(w) \in SUBSET (Packages \X Packages)
<1>1. w \in WorldRecords
  BY WorldsAssumption
<1>2. w.edges \in SUBSET Edges
  BY <1>1 DEF WorldRecords
<1>3. w.profile \in [Sides -> Profiles] /\ w.rt \in BOOLEAN /\ w.limit \in Nat
  BY <1>1 DEF WorldRecords
<1>4. \A e \in w.edges : e.from \in Packages /\ e.to \in Packages
  BY <1>2 DEF Edges
<1>5. Pairs(w.edges) \in SUBSET (Packages \X Packages)
  BY <1>4, PairsOfEdges
<1>6. BuildPairs(w) \in SUBSET (Packages \X Packages)
  BY <1>4, PairsOfEdges DEF BuildPairs, BuildEdges
<1> QED
  BY <1>2, <1>3, <1>5, <1>6, WorldsAssumption

LEMMA PackageSets ==
  /\ Members \subseteq Packages /\ ProcMacros \subseteq Packages
  /\ Executables \subseteq Packages \ ProcMacros /\ OtelFamily \subseteq Packages
  /\ \A name : Named(name) \subseteq Packages
  /\ Named("otel_shim") \cap ProcMacros = {}
BY PackagesAssumption DEF Named

LEMMA PlanInParts ==
  ASSUME NEW w \in Worlds, NEW selected \in SUBSET Members
  PROVE  LET plan == PlanIn(w, selected)
             roots == TargetRoots(w.edges, selected)
             reached == Reachability(w.edges, roots)
         IN  /\ DOMAIN plan = PlanFields
             /\ plan.edges = w.edges
             /\ plan.otel = {} /\ plan.tokio = {}
             /\ plan.excluded = ExcludedIn(w)
             /\ plan.tokioOf = TokioPackage(w.edges)
             /\ plan.otelOf = R4OtelPackage(reached)
             /\ plan.reachable = UNION {Reached(r, w.edges) : r \in roots}
             /\ plan.reachable \subseteq Packages \ ProcMacros
             /\ plan.hostNames = Names \ {Name[p] : p \in plan.reachable}
             /\ plan.hostDirs = Packages \ plan.reachable
             /\ plan.shimUnsafe = PlanOf(w.edges, selected).shimUnsafe
<1> DEFINE plan == PlanOf(w.edges, selected)
           roots == TargetRoots(w.edges, selected)
           reached == Reachability(w.edges, roots)
<1>1. /\ DOMAIN plan = PlanFields /\ plan.edges = w.edges
      /\ plan.otel = {} /\ plan.tokio = {} /\ plan.excluded = {}
      /\ plan.tokioOf = TokioPackage(w.edges)
  BY DEF PlanOf, PlanFields
<1>2. /\ plan.reachable = UNION {Reached(r, w.edges) : r \in roots}
      /\ plan.hostNames = Names \ {Name[p] : p \in plan.reachable}
      /\ plan.hostDirs = Packages \ plan.reachable
      /\ plan.otelOf = R4OtelPackage(reached)
  BY PlanParts
<1>3. plan.reachable \subseteq Packages \ ProcMacros
  BY WorldFacts, ReachableIsTarget
<1> HIDE DEF plan, reached, roots
<1>4. PlanIn(w, selected) = IF w.mode = "dependencies" THEN DependencyOnly(plan) ELSE plan
  BY DEF PlanIn, plan
<1>5. /\ DOMAIN PlanIn(w, selected) = PlanFields
      /\ \A f \in PlanFields \ {"excluded"} : PlanIn(w, selected)[f] = plan[f]
      /\ PlanIn(w, selected).excluded = ExcludedIn(w)
  BY <1>1, <1>4 DEF DependencyOnly, ExcludedIn, Runtime, PlanFields
<1> QED
  BY <1>1, <1>2, <1>3, <1>5 DEF PlanFields, plan, reached, roots

LEMMA PlanForIs ==
  /\ \A selected : PlanFor(selected) = PlanIn(world, selected)
  /\ \A plan : Desired(plan) =
       {p \in plan.reachable \ plan.excluded :
          /\ p \notin OtelFamily \ Hyphened
          /\ Name[p] \notin {"otel_shim", "cargo_instrument"}
          /\ p \notin FromRegistry \/ world.mode # "legacy"}
BY DEF PlanFor, PlanIn, Desired

LEMMA PlanForOK ==
  ASSUME world \in Worlds, NEW selected \in SUBSET Members
  PROVE  /\ PlanOK(world, PlanFor(selected), selected)
         /\ PlanFor(selected).otel = {}
         /\ Desired(PlanFor(selected)) = DesiredIn(world, selected)
<1>1. PlanFor(selected) = PlanIn(world, selected)
  BY PlanForIs
<1>2. /\ DOMAIN PlanIn(world, selected) = PlanFields
      /\ PlanIn(world, selected).otel = {} /\ PlanIn(world, selected).tokio = {}
      /\ PlanIn(world, selected).excluded = ExcludedIn(world)
  BY PlanInParts
<1>3. PlanOK(world, PlanFor(selected), selected)
  BY <1>1, <1>2 DEF PlanOK
<1>4. Desired(PlanFor(selected)) = DesiredIn(world, selected)
  BY <1>1, <1>2, PlanForIs DEF DesiredIn
<1> QED
  BY <1>1, <1>2, <1>3, <1>4

\* What a plan that is in order has.
LEMMA PlanHas ==
  ASSUME NEW w \in Worlds, NEW selected \in SUBSET Members, NEW plan,
         PlanOK(w, plan, selected)
  PROVE  /\ plan.edges = w.edges
         /\ plan.excluded = ExcludedIn(w)
         /\ plan.tokioOf = TokioPackage(w.edges)
         /\ plan.otelOf = R4OtelPackage(Reachability(w.edges, TargetRoots(w.edges, selected)))
         /\ plan.reachable = PlanIn(w, selected).reachable
         /\ plan.hostNames = Names \ {Name[p] : p \in plan.reachable}
         /\ plan.hostDirs = Packages \ plan.reachable
         /\ plan.shimUnsafe = PlanOf(w.edges, selected).shimUnsafe
<1>1. /\ plan.edges = PlanIn(w, selected).edges
      /\ plan.excluded = PlanIn(w, selected).excluded
      /\ plan.tokioOf = PlanIn(w, selected).tokioOf
      /\ plan.otelOf = PlanIn(w, selected).otelOf
      /\ plan.reachable = PlanIn(w, selected).reachable
      /\ plan.hostNames = PlanIn(w, selected).hostNames
      /\ plan.hostDirs = PlanIn(w, selected).hostDirs
      /\ plan.shimUnsafe = PlanIn(w, selected).shimUnsafe
  BY DEF PlanOK, PlanFields
<1> QED
  BY <1>1, PlanInParts

\* Whatever an executable that is asked for reaches is reachable, and its root has it.
LEMMA AskedIsReachable ==
  ASSUME NEW w \in Worlds, NEW request \in SUBSET Members,
         NEW selected \in {{}, request}, NEW p \in request \cap Executables
  PROVE  /\ p \in TargetRoots(w.edges, selected)
         /\ Reached(p, w.edges) \subseteq PlanIn(w, selected).reachable
<1>1. p \in TargetRoots(w.edges, selected)
  BY ExecutablesAreRoots
<1>2. PlanIn(w, selected).reachable
        = UNION {Reached(r, w.edges) : r \in TargetRoots(w.edges, selected)}
  BY PlanInParts
<1> QED
  BY <1>1, <1>2

-----------------------------------------------------------------------------
(* What Cargo builds *)

LEMMA UnitIs == \A p, side : Unit(p, side) = UnitIn(world, p, side)
BY DEF Unit, UnitIn, Shared, SharedIn

LEMMA UnitInUnits ==
  ASSUME NEW w, NEW p \in Packages, NEW side \in Sides
  PROVE  UnitIn(w, p, side) \in Units /\ UnitIn(w, p, side).pkg = p
BY DEF UnitIn, Units, Sides

\* Without dev-dependencies the build is the world's.
LEMMA BuildIs ==
  ASSUME world \in Worlds, inv.command = "build"
  PROVE  /\ Needed = NeededIn(world, inv.request)
         /\ Images = ImagesIn(world, inv.request)
         /\ Messages = MessagesIn(world, inv.request)
         /\ \A i : LinkedInto(i) = LinkedIn(world, i)
<1>1. Linked = BuildEdges(world)
  <2>1. \A e \in world.edges : e.kind \in {"normal", "dev", "build"}
    BY WorldFacts DEF Edges, Kinds
  <2> QED
    BY <2>1 DEF Linked, BuildEdges, Tested
<1>2. LinkPairs = BuildPairs(world)
  BY <1>1 DEF LinkPairs, BuildPairs
<1>3. TargetPackages = TargetsIn(world, inv.request)
  BY <1>2 DEF TargetPackages, TargetsIn
<1>4. HostRoots = HostsIn(world, inv.request)
  BY <1>1, <1>3 DEF HostRoots, HostsIn
<1>5. Needed = NeededIn(world, inv.request)
  BY <1>2, <1>3, <1>4, UnitIs DEF Needed, NeededIn
<1>6. Images = ImagesIn(world, inv.request)
  BY <1>4, UnitIs DEF Images, ImagesIn
<1>7. Messages = MessagesIn(world, inv.request)
  BY <1>5 DEF Messages, MessagesIn, Message
<1>8. \A i : LinkedInto(i) = LinkedIn(world, i)
  BY <1>2, UnitIs DEF LinkedInto, LinkedIn
<1> QED
  BY <1>5, <1>6, <1>7, <1>8

\* Whatever the command, what is linked is reached in the metadata.
LEMMA LinkFacts ==
  ASSUME world \in Worlds
  PROVE  /\ Linked \subseteq world.edges
         /\ LinkPairs \in SUBSET (Packages \X Packages)
         /\ LinkPairs \subseteq Pairs(TargetEdges(world.edges))
         /\ \A e \in Linked : e.from \in Packages /\ e.to \in Packages
<1>1. Linked \subseteq world.edges
  BY DEF Linked
<1>2. \A e \in world.edges : e \in Edges
  BY WorldFacts
<1>3. {e \in Linked : e.to \notin ProcMacros} \subseteq TargetEdges(world.edges)
  BY <1>2 DEF Linked, TargetEdges, Edges, Kinds
<1>4. LinkPairs \subseteq Pairs(TargetEdges(world.edges))
  BY <1>3, PairsGrow DEF LinkPairs
<1>5. \A e \in Linked : e.from \in Packages /\ e.to \in Packages
  BY <1>1, <1>2 DEF Edges
<1>6. LinkPairs \in SUBSET (Packages \X Packages)
  BY <1>5, PairsOfEdges DEF LinkPairs
<1> QED
  BY <1>1, <1>4, <1>5, <1>6

LEMMA LinkedIsReached ==
  ASSUME world \in Worlds, NEW p \in Packages
  PROVE  Reach({p}, LinkPairs) \subseteq Reached(p, world.edges)
<1>1. world.edges \in SUBSET Edges
  BY WorldFacts
<1>2. Pairs(TargetEdges(world.edges)) \in SUBSET (Packages \X Packages)
  BY <1>1, TargetPairs
<1>3. {p} \in SUBSET Packages /\ {p} \in SUBSET {p}
  OBVIOUS
<1> QED
  BY <1>2, <1>3, LinkFacts, ReachGrows DEF Reached

LEMMA BuiltPackages ==
  ASSUME world \in Worlds, inv.request \subseteq Members
  PROVE  /\ TargetPackages \subseteq Packages
         /\ inv.request \ ProcMacros \subseteq TargetPackages
         /\ HostRoots \subseteq Packages
         /\ Reach(HostRoots, LinkPairs) \subseteq Packages
         /\ HostRoots \subseteq Reach(HostRoots, LinkPairs)
<1>1. TargetPackages \subseteq Packages /\ inv.request \ ProcMacros \subseteq TargetPackages
  <2>1. inv.request \ ProcMacros \in SUBSET Packages
    BY PackageSets
  <2> QED
    BY <2>1, LinkFacts, ReachIsLeast DEF TargetPackages
<1>2. HostRoots \subseteq Packages
  <2>1. \A e \in world.edges : e.to \in Packages
    BY WorldFacts DEF Edges
  <2> QED
    BY <2>1, PackageSets DEF HostRoots
<1> QED
  BY <1>1, <1>2, LinkFacts, ReachIsLeast

LEMMA NeededAreUnits ==
  ASSUME world \in Worlds, inv.request \subseteq Members
  PROVE  Needed \subseteq Units
<1>1. \A p \in Packages, side \in Sides : Unit(p, side) \in Units
  BY UnitIs, UnitInUnits
<1> QED
  BY <1>1, BuiltPackages DEF Needed, Sides

LEMMA ImagesAreUnits ==
  ASSUME world \in Worlds, inv.request \subseteq Members
  PROVE  Images \subseteq Units
<1>1. \A p \in Packages, side \in Sides : Unit(p, side) \in Units
  BY UnitIs, UnitInUnits
<1> QED
  BY <1>1, BuiltPackages, PackageSets DEF Images, Sides

\* The units linked into an image are needed, of the image's side and reached from it.
LEMMA LinkedFacts ==
  ASSUME world \in Worlds, inv.request \subseteq Members, NEW i \in Images
  PROVE  /\ i \in Units
         /\ LinkedInto(i) \subseteq Needed
         /\ \A u \in LinkedInto(i) : u.pkg \in Reached(i.pkg, world.edges)
         /\ \A u, v \in LinkedInto(i) : u.side = v.side
<1>1. i \in Units
  BY ImagesAreUnits
<1>2. i.pkg \in Packages /\ i.side \in Sides
  BY <1>1 DEF Units
<1>3. \A p \in Packages, side \in Sides :
        Unit(p, side).pkg = p /\ Unit(p, side).side = IF Shared THEN "target" ELSE side
  BY DEF Unit
<1>4. Reach({i.pkg}, LinkPairs) \subseteq Packages
  BY <1>2, LinkFacts, ReachStaysIn
<1> DEFINE side == IF Shared THEN "target" ELSE i.side
<1>5. ASSUME NEW u \in LinkedInto(i)
      PROVE  u.pkg \in Reached(i.pkg, world.edges) /\ u.side = side
  <2>1. PICK p \in Reach({i.pkg}, LinkPairs) : u = Unit(p, i.side)
    BY DEF LinkedInto
  <2>2. p \in Packages /\ p \in Reached(i.pkg, world.edges)
    BY <1>2, <1>4, LinkedIsReached
  <2> QED
    BY <1>2, <1>3, <2>1, <2>2
<1>6. \A u \in LinkedInto(i) : u.pkg \in Reached(i.pkg, world.edges)
  BY <1>5
<1>7. \A u, v \in LinkedInto(i) : u.side = v.side
  BY <1>5
<1>8. LinkedInto(i) \subseteq Needed
  <2>1. CASE \E p \in inv.request \cap Executables : i = Unit(p, "target")
    <3>1. PICK p \in inv.request \cap Executables : i = Unit(p, "target")
      BY <2>1
    <3>2. p \in Packages /\ p \in inv.request \ ProcMacros
      BY PackageSets
    <3>3. i.pkg = p /\ i.side = "target"
      BY <1>3, <3>1, <3>2 DEF Sides
    <3>4. p \in TargetPackages
      BY <3>2, BuiltPackages
    <3>5. Reach({p}, LinkPairs) \subseteq TargetPackages
      <4>1. inv.request \ ProcMacros \in SUBSET Packages
        BY PackageSets
      <4>2. {p} \in SUBSET Reach(inv.request \ ProcMacros, LinkPairs)
        BY <3>4 DEF TargetPackages
      <4>3. LinkPairs \in SUBSET LinkPairs
        OBVIOUS
      <4> QED
        BY <4>1, <4>2, <4>3, LinkFacts, ReachGoesOn DEF TargetPackages
    <3> QED
      BY <3>3, <3>5 DEF LinkedInto, Needed
  <2>2. CASE \E p \in HostRoots : i = Unit(p, "host")
    <3>1. PICK p \in HostRoots : i = Unit(p, "host")
      BY <2>2
    <3>2. p \in Packages /\ p \in Reach(HostRoots, LinkPairs)
      BY BuiltPackages
    <3>3. i.pkg = p /\ i.side = IF Shared THEN "target" ELSE "host"
      BY <1>3, <3>1, <3>2 DEF Sides
    <3>4. Reach({p}, LinkPairs) \subseteq Reach(HostRoots, LinkPairs)
      <4>1. {p} \in SUBSET Reach(HostRoots, LinkPairs) /\ LinkPairs \in SUBSET LinkPairs
        BY <3>2
      <4>2. HostRoots \in SUBSET Packages
        BY BuiltPackages
      <4> QED
        BY <4>1, <4>2, LinkFacts, ReachGoesOn
    <3>5. \A q : Unit(q, i.side) = Unit(q, "host")
      BY <3>3 DEF Unit
    <3> QED
      BY <3>3, <3>4, <3>5 DEF LinkedInto, Needed
  <2> QED
    BY <2>1, <2>2 DEF Images
<1> QED
  BY <1>1, <1>6, <1>7, <1>8

LEMMA ToCompileFacts ==
  /\ ToCompile \subseteq Needed
  /\ \A u \in Needed : artifact[u] = NoArtifact => u \in ToCompile
<1> DEFINE missing == {u \in Needed : artifact[u] = NoArtifact}
           uses == UNION {UsesOf(u) \X {u} : u \in Needed}
<1>1. ToCompile = Reach(missing, uses)
  BY DEF ToCompile
<1>2. missing \subseteq Needed /\ Closed(Needed, uses)
  BY DEF Closed
<1> HIDE DEF missing, uses
<1>3. missing \subseteq ToCompile
  BY <1>1, ReachHasStart
<1>4. ToCompile \subseteq Needed
  BY <1>1, <1>2, ReachIsWithinClosed
<1> QED
  BY <1>3, <1>4 DEF missing

-----------------------------------------------------------------------------
(* What the wrapper decides *)

LEMMA RustcFacts ==
  ASSUME world \in Worlds, NEW u \in Units
  PROVE  /\ Rustc(u).pkg = u.pkg /\ u.pkg \in Packages
         /\ PackageOf(Rustc(u).pkg) = u.pkg
         /\ u.pkg \notin world.renamed => Rustc(u).crate = Name[u.pkg]
         /\ Rustc(u).crate \in {"otel_shim", "cargo_instrument"}
              => Rustc(u).crate = Name[u.pkg] /\ u.pkg \notin world.renamed
         /\ Rustc(u).flags = CargoFlags(world.profile[u.side])
         /\ world.profile[u.side] \in Profiles
<1>1. Rustc(u).pkg = u.pkg /\ u.pkg \in Packages /\ u.side \in Sides
  BY DEF Rustc, Units
<1>2. PackageOf(u.pkg) = u.pkg
  BY <1>1, PackageOfIs
<1>3. Rustc(u).crate = IF u.pkg \in world.renamed THEN "renamed" ELSE Name[u.pkg]
  BY DEF Rustc
<1>4. Rustc(u).flags = CargoFlags(world.profile[u.side])
  BY DEF Rustc
<1>5. world.profile[u.side] \in Profiles
  BY <1>1, WorldFacts
<1> QED
  BY <1>1, <1>2, <1>3, <1>4, <1>5

\* should_skip: what the wrapper does not skip is to be instrumented.
LEMMA NotSkipped ==
  ASSUME world \in Worlds, NEW selected \in SUBSET Members, NEW plan,
         PlanOK(world, plan, selected),
         NEW u \in Units, ~Skips(plan, Rustc(u), world.mode)
  PROVE  /\ Treatable(world, u.pkg)
         /\ u.pkg \in PlanIn(world, selected).reachable
         /\ u.pkg \in DesiredIn(world, selected)
<1> DEFINE rustc == Rustc(u)
<1>1. /\ rustc.pkg = u.pkg /\ u.pkg \in Packages /\ PackageOf(rustc.pkg) = u.pkg
      /\ u.pkg \notin world.renamed => rustc.crate = Name[u.pkg]
  BY RustcFacts
<1>2. /\ ~Excludes(plan, rustc) /\ ~IsTelemetry(rustc) /\ ~IsHostOnly(plan, rustc)
      /\ ~(Role(rustc) = "registry" /\ world.mode = "legacy")
  BY DEF Skips
<1> HIDE DEF rustc
<1>3. u.pkg \notin ExcludedIn(world)
  BY <1>1, <1>2, PlanHas DEF Excludes
<1>4. u.pkg \notin OtelFamily
  BY <1>1, <1>2 DEF IsTelemetry
<1>5. Name[u.pkg] \notin {"otel_shim", "cargo_instrument"}
  BY <1>1, <1>2, WorldFacts DEF IsTelemetry
<1>6. u.pkg \notin FromRegistry \/ world.mode # "legacy"
  BY <1>1, <1>2 DEF Role
<1>7. u.pkg \in plan.reachable
  <2>1. plan.hostDirs = Packages \ plan.reachable
    BY PlanHas
  <2> QED
    BY <1>1, <1>2, <2>1 DEF IsHostOnly
<1>8. u.pkg \in PlanIn(world, selected).reachable
  BY <1>7, PlanHas
<1> QED
  BY <1>3, <1>4, <1>5, <1>6, <1>8 DEF Treatable, DesiredIn

\* The native emitter is taken only with an artifact the plan holds for the package,
\* of the unit's profile (r4_native_otel_artifact_for).
LEMMA NativeHasArtifact ==
  ASSUME world \in Worlds, NEW plan, NEW u \in Units, OtelArtifact(plan, Rustc(u)) # NoArtifact
  PROVE  LET a == OtelArtifact(plan, Rustc(u))
         IN  /\ a \in plan.otel
             /\ u.pkg \in DOMAIN plan.otelOf /\ a.pkg = plan.otelOf[u.pkg]
             /\ a.profile = world.profile[u.side]
<1> DEFINE rustc == Rustc(u)
           wanted == plan.otelOf[u.pkg]
           found == {a \in Matching(plan.otel, wanted, rustc) :
                       a.enough /\ ExternRlibs(rustc, "opentelemetry") \subseteq {a.rlib}}
<1>1. PackageOf(rustc.pkg) = u.pkg /\ RustcProfile(rustc.flags) = world.profile[u.side]
  BY RustcFacts, ProfileIsRecovered
<1>2. u.pkg \in DOMAIN plan.otelOf
  BY <1>1 DEF OtelArtifact
<1>3. OtelArtifact(plan, rustc) = Validated(plan.otel, wanted, rustc, "opentelemetry")
  BY <1>1, <1>2 DEF OtelArtifact
<1>4. found # {} /\ Validated(plan.otel, wanted, rustc, "opentelemetry") = CHOOSE a \in found : TRUE
  BY <1>3 DEF Validated
<1>5. OtelArtifact(plan, rustc) \in found
  <2> HIDE DEF found
  <2> QED
    BY <1>3, <1>4
<1> HIDE DEF rustc
<1>6. OtelArtifact(plan, rustc) \in Matching(plan.otel, wanted, rustc)
  BY <1>5
<1> QED
  BY <1>1, <1>2, <1>6 DEF Matching, rustc

LEMMA EmitterFacts ==
  ASSUME NEW plan, NEW rustc, NEW mode, NEW enforced
  PROVE  LET form == Emitter(plan, rustc, mode, enforced)
         IN  /\ form \in Forms
             /\ form # "plain" => ~Skips(plan, rustc, mode)
             /\ form = "native" => OtelArtifact(plan, rustc) # NoArtifact
             /\ form = "trampoline" => \/ HasExtern(rustc, "otel_shim")
                                       \/ ~IsShimUnsafe(plan, rustc)
BY DEF Emitter, ApplicationEmitter, DependencyEmitter, Forms

LEMMA TokioArtifactIsTokio ==
  ASSUME NEW w \in Worlds, NEW selected \in SUBSET Members, NEW plan,
         PlanOK(w, plan, selected), NEW rustc, TokioArtifact(plan, rustc) # NoArtifact
  PROVE  w.rt
<1> DEFINE p == PackageOf(rustc.pkg)
           genuine == {e.to : e \in TokioEdges(p, plan.edges)} \cap Named("tokio")
           of == IF p \in DOMAIN plan.tokioOf THEN {plan.tokioOf[p]} ELSE genuine
           t == CHOOSE x \in of : TRUE
<1>1. Cardinality(of) = 1 /\ Validated(plan.tokio, t, rustc, "tokio") # NoArtifact
  BY DEF TokioArtifact
<1>2. of # {}
  <2>1. Cardinality({}) = 0
    BY FS_EmptySet
  <2> HIDE DEF of
  <2>2. of = {} => Cardinality(of) = 0
    BY <2>1
  <2> QED
    BY <1>1, <2>2
<1>3. of \subseteq Named("tokio")
  <2>1. plan.tokioOf = TokioPackage(w.edges)
    BY PlanHas
  <2> QED
    BY <2>1, TokioOfIsTokio
<1>4. t \in Named("tokio")
  BY <1>2, <1>3
<1> HIDE DEF t
<1>5. PICK a \in Matching(plan.tokio, t, rustc) : a.enough
  BY <1>1 DEF Validated
<1>6. a \in plan.tokio /\ a.pkg \in Named("tokio")
  BY <1>4, <1>5 DEF Matching
<1> QED
  BY <1>5, <1>6 DEF PlanOK

LEMMA SpawnsCompiled ==
  ASSUME world \in Worlds, NEW selected \in SUBSET Members, NEW plan,
         PlanOK(world, plan, selected), NEW u \in Units, NEW unit,
         NEW form, unit.spawns = RewritesSpawns(plan, Rustc(u), form)
  PROVE  SpawnsOK(world, u, unit)
<1> DEFINE rustc == Rustc(u)
<1> SUFFICES ASSUME HasRealTokio(plan, rustc), TokioArtifact(plan, rustc) # NoArtifact
             PROVE  /\ world.rt
                    /\ \A e \in world.edges :
                         e.from = u.pkg /\ e.binding = "tokio" => e.to \in Named("tokio")
  BY DEF SpawnsOK, RewritesSpawns
<1>1. PackageOf(rustc.pkg) = u.pkg
  BY RustcFacts
<1> HIDE DEF rustc
<1>2. world.rt
  BY TokioArtifactIsTokio
<1>3. \A e \in TokioEdges(u.pkg, world.edges) : e.to \in Named("tokio")
  <2>1. plan.edges = world.edges
    BY PlanHas
  <2> QED
    BY <1>1, <2>1 DEF HasRealTokio
<1> QED
  BY <1>2, <1>3 DEF TokioEdges

\* is_shim_unsafe and the gate of the application's own extern: what is given
\* trampolines finds the shim in every executable that is asked for.
LEMMA TrampolineCompiled ==
  ASSUME world \in Worlds, NEW request \in SUBSET Members, NEW selected \in {{}, request},
         NEW plan, PlanOK(world, plan, selected), NEW u \in Units, NEW unit,
         unit.for = request,
         HasExtern(Rustc(u), "otel_shim") \/ ~IsShimUnsafe(plan, Rustc(u))
  PROVE  TrampolineOK(world, u, unit)
<1> SUFFICES ASSUME u.pkg \notin world.renamed, NEW p \in request \cap Executables,
                    u.pkg \in Reached(p, world.edges)
             PROVE  Reached(p, world.edges) \cap Named("otel_shim") # {}
  BY DEF TrampolineOK
<1>0. p \in Packages \ ProcMacros /\ world.edges \in SUBSET Edges
  BY PackageSets, WorldFacts
<1>3. selected \in SUBSET Members
  OBVIOUS
<1>1. CASE HasExtern(Rustc(u), "otel_shim")
  <2>1. PICK e \in Linked : e.from = u.pkg /\ e.binding = "otel_shim"
    <3>1. Rustc(u).externs = {[binding |-> e.binding, rlib |-> Using(u, e.to)] : e \in Links(u.pkg)}
      BY DEF Rustc
    <3>2. PICK e \in Links(u.pkg) : e.binding = "otel_shim"
      BY <1>1, <3>1 DEF HasExtern
    <3> QED
      BY <3>2 DEF Links
  <2>2. e \in world.edges /\ e.to \in Named("otel_shim")
    BY <2>1, LinkFacts, WorldFacts
  <2>3. e.kind \in {"normal", "dev"} /\ e.to \notin ProcMacros
    BY <1>0, <2>1, <2>2, PackageSets DEF Linked, Edges, Kinds
  <2>4. <<u.pkg, e.to>> \in Pairs(TargetEdges(world.edges))
    BY <2>1, <2>2, <2>3 DEF TargetEdges, Pairs
  <2>5. e.to \in Reached(p, world.edges)
    BY <1>0, <2>4, ReachedIsTarget DEF Closed
  <2> QED
    BY <2>2, <2>5
<1>2. CASE ~IsShimUnsafe(plan, Rustc(u))
  <2>1. Name[u.pkg] \notin plan.shimUnsafe
    BY <1>2, RustcFacts DEF IsShimUnsafe
  <2>2. Name[u.pkg] \notin PlanOf(world.edges, selected).shimUnsafe
    BY <1>3, <2>1, PlanHas
  <2>3. p \in TargetRoots(world.edges, selected)
    BY AskedIsReachable
  <2> QED
    BY <1>0, <1>3, <2>2, <2>3, ShimlessIsUnsafe
<1> QED
  BY <1>1, <1>2

LEMMA MessageFacts ==
  ASSUME NEW w \in Worlds, NEW request, NEW m \in MessagesIn(w, request)
  PROVE  /\ m.rlib \in NeededIn(w, request) /\ m.rlib.pkg \notin ProcMacros \cup Executables
         /\ m.pkg = m.rlib.pkg /\ m.profile = w.profile[m.rlib.side]
         /\ m.pkg \in Named("tokio") => m.enough = w.rt
<1>1. PICK u \in NeededIn(w, request) : u.pkg \notin ProcMacros \cup Executables /\ m = Message(w, u)
  BY DEF MessagesIn
<1>2. /\ m.pkg = u.pkg /\ m.profile = w.profile[u.side] /\ m.rlib = u
      /\ m.enough = IF u.pkg \in Named("tokio") THEN w.rt ELSE u.side \in w.trace
  BY <1>1 DEF Message
<1> QED
  BY <1>1, <1>2

\* Code is natively instrumented against the one artifact of its profile that the
\* pre-pass made of the OpenTelemetry all executables with the unit have.
LEMMA NativeCompiled ==
  ASSUME world \in Worlds, inv.request \in SUBSET Members, CapturedOK,
         NEW selected \in {{}, inv.request}, inv.desired = DesiredIn(world, selected),
         PlanOK(world, inv.plan, selected),
         NEW u \in Units, ~Skips(inv.plan, Rustc(u), world.mode), NEW unit,
         OtelArtifact(inv.plan, Rustc(u)) # NoArtifact,
         unit.otel = OtelArtifact(inv.plan, Rustc(u)).rlib, unit.for = inv.request
  PROVE  NativeOK(world, u, unit)
<1> DEFINE plan == inv.plan
           a == OtelArtifact(plan, Rustc(u))
           messages == MessagesIn(world, inv.request)
           reached == Reachability(world.edges, TargetRoots(world.edges, selected))
<1>1. selected \in SUBSET Members
  OBVIOUS
<1>2. /\ a \in plan.otel /\ u.pkg \in DOMAIN plan.otelOf /\ a.pkg = plan.otelOf[u.pkg]
      /\ a.profile = world.profile[u.side]
  BY NativeHasArtifact
<1>3. /\ plan.otel = Reported(messages, WantedOtel(plan)) /\ ~Ambiguous(plan.otel)
      /\ inv.desired \cap Retained(plan) = {}
  BY DEF CapturedOK
<1>4. plan.edges = world.edges /\ plan.otelOf = R4OtelPackage(reached)
  <2> HIDE DEF a, messages
  <2>1. world \in Worlds /\ PlanOK(world, plan, selected)
    OBVIOUS
  <2> HIDE DEF plan
  <2> QED
    BY <1>1, <2>1, PlanHas
<1>5. u.pkg \in inv.desired
  BY <1>1, NotSkipped
<1>6. unit.otel = a.rlib /\ unit.for = inv.request
  OBVIOUS
<1>7. plan.otel \subseteq Artifacts
  BY DEF PlanOK
<1> HIDE DEF a, plan
<1>8. a \in messages /\ a.pkg \in WantedOtel(plan)
  BY <1>2, <1>3 DEF Reported
<1> HIDE DEF messages
<1>9. /\ a.rlib \in NeededIn(world, inv.request) /\ a.rlib.pkg \notin ProcMacros \cup Executables
      /\ a.pkg = a.rlib.pkg /\ a.profile = world.profile[a.rlib.side]
  BY <1>8, MessageFacts DEF messages
<1>10. u.pkg \notin Reach({a.pkg}, Pairs(world.edges))
  <2> DEFINE pkgs == {b.pkg : b \in plan.otel}
  <2>1. pkgs \in SUBSET Packages
    BY <1>7 DEF Artifacts
  <2>2. {a.pkg} \in SUBSET pkgs
    BY <1>2
  <2>3. Retained(plan) = Reach(pkgs, Pairs(world.edges))
    BY <1>4 DEF Retained
  <2> HIDE DEF pkgs
  <2>4. Pairs(world.edges) \in SUBSET (Packages \X Packages)
        /\ Pairs(world.edges) \in SUBSET Pairs(world.edges)
    BY WorldFacts
  <2>5. Reach({a.pkg}, Pairs(world.edges)) \subseteq Retained(plan)
    BY <2>1, <2>2, <2>3, <2>4, ReachGrows
  <2> QED
    BY <1>3, <1>5, <2>5
<1>11. ASSUME NEW v \in NeededIn(world, inv.request), v.pkg = a.pkg,
              world.profile[v.side] = world.profile[u.side]
       PROVE  v = a.rlib
  <2>1. Message(world, v) \in messages
    BY <1>9, <1>11 DEF messages, MessagesIn
  <2>2. /\ Message(world, v).pkg = a.pkg /\ Message(world, v).profile = a.profile
        /\ Message(world, v).rlib = v
    BY <1>2, <1>11 DEF Message
  <2>3. Message(world, v) \in plan.otel
    BY <1>3, <1>8, <2>1, <2>2 DEF Reported
  <2>4. Message(world, v) = a
    BY <1>2, <1>3, <2>2, <2>3 DEF Ambiguous
  <2> QED
    BY <2>2, <2>4
<1>12. ASSUME NEW p \in inv.request \cap Executables, u.pkg \in Reached(p, world.edges)
       PROVE  Reached(p, world.edges) \cap Named("opentelemetry") = {a.pkg}
  <2>1. p \in TargetRoots(world.edges, selected)
    BY AskedIsReachable
  <2>2. p \in DOMAIN reached /\ reached[p] = Reached(p, world.edges)
    BY <2>1, PlanParts
  <2> HIDE DEF reached
  <2>3. reached[p] \cap Named("opentelemetry") = {R4OtelPackage(reached)[u.pkg]}
    BY <1>2, <1>4, <1>12, <2>2, RootsAgree
  <2> QED
    BY <1>2, <1>4, <2>2, <2>3
<1> QED
  BY <1>2, <1>6, <1>9, <1>10, <1>11, <1>12 DEF NativeOK

-----------------------------------------------------------------------------
(* What a step leaves as it was *)

InvFields == {"request", "command", "plan", "desired", "own", "todo", "broken"}

LEMMA SameBuild ==
  ASSUME UNCHANGED world, inv'.request = inv.request, inv'.command = inv.command
  PROVE  /\ Needed' = Needed
         /\ UNCHANGED artifact => Unresolved(artifact)' = Unresolved(artifact)
<1>1. LinkPairs' = LinkPairs /\ Linked' = Linked
  BY DEF LinkPairs, Linked, Tested
<1>2. TargetPackages' = TargetPackages
  BY <1>1 DEF TargetPackages
<1>3. HostRoots' = HostRoots
  BY <1>1, <1>2 DEF HostRoots
<1>4. \A p, side : Unit(p, side)' = Unit(p, side)
  BY DEF Unit, Shared
<1>5. Needed' = Needed
  BY <1>1, <1>2, <1>3, <1>4 DEF Needed
<1>6. Images' = Images
  BY <1>3, <1>4 DEF Images
<1>7. \A i : LinkedInto(i)' = LinkedInto(i)
  BY <1>1, <1>4 DEF LinkedInto
<1> QED
  BY <1>5, <1>6, <1>7 DEF Unresolved

LEMMA InvocationStays ==
  ASSUME IInv, UNCHANGED world, pc # "idle", pc' \in {"building", "linked"},
         DOMAIN inv' = InvFields, pc' # "linked" => inv'.broken = {},
         inv'.request = inv.request, inv'.command = inv.command, inv'.plan = inv.plan,
         inv'.desired = inv.desired, inv'.own = inv.own
  PROVE  InvocationOK'
BY DEF IInv, InvocationOK, CapturedOK, InvFields

\* A unit that is still transformed is as it was.
LEMMA ArtifactsStay ==
  ASSUME IInv, UNCHANGED world,
         \A u \in Units : Transformed(u)' => artifact'[u] = artifact[u]
  PROVE  ArtifactsOK'
BY DEF IInv, ArtifactsOK, Transformed

LEMMA TakenOverStays ==
  ASSUME TakenOverOK, UNCHANGED <<world, artifact>>, inv'.request = inv.request
  PROVE  TakenOverOK'
BY DEF TakenOverOK, Transformed

\* A pre-pass and a clean leave no transformed unit that was not there.
LEMMA CleanedArtifacts ==
  ASSUME IInv, NEW compiled, NEW packages,
         artifact' = Clean(packages, AfterPrepass(compiled))
  PROVE  /\ artifact' \in [Units -> Compiled \cup {NoArtifact}]
         /\ \A u \in Units : Transformed(u)' =>
              /\ artifact'[u] = artifact[u] /\ AfterPrepass(compiled)[u] = artifact[u]
              /\ u.pkg \notin packages
<1> DEFINE plain == [form |-> "plain", otel |-> NoUnit, spawns |-> FALSE, for |-> inv.request]
<1>1. plain \in Compiled /\ plain.form = "plain"
  BY DEF Compiled, Forms, IInv, TypeOK
<1> HIDE DEF plain
<1>2. AfterPrepass(compiled) = [u \in Units |-> IF u \in compiled THEN plain ELSE artifact[u]]
  BY DEF AfterPrepass, plain
<1>3. artifact \in [Units -> Compiled \cup {NoArtifact}]
  BY DEF IInv, TypeOK
<1>4. artifact' = [u \in Units |-> IF u.pkg \in packages THEN NoArtifact
                                    ELSE AfterPrepass(compiled)[u]]
  BY DEF Clean
<1> QED
  BY <1>1, <1>2, <1>3, <1>4 DEF Transformed

-----------------------------------------------------------------------------
(* The steps *)

LEMMA InvokeKeeps ==
  ASSUME IInv, NEW request \in SUBSET Members, NEW named, NEW command \in Commands,
         Invoke(request, named, command)
  PROVE  IInv'
<1> DEFINE selected == IF named THEN request ELSE {}
           plan == PlanFor(selected)
<1>1. world \in Worlds /\ UNCHANGED <<world, artifact>> /\ pc = "idle" /\ count < world.limit
  BY DEF Invoke, IInv
<1>2. /\ PlanOK(world, plan, selected) /\ plan.otel = {}
      /\ Desired(plan) = DesiredIn(world, selected)
  BY <1>1, PlanForOK
<1>3. DesiredIn(world, selected) \subseteq Packages
  BY <1>1, PlanInParts DEF DesiredIn
<1>4. plan.tokio \subseteq Artifacts
  BY <1>2 DEF PlanOK
<1>5. /\ inv' = [Nothing EXCEPT !.request = request, !.command = command,
                                !.plan = plan, !.desired = Desired(plan)]
      /\ pc' = IF command = "build" THEN "prepass" ELSE "planned"
      /\ count' = count + 1
  BY DEF Invoke
<1>6. selected \in {{}, request}
  OBVIOUS
<1> HIDE DEF plan, selected
<1>7. /\ DOMAIN inv' = InvFields
      /\ inv'.request = request /\ inv'.command = command /\ inv'.plan = plan
      /\ inv'.desired = Desired(plan) /\ inv'.own = FALSE
      /\ inv'.todo = {} /\ inv'.broken = {}
  BY <1>5 DEF Nothing, InvFields
<1>8. TypeOK'
  <2>1. count' \in 0 .. world'.limit
    BY <1>1, <1>5, WorldFacts DEF IInv, TypeOK
  <2>2. artifact' \in [Units -> Compiled \cup {NoArtifact}]
    BY <1>1 DEF IInv, TypeOK
  <2> QED
    BY <1>2, <1>3, <1>4, <1>5, <1>7, <2>1, <2>2 DEF TypeOK
<1>9. InvocationOK'
  <2>1. pc' \in {"prepass", "planned"} /\ (pc' = "prepass" => command = "build")
    BY <1>5
  <2> QED
    BY <1>1, <1>2, <1>6, <1>7, <2>1 DEF InvocationOK, InvFields
<1>10. ArtifactsOK'
  BY <1>1, ArtifactsStay
<1>11. BuildOK'
  BY <1>5, <1>7 DEF BuildOK
<1> QED
  BY <1>1, <1>8, <1>9, <1>10, <1>11 DEF IInv

LEMMA StartBuildKeeps ==
  ASSUME IInv, StartBuild
  PROVE  IInv'
<1>1. /\ world \in Worlds /\ UNCHANGED <<world, artifact, count>>
      /\ pc = "planned" /\ pc' = "building"
      /\ inv' = [inv EXCEPT !.todo = ToCompile] /\ DOMAIN inv = InvFields
  BY DEF StartBuild, IInv, InvocationOK, InvFields
<1>2. /\ DOMAIN inv' = InvFields
      /\ inv'.request = inv.request /\ inv'.command = inv.command /\ inv'.plan = inv.plan
      /\ inv'.desired = inv.desired /\ inv'.own = inv.own
      /\ inv'.todo = ToCompile /\ inv'.broken = inv.broken
  BY <1>1 DEF InvFields
<1>3. inv.broken = {}
  BY <1>1 DEF IInv, InvocationOK
<1>4. ToCompile \subseteq Units
  BY <1>1, ToCompileFacts, NeededAreUnits DEF IInv, TypeOK
<1>5. TypeOK'
  BY <1>1, <1>2, <1>4 DEF IInv, TypeOK
<1>6. InvocationOK'
  BY <1>1, <1>2, <1>3, InvocationStays
<1>7. ArtifactsOK'
  BY <1>1, ArtifactsStay
<1>8. BuildOK'
  <2>1. \A u \in Needed' : artifact'[u] = NoArtifact => u \in inv'.todo
    BY <1>1, <1>2, SameBuild, ToCompileFacts
  <2>2. inv.command = "build" => TakenOverOK'
    BY <1>1, <1>2, TakenOverStays DEF IInv, BuildOK
  <2> QED
    BY <1>1, <1>2, <2>1, <2>2 DEF BuildOK
<1> QED
  BY <1>1, <1>5, <1>6, <1>7, <1>8 DEF IInv

LEMMA LosePlanKeeps ==
  ASSUME IInv, LosePlan
  PROVE  IInv'
<1>1. /\ world \in Worlds /\ UNCHANGED <<world, artifact, pc, count>> /\ pc = "building"
      /\ inv' = [inv EXCEPT !.plan = PlanFor({}), !.own = TRUE] /\ DOMAIN inv = InvFields
  BY DEF LosePlan, IInv, InvocationOK, InvFields
<1>2. /\ DOMAIN inv' = InvFields
      /\ inv'.request = inv.request /\ inv'.command = inv.command
      /\ inv'.plan = PlanFor({}) /\ inv'.desired = inv.desired /\ inv'.own = TRUE
      /\ inv'.todo = inv.todo /\ inv'.broken = inv.broken
  BY <1>1 DEF InvFields
<1>3. PlanOK(world, PlanFor({}), {}) /\ PlanFor({}).otel = {}
  BY <1>1, PlanForOK
<1>4. PlanFor({}).tokio \subseteq Artifacts
  BY <1>3 DEF PlanOK
<1>5. TypeOK'
  BY <1>1, <1>2, <1>3, <1>4 DEF IInv, TypeOK
<1>6. InvocationOK'
  <2>1. \E selected \in {{}, inv.request} : inv.desired = DesiredIn(world, selected)
    BY <1>1 DEF IInv, InvocationOK
  <2>2. inv.broken = {}
    BY <1>1 DEF IInv, InvocationOK
  <2> QED
    BY <1>1, <1>2, <1>3, <2>1, <2>2 DEF InvocationOK, InvFields
<1>7. ArtifactsOK'
  BY <1>1, ArtifactsStay
<1>8. BuildOK'
  <2>1. \A u \in Needed' : artifact'[u] = NoArtifact => u \in inv'.todo
    BY <1>1, <1>2, SameBuild DEF IInv, BuildOK
  <2>2. inv.command = "build" => TakenOverOK'
    BY <1>1, <1>2, TakenOverStays DEF IInv, BuildOK
  <2> QED
    BY <1>1, <1>2, <2>1, <2>2 DEF BuildOK
<1> QED
  BY <1>1, <1>5, <1>6, <1>7, <1>8 DEF IInv

LEMMA LinkKeeps ==
  ASSUME IInv, Link
  PROVE  IInv'
<1>1. /\ world \in Worlds /\ UNCHANGED <<world, artifact, count>>
      /\ pc = "building" /\ pc' = "linked" /\ inv.todo = {}
      /\ inv' = [inv EXCEPT !.broken = Unresolved(artifact)] /\ DOMAIN inv = InvFields
  BY DEF Link, IInv, InvocationOK, InvFields
<1>2. /\ DOMAIN inv' = InvFields
      /\ inv'.request = inv.request /\ inv'.command = inv.command /\ inv'.plan = inv.plan
      /\ inv'.desired = inv.desired /\ inv'.own = inv.own
      /\ inv'.todo = inv.todo /\ inv'.broken = Unresolved(artifact)
  BY <1>1 DEF InvFields
<1>3. Unresolved(artifact) \subseteq Units
  <2>1. Images \subseteq Units
    BY <1>1, ImagesAreUnits DEF IInv, TypeOK
  <2> QED
    BY <2>1 DEF Unresolved
<1>4. TypeOK'
  BY <1>1, <1>2, <1>3 DEF IInv, TypeOK
<1>5. InvocationOK'
  BY <1>1, <1>2, InvocationStays
<1>6. ArtifactsOK'
  BY <1>1, ArtifactsStay
<1>7. BuildOK'
  <2>1. \A u \in Needed' : artifact'[u] = NoArtifact => u \in inv'.todo
    BY <1>1, <1>2, SameBuild DEF IInv, BuildOK
  <2>2. inv.command = "build" => TakenOverOK'
    BY <1>1, <1>2, TakenOverStays DEF IInv, BuildOK
  <2>3. inv'.broken = Unresolved(artifact)'
    BY <1>1, <1>2, SameBuild
  <2> QED
    BY <1>1, <1>2, <2>1, <2>2, <2>3 DEF BuildOK
<1> QED
  BY <1>1, <1>4, <1>5, <1>6, <1>7 DEF IInv

LEMMA EndKeeps ==
  ASSUME IInv, End
  PROVE  IInv'
<1>1. /\ world \in Worlds /\ UNCHANGED <<world, artifact, count>>
      /\ pc' = "idle" /\ inv' = Nothing
  BY DEF End, IInv
<1>2. /\ DOMAIN inv' = InvFields
      /\ inv'.request = {} /\ inv'.command = "build" /\ inv'.desired = {}
      /\ inv'.own = FALSE /\ inv'.todo = {} /\ inv'.broken = {}
      /\ inv'.plan.otel = {} /\ inv'.plan.tokio = {}
  BY <1>1 DEF Nothing, PlanOf, InvFields
<1>3. TypeOK'
  BY <1>1, <1>2 DEF IInv, TypeOK, Commands
<1>4. InvocationOK'
  BY <1>1, <1>2 DEF InvocationOK, InvFields
<1>5. ArtifactsOK'
  BY <1>1, ArtifactsStay
<1>6. BuildOK'
  BY <1>1 DEF BuildOK
<1> QED
  BY <1>1, <1>3, <1>4, <1>5, <1>6 DEF IInv

LEMMA StutterKeeps ==
  ASSUME IInv, UNCHANGED vars
  PROVE  IInv'
<1>1. UNCHANGED <<world, artifact, pc, inv, count>>
  BY DEF vars
<1>2. TypeOK' /\ InvocationOK'
  BY <1>1 DEF IInv, TypeOK, InvocationOK, CapturedOK
<1>3. ArtifactsOK'
  BY <1>1, ArtifactsStay
<1>4. BuildOK'
  <2>1. Needed' = Needed /\ Unresolved(artifact)' = Unresolved(artifact)
    BY <1>1, SameBuild
  <2>2. TakenOverOK => TakenOverOK'
    BY <1>1, TakenOverStays
  <2> QED
    BY <1>1, <2>1, <2>2 DEF IInv, BuildOK
<1> QED
  BY <1>1, <1>2, <1>3, <1>4 DEF IInv

\* Cleaning what was to be instrumented removes every such unit of the executables
\* that are asked for.
LEMMA CleanedTakenOver ==
  ASSUME IInv, pc = "prepass", UNCHANGED world, inv'.request = inv.request,
         \A u \in Units : Transformed(u)' =>
           artifact'[u] = artifact[u] /\ u.pkg \notin inv.desired
  PROVE  TakenOverOK'
<1>1. /\ world \in Worlds /\ inv.request \in SUBSET Members /\ inv.command = "build"
  BY DEF IInv, InvocationOK, TypeOK
<1>2. Images = ImagesIn(world, inv.request) /\ \A i : LinkedInto(i) = LinkedIn(world, i)
  BY <1>1, BuildIs
<1>3. ASSUME NEW i \in Images, i.pkg \in inv.request \cap Executables,
             NEW u \in LinkedInto(i), Transformed(u)'
      PROVE  FALSE
  <2>1. u \in Units /\ u.pkg \in Reached(i.pkg, world.edges)
    BY <1>1, <1>3, LinkedFacts, NeededAreUnits
  <2>2. artifact'[u] = artifact[u] /\ u.pkg \notin inv.desired
    BY <1>3, <2>1
  <2>3. TransformedOK(world, u, artifact[u])
    BY <1>3, <2>1, <2>2 DEF IInv, ArtifactsOK, Transformed
  <2>4. PICK selected \in {{}, inv.request} : inv.desired = DesiredIn(world, selected)
    BY DEF IInv, InvocationOK
  <2>5. u.pkg \in PlanIn(world, selected).reachable
    BY <1>1, <1>3, <2>1, <2>4, AskedIsReachable
  <2>6. u.pkg \in DesiredIn(world, selected)
    BY <2>3, <2>5 DEF TransformedOK, Treatable, DesiredIn
  <2> QED
    BY <2>2, <2>4, <2>6
<1> QED
  BY <1>2, <1>3 DEF TakenOverOK

LEMMA PrepassFailsKeeps ==
  ASSUME IInv, PrepassFails
  PROVE  IInv'
<1> DEFINE built == AfterPrepass(ToCompile)
<1>1. /\ world \in Worlds /\ UNCHANGED <<world, count>>
      /\ pc = "prepass" /\ pc' = "planned"
      /\ artifact' = Clean(inv.desired, built)
      /\ inv' = [inv EXCEPT !.plan = Forget(@)] /\ DOMAIN inv = InvFields
  BY DEF PrepassFails, Tier2, IInv, InvocationOK, InvFields
<1>2. /\ DOMAIN inv' = InvFields
      /\ inv'.request = inv.request /\ inv'.command = inv.command
      /\ inv'.plan = Forget(inv.plan)
      /\ inv'.desired = inv.desired /\ inv'.own = inv.own
      /\ inv'.todo = inv.todo /\ inv'.broken = inv.broken
  BY <1>1 DEF InvFields
<1>3. /\ artifact' \in [Units -> Compiled \cup {NoArtifact}]
      /\ \A u \in Units : Transformed(u)' =>
           artifact'[u] = artifact[u] /\ u.pkg \notin inv.desired
  BY <1>1, CleanedArtifacts
<1>4. PICK selected \in {{}, inv.request} : /\ inv.desired = DesiredIn(world, selected)
                                            /\ PlanOK(world, inv.plan, selected)
  BY <1>1 DEF IInv, InvocationOK
<1>5. /\ PlanOK(world, Forget(inv.plan), selected)
      /\ Forget(inv.plan).otel = {} /\ Forget(inv.plan).tokio = {}
  BY <1>4 DEF PlanOK, Forget, PlanFields
<1>6. TypeOK'
  BY <1>1, <1>2, <1>3, <1>5 DEF IInv, TypeOK
<1>7. InvocationOK'
  <2>1. inv.broken = {} /\ ~inv.own
    BY <1>1 DEF IInv, InvocationOK
  <2> QED
    BY <1>1, <1>2, <1>4, <1>5, <2>1 DEF InvocationOK, InvFields
<1>8. ArtifactsOK'
  BY <1>1, <1>3, ArtifactsStay
<1>9. BuildOK'
  <2>1. TakenOverOK'
    BY <1>1, <1>2, <1>3, CleanedTakenOver
  <2> QED
    BY <1>1, <2>1 DEF BuildOK
<1> QED
  BY <1>1, <1>6, <1>7, <1>8, <1>9 DEF IInv

LEMMA MessagesAreArtifacts ==
  ASSUME world \in Worlds, inv.request \subseteq Members
  PROVE  Messages \subseteq Artifacts
<1> SUFFICES ASSUME NEW u \in Needed
             PROVE  [pkg |-> u.pkg, profile |-> world.profile[u.side],
                     enough |-> IF u.pkg \in Named("tokio") THEN world.rt
                                ELSE u.side \in world.trace,
                     rlib |-> u] \in Artifacts
  BY DEF Messages
<1>1. u \in Units
  BY NeededAreUnits
<1>2. u.pkg \in Packages /\ u.side \in Sides
  BY <1>1 DEF Units
<1>3. world.profile[u.side] \in Profiles /\ world.rt \in BOOLEAN
  BY <1>2, WorldFacts
<1> DEFINE enough == IF u.pkg \in Named("tokio") THEN world.rt ELSE u.side \in world.trace
<1>4. enough \in BOOLEAN
  <2>1. CASE u.pkg \in Named("tokio")
    BY <1>3, <2>1
  <2>2. CASE u.pkg \notin Named("tokio")
    <3> DEFINE traced == u.side \in world.trace
    <3>1. traced \in BOOLEAN
      OBVIOUS
    <3>2. enough = traced
      BY <2>2
    <3> HIDE DEF traced, enough
    <3> QED
      BY <3>1, <3>2
  <2> QED
    BY <2>1, <2>2
<1> HIDE DEF enough
<1>5. [pkg |-> u.pkg, profile |-> world.profile[u.side], enough |-> enough, rlib |-> u] \in Artifacts
  BY <1>1, <1>2, <1>3, <1>4 DEF Artifacts
<1> QED
  BY <1>5 DEF enough

LEMMA CaptureOK ==
  ASSUME NEW w \in Worlds, NEW selected \in SUBSET Members, NEW plan,
         PlanOK(w, plan, selected), NEW request, NEW messages,
         messages = MessagesIn(w, request), messages \subseteq Artifacts
  PROVE  LET captured == Capture(plan, messages)
         IN  /\ PlanOK(w, captured, selected)
             /\ PlanOK(w, [captured EXCEPT !.otel = {}], selected)
             /\ [captured EXCEPT !.otel = {}].otel = {}
             /\ captured.otel = Reported(messages, WantedOtel(captured))
             /\ captured.otel = Reported(messages, WantedOtel(plan))
<1> DEFINE tokio == Reported(messages, WantedTokio(plan))
           otel == Reported(messages, WantedOtel(plan))
           captured == Capture(plan, messages)
<1>1. \A a \in tokio : a.pkg \in Named("tokio") => a.enough = w.rt
  BY MessageFacts DEF Reported
<1>2. otel \subseteq Artifacts /\ tokio \subseteq Artifacts
  BY DEF Reported
<1>3. captured = [plan EXCEPT !.otel = otel, !.tokio = tokio]
  BY DEF Capture
<1> HIDE DEF tokio, otel, captured
<1>4. /\ DOMAIN captured = PlanFields
      /\ \A f \in PlanFields \ {"otel", "tokio"} : captured[f] = plan[f]
      /\ captured.otel = otel /\ captured.tokio = tokio
  BY <1>3 DEF PlanOK, PlanFields
<1>5. PlanOK(w, captured, selected)
  BY <1>1, <1>2, <1>4 DEF PlanOK
<1>6. PlanOK(w, [captured EXCEPT !.otel = {}], selected) /\ [captured EXCEPT !.otel = {}].otel = {}
  BY <1>5 DEF PlanOK, PlanFields
<1>7. WantedOtel(captured) = WantedOtel(plan)
  <2>1. captured.otelOf = plan.otelOf
    BY <1>4 DEF PlanFields
  <2> QED
    BY <2>1 DEF WantedOtel
<1> QED
  BY <1>4, <1>5, <1>6, <1>7 DEF captured, otel

LEMMA PrepassSucceedsKeeps ==
  ASSUME IInv, PrepassSucceeds
  PROVE  IInv'
<1> DEFINE built == AfterPrepass(ToCompile)
           plan == Capture(inv.plan, Messages)
           without == [plan EXCEPT !.otel = {}]
           none == inv.desired \cap Retained(plan) # {}
           dirty == {u.pkg : u \in ToCompile \cup {v \in Needed : ~Stamped(v, built)}}
           cleaned == IF none THEN inv.desired ELSE (inv.desired \cap dirty) \ Retained(plan)
           kept == IF none THEN without ELSE plan
<1>1. /\ world \in Worlds /\ UNCHANGED <<world, count>>
      /\ pc = "prepass" /\ pc' = "planned"
      /\ Unresolved(built) = {} /\ ~CaptureFails(inv.plan, Messages)
      /\ artifact' = Clean(cleaned, built)
      /\ inv' = [inv EXCEPT !.plan = kept] /\ DOMAIN inv = InvFields
  BY DEF PrepassSucceeds, IInv, InvocationOK, InvFields
<1> HIDE DEF kept, cleaned, dirty, none, without, plan, built
<1>2. /\ DOMAIN inv' = InvFields
      /\ inv'.request = inv.request /\ inv'.command = inv.command /\ inv'.plan = kept
      /\ inv'.desired = inv.desired /\ inv'.own = inv.own
      /\ inv'.todo = inv.todo /\ inv'.broken = inv.broken
  BY <1>1 DEF InvFields
<1>3. /\ artifact' \in [Units -> Compiled \cup {NoArtifact}]
      /\ \A u \in Units : Transformed(u)' => artifact'[u] = artifact[u] /\ built[u] = artifact[u]
  BY <1>1, CleanedArtifacts DEF built
<1>4. inv.request \in SUBSET Members /\ inv.command = "build" /\ inv.broken = {} /\ ~inv.own
  BY <1>1 DEF IInv, InvocationOK, TypeOK
<1>5. /\ Images = ImagesIn(world, inv.request) /\ Messages = MessagesIn(world, inv.request)
      /\ \A i : LinkedInto(i) = LinkedIn(world, i)
  BY <1>1, <1>4, BuildIs
<1>6. PICK selected \in {{}, inv.request} : /\ inv.desired = DesiredIn(world, selected)
                                            /\ PlanOK(world, inv.plan, selected)
  BY <1>1 DEF IInv, InvocationOK
<1>7. /\ PlanOK(world, plan, selected) /\ PlanOK(world, without, selected) /\ without.otel = {}
      /\ plan.otel = Reported(Messages, WantedOtel(plan))
      /\ plan.otel = Reported(Messages, WantedOtel(inv.plan))
  <2>1. Messages \subseteq Artifacts
    BY <1>1, <1>4, MessagesAreArtifacts
  <2>2. selected \in SUBSET Members
    BY <1>4
  <2> QED
    BY <1>1, <1>5, <1>6, <2>1, <2>2, CaptureOK DEF plan, without
<1>8. /\ PlanOK(world, kept, selected)
      /\ kept.otel # {} => kept = plan /\ inv.desired \cap Retained(plan) = {}
  BY <1>7 DEF kept, none
<1>9. ~Ambiguous(plan.otel)
  BY <1>1, <1>7 DEF CaptureFails
<1>10. TypeOK'
  <2>1. kept.otel \cup kept.tokio \subseteq Artifacts
    BY <1>8 DEF PlanOK
  <2> QED
    BY <1>1, <1>2, <1>3, <2>1 DEF IInv, TypeOK
<1>11. InvocationOK'
  <2>1. kept.otel # {} => CapturedOK'
    BY <1>1, <1>2, <1>4, <1>5, <1>7, <1>8, <1>9 DEF CapturedOK
  <2> QED
    BY <1>1, <1>2, <1>4, <1>6, <1>8, <2>1 DEF InvocationOK, InvFields
<1>12. ArtifactsOK'
  BY <1>1, <1>3, ArtifactsStay
<1>13. BuildOK'
  <2>1. ASSUME NEW i \in Images, \A s \in LinkedInto(i) : s.pkg \notin Named("otel_shim"),
               NEW u \in LinkedInto(i), Transformed(u)', artifact'[u].form = "trampoline"
        PROVE  FALSE
    <3>1. u \in Units
      BY <1>1, <1>4, LinkedFacts, NeededAreUnits
    <3>2. built[u].form = "trampoline"
      BY <1>3, <2>1, <3>1
    <3>3. i \in Unresolved(built)
      BY <2>1, <3>2 DEF Unresolved
    <3> QED
      BY <1>1, <3>3
  <2>2. TakenOverOK'
    BY <1>1, <1>2, <1>5, <2>1 DEF TakenOverOK
  <2> QED
    BY <1>1, <2>2 DEF BuildOK
<1> QED
  BY <1>1, <1>10, <1>11, <1>12, <1>13 DEF IInv

\* run_wrapper: what it compiles is transformed only as the plan and the gates allow.
LEMMA CompileKeeps ==
  ASSUME IInv, NEW u \in Units, NEW asItIs \in BOOLEAN, Compile(u, asItIs)
  PROVE  IInv'
<1> DEFINE rustc == Rustc(u)
           form == IF asItIs THEN "plain"
                   ELSE Emitter(inv.plan, rustc, world.mode, world.enforced)
           unit == [form |-> form, otel |-> BoundOtel(inv.plan, rustc, form),
                    spawns |-> RewritesSpawns(inv.plan, rustc, form),
                    for |-> inv.request]
<1>1. /\ world \in Worlds /\ UNCHANGED <<world, pc, count>> /\ pc = "building"
      /\ artifact' = [artifact EXCEPT ![u] = unit]
      /\ inv' = [inv EXCEPT !.todo = @ \ {u}] /\ DOMAIN inv = InvFields
  BY DEF Compile, IInv, InvocationOK, InvFields
<1>2. /\ form \in Forms
      /\ form # "plain" => ~Skips(inv.plan, rustc, world.mode)
      /\ form = "native" => OtelArtifact(inv.plan, rustc) # NoArtifact
      /\ form = "trampoline" => HasExtern(rustc, "otel_shim") \/ ~IsShimUnsafe(inv.plan, rustc)
  BY EmitterFacts DEF Forms
<1>3. /\ unit.form = form /\ unit.for = inv.request
      /\ unit.spawns = RewritesSpawns(inv.plan, rustc, form)
      /\ unit.otel = BoundOtel(inv.plan, rustc, form)
  OBVIOUS
<1>4. form = "native" => unit.otel = OtelArtifact(inv.plan, rustc).rlib
  BY <1>3 DEF BoundOtel
<1> HIDE DEF form, rustc
<1>5. inv.request \in SUBSET Members /\ inv.broken = {}
  BY <1>1 DEF IInv, InvocationOK, TypeOK
<1>6. PICK selected \in {{}, inv.request} : /\ inv.desired = DesiredIn(world, selected)
                                            /\ inv.own => PlanOK(world, inv.plan, {})
                                            /\ ~inv.own => PlanOK(world, inv.plan, selected)
  BY <1>1 DEF IInv, InvocationOK
<1>7. PICK mine \in {{}, inv.request} : /\ PlanOK(world, inv.plan, mine)
                                        /\ ~inv.own => mine = selected
  BY <1>6
<1>8. mine \in SUBSET Members
  BY <1>5
<1>9. unit \in Compiled
  <2>1. unit.otel \in Units \cup {NoUnit}
    <3>1. CASE form = "native"
      <4>1. OtelArtifact(inv.plan, rustc) \in inv.plan.otel
        BY <1>1, <1>2, <3>1, NativeHasArtifact DEF rustc
      <4>2. inv.plan.otel \subseteq Artifacts
        BY DEF IInv, TypeOK
      <4> QED
        BY <1>4, <3>1, <4>1, <4>2 DEF Artifacts
    <3>2. CASE form # "native"
      BY <1>3, <3>2 DEF BoundOtel
    <3> QED
      BY <3>1, <3>2
  <2>2. unit.spawns \in BOOLEAN
    BY <1>3 DEF RewritesSpawns
  <2> QED
    BY <1>2, <1>5, <2>1, <2>2 DEF Compiled
<1>10. ASSUME unit.form # "plain" PROVE TransformedOK(world, u, unit)
  <2>1. ~Skips(inv.plan, rustc, world.mode)
    BY <1>2, <1>3, <1>10
  <2>2. Treatable(world, u.pkg) /\ u.pkg \in PlanIn(world, mine).reachable
    <3> HIDE DEF unit
    <3>1. world \in Worlds /\ PlanOK(world, inv.plan, mine)
      BY <1>1, <1>7
    <3>2. ~Skips(inv.plan, Rustc(u), world.mode)
      BY <2>1 DEF rustc
    <3> QED
      BY <1>8, <3>1, <3>2, NotSkipped
  <2>3. SpawnsOK(world, u, unit)
    BY <1>1, <1>3, <1>7, <1>8, SpawnsCompiled DEF rustc
  <2>4. ASSUME unit.form = "native" PROVE NativeOK(world, u, unit)
    <3>1. OtelArtifact(inv.plan, rustc) # NoArtifact
      BY <1>2, <1>3, <2>4
    <3>2. inv.plan.otel # {}
      BY <1>1, <3>1, NativeHasArtifact DEF rustc
    <3>3. CapturedOK
      BY <1>1, <3>2 DEF IInv, InvocationOK
    <3>4. PlanOK(world, inv.plan, selected)
      <4>1. ~inv.own
        BY <3>3 DEF CapturedOK
      <4> QED
        BY <1>6, <4>1
    <3>5. unit.otel = OtelArtifact(inv.plan, rustc).rlib
      BY <1>3, <1>4, <2>4
    <3> HIDE DEF unit
    <3> QED
      BY <1>1, <1>3, <1>5, <1>6, <2>1, <3>1, <3>3, <3>4, <3>5, NativeCompiled DEF rustc
  <2>5. ASSUME unit.form = "trampoline" PROVE TrampolineOK(world, u, unit)
    <3>1. HasExtern(rustc, "otel_shim") \/ ~IsShimUnsafe(inv.plan, rustc)
      BY <1>2, <1>3, <2>5
    <3> HIDE DEF unit
    <3> QED
      BY <1>1, <1>3, <1>5, <1>7, <3>1, TrampolineCompiled DEF rustc
  <2> HIDE DEF unit
  <2> QED
    BY <1>3, <2>2, <2>3, <2>4, <2>5 DEF TransformedOK
<1> HIDE DEF unit
<1>11. artifact \in [Units -> Compiled \cup {NoArtifact}]
  BY DEF IInv, TypeOK
<1>12. /\ artifact' \in [Units -> Compiled \cup {NoArtifact}]
       /\ artifact'[u] = unit /\ \A v \in Units \ {u} : artifact'[v] = artifact[v]
  BY <1>1, <1>9, <1>11
<1>13. /\ DOMAIN inv' = InvFields
       /\ inv'.request = inv.request /\ inv'.command = inv.command /\ inv'.plan = inv.plan
       /\ inv'.desired = inv.desired /\ inv'.own = inv.own
       /\ inv'.todo = inv.todo \ {u} /\ inv'.broken = inv.broken
  BY <1>1 DEF InvFields
<1>14. TypeOK'
  BY <1>1, <1>12, <1>13 DEF IInv, TypeOK
<1>15. InvocationOK'
  BY <1>1, <1>5, <1>13, InvocationStays
<1>16. ArtifactsOK'
  <2> SUFFICES ASSUME NEW v \in Units, Transformed(v)'
               PROVE  TransformedOK(world, v, artifact'[v])
    BY <1>1 DEF ArtifactsOK
  <2>1. CASE v = u
    BY <1>10, <1>12, <2>1 DEF Transformed
  <2>2. CASE v # u
    BY <1>12, <2>2 DEF Transformed, IInv, ArtifactsOK
  <2> QED
    BY <2>1, <2>2
<1>17. BuildOK'
  <2>1. \A v \in Needed' : artifact'[v] = NoArtifact => v \in inv'.todo
    <3>1. Needed' = Needed /\ Needed \subseteq Units
      BY <1>1, <1>5, <1>13, SameBuild, NeededAreUnits
    <3>2. \A v \in Needed : artifact[v] = NoArtifact => v \in inv.todo
      BY <1>1 DEF IInv, BuildOK
    <3> QED
      BY <1>9, <1>12, <1>13, <3>1, <3>2, CompiledAssumption
  <2>2. ASSUME inv.command = "build" PROVE TakenOverOK'
    <3>1. TakenOverOK
      BY <1>1, <2>2 DEF IInv, BuildOK
    <3> SUFFICES ASSUME NEW i \in ImagesIn(world, inv.request),
                        i.pkg \in inv.request \cap Executables,
                        \A s \in LinkedIn(world, i) : s.pkg \notin Named("otel_shim"),
                        NEW v \in LinkedIn(world, i), Transformed(v)',
                        artifact'[v].form = "trampoline", v.pkg \notin world.renamed
                 PROVE  i.pkg \in artifact'[v].for
      BY <1>1, <1>13 DEF TakenOverOK
    <3>2. v \in Units
      <4>1. i \in Images /\ v \in LinkedInto(i)
        BY <1>1, <2>2, BuildIs
      <4> QED
        BY <1>1, <1>5, <4>1, LinkedFacts, NeededAreUnits
    <3>3. CASE v = u
      BY <1>3, <1>12, <3>3
    <3>4. CASE v # u
      <4>1. artifact'[v] = artifact[v]
        BY <1>12, <3>2, <3>4
      <4>2. Transformed(v) /\ artifact[v].form = "trampoline"
        BY <4>1 DEF Transformed
      <4> QED
        BY <3>1, <4>1, <4>2 DEF TakenOverOK
    <3> QED
      BY <3>3, <3>4
  <2> QED
    BY <1>1, <1>13, <2>1, <2>2 DEF BuildOK
<1> QED
  BY <1>1, <1>14, <1>15, <1>16, <1>17 DEF IInv

LEMMA InitHolds == Init => IInv
<1> SUFFICES ASSUME Init PROVE IInv
  OBVIOUS
<1>1. /\ world \in Worlds /\ artifact = [u \in Units |-> NoArtifact] /\ pc = "idle"
      /\ inv = Nothing /\ count = 0
  BY DEF Init
<1>2. /\ DOMAIN inv = InvFields
      /\ inv.request = {} /\ inv.command = "build" /\ inv.desired = {}
      /\ inv.own = FALSE /\ inv.todo = {} /\ inv.broken = {}
      /\ inv.plan.otel = {} /\ inv.plan.tokio = {}
  BY <1>1 DEF Nothing, PlanOf, InvFields
<1>3. TypeOK
  <2>1. count \in 0 .. world.limit
    BY <1>1, WorldFacts
  <2> QED
    BY <1>1, <1>2, <2>1 DEF TypeOK, Commands
<1>4. InvocationOK
  BY <1>1, <1>2 DEF InvocationOK, InvFields
<1>5. ArtifactsOK
  BY <1>1 DEF ArtifactsOK, Transformed
<1>6. BuildOK
  BY <1>1 DEF BuildOK
<1> QED
  BY <1>1, <1>3, <1>4, <1>5, <1>6 DEF IInv

LEMMA NextKeeps == IInv /\ [Next]_vars => IInv'
<1> SUFFICES ASSUME IInv, [Next]_vars PROVE IInv'
  OBVIOUS
<1>1. ASSUME NEW i \in Invocations, Invoke(i.request, i.named, i.command) PROVE IInv'
  <2>1. i.request \in SUBSET Members /\ i.command \in Commands
    BY WorldsAssumption
  <2> QED
    BY <1>1, <2>1, InvokeKeeps
<1>2. CASE PrepassFails
  BY <1>2, PrepassFailsKeeps
<1>3. CASE PrepassSucceeds
  BY <1>3, PrepassSucceedsKeeps
<1>4. CASE StartBuild
  BY <1>4, StartBuildKeeps
<1>5. CASE LosePlan
  BY <1>5, LosePlanKeeps
<1>6. CASE \E u \in Units, asItIs \in BOOLEAN : Compile(u, asItIs)
  BY <1>6, CompileKeeps
<1>7. CASE Link
  BY <1>7, LinkKeeps
<1>8. CASE End
  BY <1>8, EndKeeps
<1>9. CASE UNCHANGED vars
  BY <1>9, StutterKeeps
<1> QED
  BY <1>1, <1>2, <1>3, <1>4, <1>5, <1>6, <1>7, <1>8, <1>9 DEF Next

LEMMA Invariant == Spec => []IInv
<1> QED
  BY InitHolds, NextKeeps, PTL DEF Spec

-----------------------------------------------------------------------------
(* Theorems *)

\* Artifacts and the locals of an invocation keep their types, in every workspace:
\* what is captured are artifacts and what a unit is bound to is a unit.
THEOREM InstrumentedTypeOK == Spec => []TypeOK
<1>1. IInv => TypeOK
  BY DEF IInv
<1> QED
  BY <1>1, Invariant, PTL

\* A linked build has every unit it needs.
LEMMA LinkedState ==
  ASSUME IInv, pc = "linked"
  PROVE  /\ world \in Worlds /\ inv.request \in SUBSET Members
         /\ \A u \in Needed : u \in Units /\ artifact[u] # NoArtifact
         /\ inv.broken = Unresolved(artifact)
         /\ \A u \in Units : Transformed(u) => TransformedOK(world, u, artifact[u])
<1>1. world \in Worlds /\ inv.request \in SUBSET Members
  BY DEF IInv, TypeOK
<1>2. Needed \subseteq Units
  BY <1>1, NeededAreUnits
<1> QED
  BY <1>1, <1>2 DEF IInv, BuildOK, ArtifactsOK

\* Instrumentation does not break a link but where the plan cannot see what is
\* linked (is_shim_unsafe, desired_instrumented_package_ids, the pre-pass).
THEOREM BuildImagesLink == Spec => []ImagesLink
<1>1. ASSUME IInv, NEW i \in inv.broken PROVE BeyondThePlan(i)
  <2>1. pc = "linked"
    BY <1>1 DEF IInv, InvocationOK
  <2>2. /\ world \in Worlds /\ inv.request \in SUBSET Members
        /\ \A u \in Needed : u \in Units /\ artifact[u] # NoArtifact
        /\ inv.broken = Unresolved(artifact)
        /\ \A u \in Units : Transformed(u) => TransformedOK(world, u, artifact[u])
    BY <1>1, <2>1, LinkedState
  <2>3. /\ i \in Images /\ \A u \in LinkedInto(i) : u.pkg \notin Named("otel_shim")
        /\ \E u \in LinkedInto(i) : artifact[u].form = "trampoline"
    BY <2>2 DEF Unresolved
  <2>4. PICK u \in LinkedInto(i) : artifact[u].form = "trampoline"
    BY <2>3
  <2>5. u \in Units /\ Transformed(u) /\ u.pkg \in Reached(i.pkg, world.edges)
    BY <2>2, <2>3, <2>4, LinkedFacts DEF Transformed
  <2>6. TransformedOK(world, u, artifact[u])
    BY <2>2, <2>5
  <2>7. CASE i.pkg \notin inv.request \cap Executables
    <3>1. u.pkg \in PlanFor({}).reachable \cup PlanFor(artifact[u].for).reachable
      BY <2>6, PlanForIs DEF TransformedOK
    <3> QED
      BY <2>5, <2>7, <3>1 DEF BeyondThePlan
  <2>8. CASE u.pkg \in world.renamed
    BY <2>5, <2>8 DEF BeyondThePlan
  <2>9. CASE i.pkg \in inv.request \cap Executables /\ u.pkg \notin world.renamed
    <3>1. CASE i.pkg \in artifact[u].for
      <4>1. Reached(i.pkg, world.edges) \cap Named("otel_shim") # {}
        BY <2>4, <2>5, <2>6, <2>9, <3>1 DEF TransformedOK, TrampolineOK
      <4> QED
        BY <4>1 DEF BeyondThePlan, Reached
    <3>2. CASE i.pkg \notin artifact[u].for
      <4>1. artifact[u].for # inv.request
        BY <2>9, <3>2
      <4>2. CASE inv.command = "build"
        <5>1. i \in ImagesIn(world, inv.request) /\ LinkedInto(i) = LinkedIn(world, i)
          BY <2>2, <2>3, <4>2, BuildIs
        <5>2. TakenOverOK
          BY <1>1, <2>1, <4>2 DEF IInv, BuildOK
        <5> QED
          BY <2>3, <2>4, <2>5, <2>9, <3>2, <5>1, <5>2 DEF TakenOverOK
      <4>3. CASE inv.command = "test"
        BY <4>1, <4>3 DEF BeyondThePlan
      <4>4. inv.command \in {"build", "test"}
        BY <1>1 DEF IInv, TypeOK, Commands
      <4> QED
        BY <4>2, <4>3, <4>4
    <3> QED
      BY <3>1, <3>2
  <2> QED
    BY <2>7, <2>8, <2>9
<1>2. IInv => ImagesLink
  BY <1>1 DEF ImagesLink
<1> QED
  BY <1>2, Invariant, PTL

\* The OpenTelemetry units of an image are one, linked or bound to: that of the
\* profile and package of the native units (r4_otel_package_map, the capture).
LEMMA OneInstance ==
  ASSUME IInv, pc = "linked", inv.command = "build" \/ Shared,
         NEW i \in Images, i.pkg \in inv.request \cap Executables,
         NEW u \in LinkedInto(i), artifact[u].form = "native",
         artifact[u].for = inv.request
  PROVE  /\ artifact[u].otel.pkg \in Named("opentelemetry")
         /\ \A v \in LinkedInto(i) : v.pkg \in Named("opentelemetry") => v = artifact[u].otel
         /\ \A v \in LinkedInto(i) :
              artifact[v].form = "native" /\ artifact[v].for = inv.request
              => artifact[v].otel = artifact[u].otel
<1> DEFINE request == inv.request
           o == artifact[u].otel
<1>1. /\ world \in Worlds /\ request \in SUBSET Members
      /\ \A v \in Needed : v \in Units /\ artifact[v] # NoArtifact
      /\ \A v \in Units : Transformed(v) => TransformedOK(world, v, artifact[v])
  BY LinkedState
<1>2. /\ i \in Units /\ LinkedInto(i) \subseteq Needed
      /\ \A v \in LinkedInto(i) : v.pkg \in Reached(i.pkg, world.edges)
      /\ \A v, x \in LinkedInto(i) : v.side = x.side
  BY <1>1, LinkedFacts
<1>3. ASSUME NEW v \in LinkedInto(i), artifact[v].form = "native", artifact[v].for = request
      PROVE  /\ NativeOK(world, v, artifact[v])
             /\ Reached(i.pkg, world.edges) \cap Named("opentelemetry") = {artifact[v].otel.pkg}
  <2>1. TransformedOK(world, v, artifact[v])
    BY <1>1, <1>2, <1>3 DEF Transformed
  <2>2. NativeOK(world, v, artifact[v])
    BY <1>3, <2>1 DEF TransformedOK
  <2> QED
    BY <1>2, <1>3, <2>2 DEF NativeOK
<1>4. /\ NativeOK(world, u, artifact[u])
      /\ Reached(i.pkg, world.edges) \cap Named("opentelemetry") = {o.pkg}
  BY <1>3
<1>5. /\ o \in NeededIn(world, request) /\ world.profile[o.side] = world.profile[u.side]
      /\ \A v \in NeededIn(world, request) :
           v.pkg = o.pkg /\ world.profile[v.side] = world.profile[u.side] => v = o
  BY <1>4 DEF NativeOK
<1>6. ASSUME NEW v \in LinkedInto(i), artifact[v].form = "native", artifact[v].for = request
      PROVE  artifact[v].otel = o
  <2>1. artifact[v].otel.pkg = o.pkg
    BY <1>3, <1>4, <1>6
  <2>2. /\ artifact[v].otel \in NeededIn(world, request)
        /\ world.profile[artifact[v].otel.side] = world.profile[v.side]
    BY <1>3, <1>6 DEF NativeOK
  <2>3. v.side = u.side
    BY <1>2
  <2> QED
    BY <1>5, <2>1, <2>2, <2>3
<1>7. ASSUME NEW v \in LinkedInto(i), v.pkg \in Named("opentelemetry")
      PROVE  v = o
  <2>1. v.pkg = o.pkg /\ v.side = u.side /\ v \in Needed
    BY <1>2, <1>4, <1>7
  <2>2. CASE inv.command = "build"
    <3>1. v \in NeededIn(world, request)
      BY <1>1, <2>1, <2>2, BuildIs
    <3> QED
      BY <1>5, <2>1, <3>1
  <2>3. CASE Shared
    <3>1. v = [pkg |-> v.pkg, side |-> "target"]
      BY <2>1, <2>3 DEF Needed, Unit
    <3>2. o = [pkg |-> o.pkg, side |-> "target"]
      <4>1. SharedIn(world)
        BY <2>3 DEF Shared, SharedIn
      <4> QED
        BY <1>5, <4>1 DEF NeededIn, UnitIn
    <3> QED
      BY <2>1, <3>1, <3>2
  <2> QED
    BY <2>2, <2>3
<1> QED
  BY <1>4, <1>6, <1>7

\* Whatever the profiles, features and selections, the native units of an executable
\* and the executable itself have a single instance of OpenTelemetry
\* (r4_native_otel_artifact_for with r4_otel_package_map).
THEOREM BuildOneOtelInstance == Spec => []OneOtelInstance
<1>1. ASSUME IInv, pc = "linked", inv.command = "build" \/ Shared,
             NEW i \in Images, i.pkg \in inv.request \cap Executables,
             {u \in LinkedInto(i) : artifact[u].form = "native"} # {},
             \A u \in {v \in LinkedInto(i) : artifact[v].form = "native"} :
               artifact[u].for = inv.request
      PROVE  Cardinality({u \in LinkedInto(i) : u.pkg \in Named("opentelemetry")}
               \cup {artifact[u].otel :
                       u \in {v \in LinkedInto(i) : artifact[v].form = "native"}}) = 1
  <2> DEFINE linked == LinkedInto(i)
             natives == {v \in linked : artifact[v].form = "native"}
             own == {v \in linked : v.pkg \in Named("opentelemetry")}
             bound == {artifact[v].otel : v \in natives}
  <2>1. PICK u \in linked : artifact[u].form = "native"
    BY <1>1
  <2>2. artifact[u].for = inv.request
    BY <1>1, <2>1
  <2>3. /\ \A v \in linked : v.pkg \in Named("opentelemetry") => v = artifact[u].otel
        /\ \A v \in linked : artifact[v].form = "native" => artifact[v].otel = artifact[u].otel
    BY <1>1, <2>1, <2>2, OneInstance
  <2>4. own \cup bound = {artifact[u].otel}
    BY <2>1, <2>3
  <2> HIDE DEF own, bound
  <2>5. Cardinality(own \cup bound) = 1
    BY <2>4, FS_Singleton
  <2> QED
    BY <2>5 DEF own, bound
<1>2. IInv => OneOtelInstance
  BY <1>1 DEF OneOtelInstance
<1> QED
  BY <1>2, Invariant, PTL

\* Natively instrumented code is no part of what its OpenTelemetry is built from
\* (retained_artifact_closure against desired_instrumented_package_ids).
THEOREM BuildNativeIsAcyclic == Spec => []NativeIsAcyclic
<1>1. IInv => NativeIsAcyclic
  BY DEF IInv, ArtifactsOK, TransformedOK, NativeOK, NativeIsAcyclic
<1> QED
  BY <1>1, Invariant, PTL

\* Under the dependency policy neither the workspace's own code nor anything the
\* telemetry runtime and Tokio are built from is transformed, whichever plan a
\* wrapper acts on (configure_dependency_only_policy with should_skip).
THEOREM BuildRuntimeIsUntouched == Spec => []RuntimeIsUntouched
<1>1. IInv => RuntimeIsUntouched
  BY DEF IInv, ArtifactsOK, TransformedOK, Treatable, ExcludedIn, Runtime, RuntimeIsUntouched
<1> QED
  BY <1>1, Invariant, PTL

\* A unit whose spawns are rewritten calls Tokio by that name, with its runtime, in
\* every workspace (unit_has_real_tokio_metadata_binding, tokio_artifact_for).
THEOREM BuildSpawnsAreTokios == Spec => []SpawnsAreTokios
<1>1. IInv => SpawnsAreTokios
  BY DEF IInv, ArtifactsOK, TransformedOK, SpawnsOK, SpawnsAreTokios
<1> QED
  BY <1>1, Invariant, PTL

\* What the CLI cleans the wrapper treats, but for the names, directories and plans
\* the two judge differently (desired_instrumented_package_ids, should_skip).
THEOREM BuildCleanedIsTreated == Spec => []CleanedIsTreated
<1>1. ASSUME IInv, pc = "linked", NEW p \in inv.desired,
             Skips(inv.plan, Rustc(Unit(p, "target")), world.mode)
      PROVE  \/ p \in Hyphened
             \/ \E d \in inv.plan.hostDirs : <<p, d>> \in Inside
             \/ inv.own /\ p \notin inv.plan.reachable
  <2> DEFINE u == Unit(p, "target")
             rustc == Rustc(u)
             plan == inv.plan
  <2>1. world \in Worlds /\ inv.request \in SUBSET Members /\ p \in Packages
    BY <1>1 DEF IInv, TypeOK
  <2>2. u \in Units /\ u.pkg = p
    BY <2>1, UnitIs, UnitInUnits DEF Sides
  <2> HIDE DEF u
  <2>3. /\ rustc.pkg = p /\ PackageOf(rustc.pkg) = p
        /\ rustc.crate = IF p \in world.renamed THEN "renamed" ELSE Name[p]
    BY <2>1, <2>2, RustcFacts DEF Rustc
  <2>4. PICK selected \in {{}, inv.request} : /\ inv.desired = DesiredIn(world, selected)
                                              /\ inv.own => PlanOK(world, plan, {})
                                              /\ ~inv.own => PlanOK(world, plan, selected)
    BY <1>1 DEF IInv, InvocationOK
  <2>5. PICK mine \in {{}, inv.request} : /\ PlanOK(world, plan, mine)
                                          /\ ~inv.own => mine = selected
    BY <2>4
  <2>6. selected \in SUBSET Members /\ mine \in SUBSET Members
    BY <2>1
  <2>7. /\ p \in PlanIn(world, selected).reachable /\ p \notin ExcludedIn(world)
        /\ p \notin OtelFamily \ Hyphened
        /\ Name[p] \notin {"otel_shim", "cargo_instrument"}
        /\ p \notin FromRegistry \/ world.mode # "legacy"
    BY <1>1, <2>4 DEF DesiredIn
  <2>8. p \notin ProcMacros
    BY <2>1, <2>6, <2>7, PlanInParts
  <2>9. /\ plan.excluded = ExcludedIn(world) /\ plan.reachable = PlanIn(world, mine).reachable
        /\ plan.hostNames = Names \ {Name[q] : q \in plan.reachable}
        /\ plan.hostDirs = Packages \ plan.reachable
    BY <2>1, <2>5, <2>6, PlanHas
  <2>10. ~inv.own => p \in plan.reachable
    BY <2>5, <2>7, <2>9
  <2> HIDE DEF rustc, plan
  <2>11. Skips(plan, rustc, world.mode)
    BY <1>1 DEF rustc, plan, u
  <2>12. ~Excludes(plan, rustc)
    BY <2>3, <2>7, <2>9 DEF Excludes
  <2>13. IsTelemetry(rustc) => p \in Hyphened
    BY <2>3, <2>7 DEF IsTelemetry
  <2>14. IsHostOnly(plan, rustc) =>
           p \notin plan.reachable \/ \E d \in plan.hostDirs : <<p, d>> \in Inside
    <3>1. p \in plan.reachable => rustc.crate \notin plan.hostNames
      BY <2>1, <2>3, <2>9, WorldsAssumption
    <3> QED
      BY <2>3, <2>9, <3>1 DEF IsHostOnly
  <2>15. Role(rustc) = "registry" => p \in FromRegistry \/ IsTelemetry(rustc)
    BY <2>3 DEF Role
  <2> QED
    BY <2>3, <2>7, <2>8, <2>10, <2>11, <2>12, <2>13, <2>14, <2>15 DEF Skips, plan
<1>2. IInv => CleanedIsTreated
  BY <1>1 DEF CleanedIsTreated
<1> QED
  BY <1>2, Invariant, PTL

=============================================================================
