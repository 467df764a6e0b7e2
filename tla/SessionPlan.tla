----------------------------- MODULE SessionPlan -----------------------------
(***************************************************************************)
(* The session plan (cargo-instrument/src/session.rs): what Cargo's        *)
(* metadata say about which packages may be instrumented and how, and      *)
(* which of the artifacts Cargo reported a unit may be linked with.        *)
(* SessionCache has the life of the plan's file, InstrumentedBuild the     *)
(* builds that use the plan.                                               *)
(*                                                                         *)
(* A dependency edge that has several kinds in the metadata is several     *)
(* edges here.  Names are normalised (no hyphens).  The directory of a     *)
(* package is named by the package.  A package is built as one unit, so    *)
(* one that has a proc-macro target has no other.                          *)
(***************************************************************************)
EXTENDS Naturals, FiniteSets

CONSTANTS Packages,
          Name,         \* Name[p]: p's name
          OtelFamily,   \* the packages whose name starts with "opentelemetry"
          Members,      \* the members of the workspace
          ProcMacros,   \* the packages with a proc-macro target
          Executables,  \* the packages with a bin or cdylib target
          Inside,       \* pairs <<p, q>>: p's directory lies inside q's
          NoArtifact

Names == {Name[p] : p \in Packages}
Named(name) == {p \in Packages : Name[p] = name}

ASSUME PackagesAssumption ==
  /\ IsFiniteSet(Packages)
  /\ DOMAIN Name = Packages
  /\ UNION {OtelFamily, Members, ProcMacros, Executables} \subseteq Packages
  /\ ProcMacros \cap (Executables \cup Named("otel_shim")) = {}
  /\ Named("opentelemetry") \subseteq OtelFamily
  /\ Inside \subseteq Packages \X Packages
  /\ \A p, q, r \in Packages :
       /\ <<p, p>> \notin Inside
       /\ <<p, q>> \in Inside /\ <<q, r>> \in Inside => <<p, r>> \in Inside

Kinds == {"normal", "dev", "build"}
Sides == {"target", "host"}

\* built: the edge is one of this platform and of the features of the build.
\* Cargo's metadata have the others too.
Edges == [from : Packages, to : Packages, binding : STRING, kind : Kinds,
          built : BOOLEAN]

\* A unit Cargo compiles, and the rlib it makes.
Units == [pkg : Packages, side : Sides]

Profiles == [opt : {"0", "3"}, debug : BOOLEAN, overflow : BOOLEAN]

\* An entry of r4_native_otel_artifacts or tokio_artifacts.  The CLI registers
\* them all under the target None.
Artifacts == [pkg : Packages, profile : Profiles,
              enough : BOOLEAN,   \* it has the required feature (trace, rt)
              rlib : Units]
ASSUME NoArtifactAssumption == NoArtifact \notin Artifacts

Pairs(edges) == {<<e.from, e.to>> : e \in edges}

\* The packages that the pairs lead to from start, start included.
Reach(start, pairs) ==
  LET Within[n \in 0..Cardinality(Packages)] ==
        IF n = 0 THEN start
        ELSE LET closer == Within[n - 1]
             IN  closer \cup {pair[2] : pair \in {d \in pairs : d[1] \in closer}}
  IN  Within[Cardinality(Packages)]

-----------------------------------------------------------------------------
(* The plan of a dependency graph *)

InternalMembers(edges) ==
  {e.to : e \in {d \in edges : d.kind = "normal" /\ {d.from, d.to} \subseteq Members}}

DefaultRoots(edges) ==
  LET candidates == Members \ ProcMacros
      tops == {p \in candidates : p \in Executables \/ p \notin InternalMembers(edges)}
  IN  IF tops # {} THEN tops
      ELSE IF candidates # {} THEN candidates
      ELSE Packages \ ProcMacros

TargetRoots(edges, selected) ==
  IF selected \ ProcMacros # {} THEN selected \ ProcMacros ELSE DefaultRoots(edges)

TargetEdges(edges) ==
  {e \in edges : e.kind \in {"normal", "dev"} /\ e.to \notin ProcMacros}

\* What each root reaches.
Reachability(edges, roots) ==
  LET pairs == Pairs(TargetEdges(edges)) IN [r \in roots |-> Reach({r}, pairs)]

Shimless(reached) ==
  {r \in DOMAIN reached : reached[r] \cap Named("otel_shim") = {}}

ShimUnsafe_None(reached) == {}
ShimUnsafe(reached) ==
  {Name[p] : p \in UNION {reached[r] : r \in Shimless(reached)}}

\* The packages for which the roots that reach them agree on one OpenTelemetry.
R4OtelPackage_AnyRoot(reached) ==
  LET otels == [r \in DOMAIN reached |-> reached[r] \cap Named("opentelemetry")]
      seen == [p \in UNION {reached[r] : r \in DOMAIN reached} |->
                 UNION {otels[r] : r \in {s \in DOMAIN reached : p \in reached[s]}}]
  IN  [p \in {q \in DOMAIN seen : seen[q] # {}} |-> CHOOSE o \in seen[p] : TRUE]
R4OtelPackage(reached) ==
  LET otels == [r \in DOMAIN reached |-> reached[r] \cap Named("opentelemetry")]
      seen == [p \in UNION {reached[r] : r \in DOMAIN reached} |->
                 {otels[r] : r \in {s \in DOMAIN reached : p \in reached[s]}}]
      mapped == {p \in DOMAIN seen :
                   Cardinality(seen[p]) = 1 /\ \A ids \in seen[p] : Cardinality(ids) = 1}
  IN  [p \in mapped |-> CHOOSE o \in UNION seen[p] : TRUE]

TokioEdges(p, edges) == {e \in edges : e.from = p /\ e.binding = "tokio"}

TokioPackage(edges) ==
  LET bound == [p \in Packages |-> {e.to : e \in TokioEdges(p, edges)}]
      mapped == {p \in Packages : \E t \in Named("tokio") : bound[p] = {t}}
  IN  [p \in mapped |-> CHOOSE t \in bound[p] : TRUE]

\* SessionPlan::from_metadata_json_scoped.
PlanOf(edges, selected) ==
  LET reached == Reachability(edges, TargetRoots(edges, selected))
      reachable == UNION {reached[r] : r \in DOMAIN reached}
  IN  [edges |-> edges,
       provider |-> Shimless(reached) # DOMAIN reached,
       shimUnsafe |-> ShimUnsafe(reached),
       reachable |-> reachable,
       hostNames |-> Names \ {Name[p] : p \in reachable},
       hostDirs |-> Packages \ reachable,
       otelOf |-> R4OtelPackage(reached),
       tokioOf |-> TokioPackage(edges),
       excluded |-> {},
       otel |-> {}, tokio |-> {}]

\* configure_dependency_only_policy: every kind of edge is followed.
DependencyOnly_Direct(plan) ==
  [plan EXCEPT !.excluded = Members \cup OtelFamily \cup Named("otel_shim") \cup Named("tokio")]
DependencyOnly(plan) ==
  [plan EXCEPT !.excluded =
     Members \cup Reach(OtelFamily \cup Named("otel_shim") \cup Named("tokio"),
                        Pairs(plan.edges))]

Forget(plan) == [plan EXCEPT !.otel = {}, !.tokio = {}]

-----------------------------------------------------------------------------
(* The artifacts Cargo reports *)

\* What add_r4_artifacts_from_cargo_json and add_tokio_artifacts_from_cargo_json
\* register, and when they fail.  What is registered before the failure the
\* only caller clears.
Reported(messages, wanted) == {m \in messages : m.pkg \in wanted}
Ambiguous(messages) ==
  \E a, b \in messages : a # b /\ a.pkg = b.pkg /\ a.profile = b.profile

WantedOtel(plan) == {plan.otelOf[p] : p \in DOMAIN plan.otelOf}
WantedTokio(plan) == {plan.tokioOf[p] : p \in DOMAIN plan.tokioOf} \cup Named("tokio")

CaptureFails(plan, messages) ==
  \/ Ambiguous(Reported(messages, WantedOtel(plan)))
  \/ Ambiguous(Reported(messages, WantedTokio(plan)))

Capture(plan, messages) ==
  [plan EXCEPT !.otel = Reported(messages, WantedOtel(plan)),
               !.tokio = Reported(messages, WantedTokio(plan))]

-----------------------------------------------------------------------------
(* The plan asked about a unit.  A unit's invocation has pkg, crate, target,  *)
(* flags and externs (WrapperDecision).                                       *)

\* package_id_for_source: the innermost directory around the unit's source.
PackageOf(p) ==
  LET around == {q \in Packages : q = p \/ <<p, q>> \in Inside}
  IN  CHOOSE q \in around : \A d \in around \ {q} : <<q, d>> \in Inside

\* is_host_only_unit: by the crate's name, or by any directory around it.
IsHostOnly(plan, rustc) ==
  \/ rustc.crate \in plan.hostNames
  \/ \E d \in plan.hostDirs : d = rustc.pkg \/ <<rustc.pkg, d>> \in Inside

IsShimUnsafe(plan, rustc) == rustc.crate \in plan.shimUnsafe

Excludes(plan, rustc) == PackageOf(rustc.pkg) \in plan.excluded

\* The -C flags Cargo passes for a profile: what rustc's defaults imply is left out.
CargoFlags(profile) ==
  LET implied == profile.opt = "0"
      onOff(b) == IF b THEN "on" ELSE "off"
  IN  [opt |-> IF profile.opt = "0" THEN "absent" ELSE profile.opt,
       debug |-> IF profile.debug = implied THEN "absent" ELSE onOff(profile.debug),
       overflow |-> IF profile.overflow = profile.debug THEN "absent"
                    ELSE onOff(profile.overflow)]

\* rustc_profile.
RustcProfile(flags) ==
  LET opt == IF flags.opt = "absent" THEN "0" ELSE flags.opt
      debug == IF flags.debug = "absent" THEN opt = "0" ELSE flags.debug = "on"
  IN  [opt |-> opt, debug |-> debug,
       overflow |-> IF flags.overflow = "absent" THEN debug ELSE flags.overflow = "on"]

HasExtern(rustc, binding) == \E x \in rustc.externs : x.binding = binding
ExternRlibs(rustc, binding) ==
  {x.rlib : x \in {y \in rustc.externs : y.binding = binding}}

\* The artifacts of package p for the unit's target and profile.
Matching(artifacts, p, rustc) ==
  {a \in artifacts : /\ a.pkg = p
                     /\ rustc.target = "none"
                     /\ a.profile = RustcProfile(rustc.flags)}

\* The only match, if it has the features and is what the unit links anyway.
Validated_AnyFeatures(artifacts, p, rustc, binding) ==
  LET found == {a \in Matching(artifacts, p, rustc) : ExternRlibs(rustc, binding) \subseteq {a.rlib}}
  IN  IF Cardinality(Matching(artifacts, p, rustc)) = 1 /\ found # {}
      THEN CHOOSE a \in found : TRUE
      ELSE NoArtifact
Validated(artifacts, p, rustc, binding) ==
  LET found == {a \in Matching(artifacts, p, rustc) :
                  a.enough /\ ExternRlibs(rustc, binding) \subseteq {a.rlib}}
  IN  IF Cardinality(Matching(artifacts, p, rustc)) = 1 /\ found # {}
      THEN CHOOSE a \in found : TRUE
      ELSE NoArtifact

\* r4_native_otel_artifact_for; Ok(None) and Err are the same to the wrapper.
OtelArtifact(plan, rustc) ==
  LET p == PackageOf(rustc.pkg)
  IN  IF p \notin DOMAIN plan.otelOf THEN NoArtifact
      ELSE Validated(plan.otel, plan.otelOf[p], rustc, "opentelemetry")

\* unit_has_real_tokio_metadata_binding.
HasRealTokio(plan, rustc) ==
  LET edges == TokioEdges(PackageOf(rustc.pkg), plan.edges)
  IN  /\ HasExtern(rustc, "tokio")
      /\ edges # {}
      /\ \A e \in edges : e.to \in Named("tokio")

\* tokio_artifact_for.
TokioArtifact(plan, rustc) ==
  LET p == PackageOf(rustc.pkg)
      genuine == {e.to : e \in TokioEdges(p, plan.edges)} \cap Named("tokio")
      of == IF p \in DOMAIN plan.tokioOf THEN {plan.tokioOf[p]} ELSE genuine
  IN  IF Cardinality(of) = 1 /\ HasExtern(rustc, "tokio")
      THEN Validated(plan.tokio, CHOOSE t \in of : TRUE, rustc, "tokio")
      ELSE NoArtifact
=============================================================================
