--------------------------- MODULE WrapperDecision ---------------------------
(***************************************************************************)
(* What the compiler wrapper decides about one rustc invocation            *)
(* (run_wrapper in cargo-instrument/src/wrapper.rs, CompilationUnit in     *)
(* discovery.rs): whether the unit is left alone, and otherwise which      *)
(* emitter transforms it.  The mirror the transformed source goes to is    *)
(* SourceMirror's.                                                         *)
(*                                                                         *)
(* The reasons of the source itself (no candidates, no_std, forbidden      *)
(* unsafe, an ABI collision, a failed preflight) and a failed mirror are   *)
(* one: the unit is compiled as it is.                                     *)
(***************************************************************************)
EXTENDS SessionPlan

CONSTANTS FromRegistry,  \* packages whose source is under .cargo/registry or .cargo/git
          Cdylibs,       \* the executables that are a cdylib and no bin
          NoUnit

ASSUME CdylibsAssumption == Cdylibs \subseteq Executables
ASSUME RegistryAssumption == FromRegistry \subseteq Packages \ Members
ASSUME NoUnitAssumption == NoUnit \notin Units

\* legacy: neither variable is set; registry: CARGO_INSTRUMENT_REGISTRY is;
\* dependencies: both, as --with-dependencies sets them.
Modes == {"legacy", "registry", "dependencies"}

Forms == {"plain", "sentinel", "trampoline", "native"}

\* is_telemetry_or_tool_crate.
IsTelemetry(rustc) ==
  rustc.pkg \in OtelFamily \/ rustc.crate \in {"otel_shim", "cargo_instrument"}

\* CompilationUnit::role, which takes no cdylib for an application.
Role(rustc) ==
  IF rustc.pkg \in FromRegistry \/ IsTelemetry(rustc) THEN "registry"
  ELSE IF \/ HasExtern(rustc, "opentelemetry")
          \/ HasExtern(rustc, "otel_shim")
          \/ rustc.pkg \in Executables \ Cdylibs
       THEN "application"
  ELSE "dependency"

\* should_skip.  PackageOf finds a package for every unit, so the test for a
\* unit of no known package is not there.
Skips(plan, rustc, mode) ==
  \/ rustc.pkg \in ProcMacros
  \/ Excludes(plan, rustc)
  \/ IsTelemetry(rustc)
  \/ IsHostOnly(plan, rustc)
  \/ Role(rustc) = "registry" /\ mode = "legacy"

ApplicationEmitter(plan, rustc, enforced) ==
  CASE HasExtern(rustc, "opentelemetry") /\ OtelArtifact(plan, rustc) # NoArtifact
         -> "native"
    [] OTHER -> IF enforced THEN "plain"
                ELSE IF HasExtern(rustc, "otel_shim") THEN "trampoline" ELSE "sentinel"

DependencyEmitter(plan, rustc) ==
  CASE OtelArtifact(plan, rustc) # NoArtifact -> "native"
    [] OTHER -> IF plan.provider /\ ~IsShimUnsafe(plan, rustc)
                THEN "trampoline" ELSE "plain"

\* The emitter, "plain" when there is none; enforced: CARGO_INSTRUMENT_NATIVE_OTEL.
Emitter(plan, rustc, mode, enforced) ==
  IF Skips(plan, rustc, mode) THEN "plain"
  ELSE IF Role(rustc) = "application" THEN ApplicationEmitter(plan, rustc, enforced)
  ELSE DependencyEmitter(plan, rustc)

\* The OpenTelemetry rlib native code is compiled against: the unit's own extern,
\* or the one the wrapper adds.
BoundOtel_Package(plan, rustc, form) ==
  IF form # "native" THEN NoUnit ELSE OtelArtifact(plan, rustc).pkg
BoundOtel(plan, rustc, form) ==
  IF form # "native" THEN NoUnit ELSE OtelArtifact(plan, rustc).rlib

\* Whether the unit's tokio::spawn calls are rewritten, which only the native
\* emitter does (handles_tokio_spawn).
RewritesSpawns(plan, rustc, form) ==
  /\ form = "native"
  /\ HasRealTokio(plan, rustc)
  /\ TokioArtifact(plan, rustc) # NoArtifact
=============================================================================
