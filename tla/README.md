# Verification of cargo-instrument

TLA+ models, TLC runs and TLAPS proofs for the repository's compile-time
instrumentation of Rust programs. Paths below are relative to the repository
(`src/` in `PROJECT.json`).

- `cargo instrument -- build` runs Cargo with itself as `RUSTC_WRAPPER`; each
  wrapped rustc call may compile a mirrored, transformed copy of its crate.
- The transformed code opens and closes OpenTelemetry spans, either natively
  (Tier 1, and dependencies to which an `--extern opentelemetry=` is injected)
  or through the C ABI of `otel-shim` (Tier 2).

## 1. Inventory

| Component | State it keeps | Operations | Modelled in |
|---|---|---|---|
| Runtime shim, `otel-shim/src/lib.rs` | per thread `STACK` of (handle, Context, guard), `IN_SHIM`; global `NEXT_HANDLE` | `__otel_span_enter`, its v2, `__otel_span_exit`, `__otel_span_set_error`; async symbols are stubs | `OtelShim`, `CallTrace` |
| Emitted code, `transform.rs` emitters | locals of the instrumented function: handle, span, guard; the future of an async call and its lifecycle guard | enter on entry, set_error on `Err`, exit on drop; native span and guard; `with_context` around an async body; the Tokio spawn edit | `OtelShim` (synchronous forms), `AsyncLifecycle` |
| CLI, `cargo-instrument/src/main.rs` | target directory: artifacts, stamps, policy file, session file | policy check and clean, plan, pre-pass, capture, selective clean, wrapped build | `BuildOrchestration` (several invocations, kills), `InstrumentedBuild` (several binaries and graphs) |
| Wrapper, `wrapper.rs`, `discovery.rs` | one rustc call: arguments, stamp | skip rules, role, emitter choice, extern injection | `WrapperDecision`, `InstrumentedBuild`; stamp in `BuildOrchestration` |
| Mirror, `wrapper.rs`, `transform.rs` | the mirrored sources of a unit, its dep-info | mirror the crate's directory, mirror files elsewhere, remap the dep-info | `SourceMirror` |
| Session file, `session.rs` | `cargo_instrument_session.json` in two places | `load_or_create`, `is_fresh`, `build_from_metadata`, `save_to_file` | `SessionCache` |
| Graph policy, `session.rs` | the plan: roots, reachability, artifacts | `from_metadata_json_scoped`, dependency policy, capture, questions about a unit | `SessionPlan` |
| Splicing, `transform.rs` | a list of byte edits | `build_with_emitter_and_spawns`, `apply` | not modelled |
| Discovery, `ast.rs`, `candidate.rs` | none (syntax tree walk) | candidates, skip reasons, spawn sites | not modelled; its result is an input |
| Apply, `bin/instrument_rust.rs`, the driver, `instrument-semantics` | the working tree and its markers | clean-tree gate, selection, `cargo fix`, eligibility | not modelled |
| Cargo, rustc, OpenTelemetry SDK, executors, linker | fingerprints; context stack, exporter mutex; polls | as the code in `src/` uses them | external, in every module |

How they interact:

- The CLI starts Cargo twice. The *pre-pass* runs without the wrapper, to learn
  the exact artifacts of `opentelemetry`; the *final build* runs with it. The two
  share one target directory, so what the pre-pass compiled must be cleaned
  before the final build, or Cargo takes it for up to date.
- CLI and wrappers communicate by files and environment only: the session file,
  and the *stamp* a wrapper leaves beside an artifact it transformed.
- A wrapper that cannot use the session file asks Cargo for the metadata itself,
  and saves a plan of its own where the next wrapper will find it.
- Wrapper and Cargo meet in the mirror: rustc reads the mirrored files, Cargo
  compares the times of the originals that the remapped dep-info names.
- The emitted code calls the shim by C symbols. The shim calls the OpenTelemetry
  SDK, which calls back into user code (samplers, processors, exporters), which
  may be instrumented and call the shim again on the same thread.
- Natively instrumented functions use the same SDK and the same per-thread
  context stack, but none of the shim's flags.

What is hard: re-entry and panics in SDK callbacks, LIFO discipline shared by
two kinds of spans, handle wrap-around, one mutex for all threads that export;
kills between the pre-pass and the clean, and state of earlier invocations under
other policies or another lock file. The whole list, line by line, is
`hazards` in `PROJECT.json`.

What makes each component correct:

- Shim: for any interleaving, a thread's spans nest as its calls do; a span's
  parent is the span current on its thread; an error lands on the span of the
  body that failed; re-entry from an export opens no span; nothing is blocked.
- CLI: a finished build holds no unwrapped artifact of a selected package; a
  stamp proves a transformation; a repeat cleans nothing needlessly; every
  recovery ends; policies do not mix; a unit with an extern of its own shares the
  OpenTelemetry instance of the build.
- Asynchronous code: a span's parent is the code that called, a poll leaves no
  context behind, each call has one outcome, and spans end with their futures.
- Session file: a wrapper acts on a plan of its own session or a fresh one.
- Plan and wrapper: no image gets calls that nothing in it defines; one
  OpenTelemetry per image; the runtime is not instrumented with itself; what the
  CLI cleans to have it instrumented, the wrapper instruments.
- Mirror: rustc reads the sources of this build; what Cargo takes for up to date
  was compiled from the present sources; a repeat compiles nothing.
- Splicing: the output is the input with each accepted edit made once.
- Apply: a second apply changes nothing; no write without a clean tree.

## 2. Modules

| Module | Contents |
|---|---|
| `CallTrace` | Abstract specification: what tracing of synchronous calls promises |
| `OtelShim` | The shim, the emitted synchronous code, native spans, the SDK's end of a span |
| `MCOtelShim` | Its TLC instances |
| `OtelShimProofs` | Theorems about `OtelShim` for every value of its constants |
| `OtelShimTraceProofs` | `OtelShim` implements `CallTrace`; extends `OtelShimProofs` |
| `BuildOrchestration` | Several invocations of the CLI over one target directory |
| `MCBuildOrchestration` | Its TLC instances |
| `BuildOrchestrationProofs` | Theorems about `BuildOrchestration` |
| `AsyncLifecycle`, `MCAsyncLifecycle` | Emitted asynchronous code under polls, drops, panics and spawns |
| `AsyncLifecycleProofs` | Theorems about `AsyncLifecycle` |
| `SourceMirror`, `MCSourceMirror` | The mirror of a unit through several builds, with edits, moves and kills |
| `SourceMirrorProofs` | Theorems about `SourceMirror` |
| `SessionCache`, `MCSessionCache` | The session file, shared by sessions and wrappers |
| `SessionCacheProofs` | Theorems about `SessionCache` |
| `SessionPlan` | The plan as a function of Cargo's metadata and messages, and its answers about a unit |
| `WrapperDecision` | What `run_wrapper` does with a unit, as operators; extends `SessionPlan` |
| `InstrumentedBuild`, `MCInstrumentedBuild` | Whole invocations over many workspaces; extends `WrapperDecision` |
| `SessionPlanProofs` | What the graph policy computes, for every dependency graph |
| `InstrumentedBuildProofs` | Theorems about `InstrumentedBuild`; extends `SessionPlanProofs` |

### OtelShim

A thread is its call stack, a sequence of frames; only the last one runs. A
frame is a call of a trampoline function, of a natively instrumented function,
or of user code run by OpenTelemetry (a *hook*). Its `pc` says where it is:
inside `enter_span` (`start`, `hooked`, `alloc`, `retake`), in the body, or in
the drop of its triple (`ending`, `locking`, `exporting`).

| Model | Code |
|---|---|
| `EnterReturnsZero`, `EnterBegins` | the early returns of `__otel_span_enter` and what follows them |
| `RunStartHook`, `StartSpan`, `StartPanics` | `tracer.build_with_context`, with its callbacks, under `catch_unwind` |
| `TakeHandle`, `RetakeHandle`, `PushEntry` | `NEXT_HANDLE.fetch_add`, again if it gave 0; the push on `STACK` |
| `BodyFails`, `ErrorTarget` | the emitted `set_error` call; the search from the top of `STACK` |
| `ExitNoop`, `ExitEnds`, `PopMatching` | `__otel_span_exit`: pop only a matching top, drop it outside the borrow |
| `StrayExit`, `StraySetError` | calls with a handle that is not the live one |
| `NativeEnter`, `NativeFails`, `NativeExit` | the synchronous form of `NativeOtelEmitter` |
| `EndQuietly`, `ExportWanted`, `LockExporter`, `ExportEnds`, `HookReturns` | SDK: `on_end`, the simple processor's mutex, the exporter as user code |

Handles are reduced modulo `HandleSpace`; `nextHandle` counts without reduction
so that the wrap is visible. `slot` and `failed` are auxiliary: no action reads
them to decide anything.

### BuildOrchestration

A package stands for its library or binary unit, an artifact for what Cargo has
recorded for it: the version of its source, how it was compiled (`prepass`: no
wrapper; `passed`: by the wrapper from the original source; `fallback` and
`native`: from a mirror), when, under which policy and against which instance of
`opentelemetry`. Time counts compilations. Cargo compiles again what is missing,
edited, or older than something it needs; it knows nothing of injected externs.

A request is a profile and what `clean_forward_flags` hands on of the flags that ask
for it: `named` is the profile for `--release` and `--profile`, and empty for no flag
and for `-r`, which the function does not know. `CleanedProfiles` and `WipedProfiles`
say what `cargo clean` then works on: with packages the dev profile if none is named,
without packages the whole directory. Arguments of the program, after the inner `--`
of `run`, are read for flags as well; that is a request that names another profile.
`OwnExtern` are the packages to which Cargo itself gives an `--extern opentelemetry`.

| Model | Code |
|---|---|
| `Invoke`, `PolicyDiffers`, `Wipe...` | the policy file's test and the whole-directory clean |
| `Plan` | `build_session_plan`, `supports_native_orchestration` |
| `StartPrepass`, `PrepassCompiles`, `PrepassFails` | the pre-pass; failed or malformed output condemns all that is desired |
| `FindNoRuntime`, `CaptureRuntime`, `Dirty`, `StampValid` | capture, retained closure, overlap, fresh units without a valid stamp |
| `CleanPackage`, `RemoveStamps`, `CleanFails` | `invalidate_packages`: clean, then stamps by name prefix; refusals |
| `FindRuntimeMissing`, `FindRuntimeKept` | the test that retained libraries still exist |
| `RustcSucceeds`, `StampUnit`, `RecordUnit`, `EmitterFor` | a wrapped unit: rustc, the stamp, Cargo's record of it |
| `BuildSucceeds`, `BuildFails`, `RecordPolicy` | exit status, and the policy file written after success |
| `Crash`, `Edit`, `LoseRuntime` | a kill at any step; an edit or lock update; a library that disappears |

`settled` and the artifact's `policy`, `instance`, `stamped` and `tolerated` are
auxiliary. `tolerated` says that a stamp of the unit, left by an earlier
compilation, was within the tolerance of `StampValid` when it was compiled.

### AsyncLifecycle

A future is one call of an asynchronous function. It is created by a body (which
then owns it), by a spawn, or bare; it is polled on any thread, several times.
A thread has a stack of polls, each polled by the body below it, and a stack of
attached contexts. Bodies are user code: what they do next is a free choice.

| Model | Code |
|---|---|
| `CreateBare`, `Call`, `Spawn` | a call evaluated but not polled; the Tokio edit captures `Context::current()` |
| `Poll`, `Attached`, `WithCaptured` | the first poll starts the span; `with_context` attaches for each poll |
| `Suspend`, `Returned` | `Poll::Pending`: what the poll attached is detached |
| `Return`, `Drop`, `Panic`, `Unwind` | the ends of a body; `After` drops everything that is a part of it |
| `Gone`, `OutcomeOf` | drop of `__OtelLifecycle`: flag first, then `panicking()` |
| `EndedIn` | who ends a span: the guard, or the last context that holds it |

`fate` and `invoker` are auxiliary: what really happened, and the span of the
code that really called.

### SourceMirror

A *slot* is a module of the crate, in one of the files that may hold it. A file's
text is the number of its last edit, which is its time too. A copy says from
which text it was made, in which text its spans were found, for which emitter,
and the time it was given. `Scanned` files are mirrored one by one
(`WriteByRename`, or `WriteInPlace` and `FinishInPlace` when the rename fails),
`Outside` files only when the mirror has none. `Recorded` is what Cargo keeps of
a compilation; `Fresh` is its test.

### SessionCache

Each session is a run of Cargo, by the CLI or with the wrapper alone. Its CLI
resolves, fingerprints, captures and saves in separate steps; each wrapper loads,
tests, resolves, fingerprints and saves in separate steps. Any of them may be
killed, and manifests edited, in between. `kept` is auxiliary: the session whose
CLI wrote the named file last.

### SessionPlan, WrapperDecision, InstrumentedBuild

The first two are pure: `PlanOf`, `DependencyOnly`, `Capture`, `OtelArtifact`,
`TokioArtifact` and the rest are the functions of `session.rs`; `Skips`, `Role`,
`Emitter` those of `wrapper.rs` and `discovery.rs`. A library of type cdylib is linked as an
executable is, but has not the role of an application (`Cdylibs`); spawns are
rewritten by the native emitter alone. `InstrumentedBuild` uses them:
`Invoke`, the pre-pass (`PrepassFails`, `PrepassSucceeds`) that compiles without
the wrapper and captures what Cargo reports, the clean, and `Compile` for each
unit in an order Cargo allows. `LosePlan` is a wrapper that makes its own plan in
the middle. A package compiled for host and target under different settings is
two units. `LinkedInto` and `Unresolved` are what the linker sees.

## 3. Runs

| Run | Bounds | Checks |
|---|---|---|
| `shim_mixed` | 2 threads, 3 handle values, 3 spans, depth 3 | type invariant, `StackMirrorsCalls`, `ContextMirrorsCalls`, `FlagIsExact`, `ErrorsAreAttributed`, refinement of `CallTrace` (`TracesCalls`) |
| `shim_trampoline` | the same without native functions, 2 spans | `ExportReentryFailsOpen`, `ShimCallsReturn`, no deadlock |
| `shim_native_export` | the same with native functions | finds `ExportReentryFailsOpen` violated |
| `build_recovery` | application, one path dependency, opentelemetry; one profile, 1 edit, 3 invocations, tolerance 1 | type invariant, `StampsProve`, `PrepassIsReplacedIfCleaned`, `DependenciesAreOwn`, `OwnExternsAgree` |
| `build_repeat` | application, two dependencies, opentelemetry built on one of them; 2 release builds, each by `--release` or by `-r` | `PrepassIsReplacedIfCleaned`, `RepeatKeepsStamped`, `InvocationsEnd` |
| `build_policy` | two profiles, both policies, 3 invocations | finds `PolicyChangesInvalidate` violated |
| `build_short_flag` | one registry dependency, one build with `-r` | finds `PrepassIsReplaced` violated |
| `async` | 3 calls, 2 threads, polls nested 3 deep | type invariant, `ParentIsInvoker`, `ContextsAreOfPolls`, `LifecycleIsExact`, `SpansEndWithFutures`, `AwaitedEndFirst` |
| `mirror` | a root, a module that may be in two files, a file outside; 2 edits or moves, 2 builds, kills and failed renames | type invariant, `ScanIsExact`, `ScannedFilesAreCurrent`, `RepeatIsFresh` |
| `mirror_stale` | the same without faults | finds `FreshArtifactIsCurrent` violated |
| `session_cache` | 2 sessions, 2 wrappers, 1 edit, 2 wrapper processes in all | type invariant, `PlanIsCurrent`, `OwnPlanWhileKept` |
| `pipeline` | 11 packages, some hundred workspaces, 4 kinds of invocation, some of them twice | type invariant, `ImagesLink`, `OneOtelInstance`, `NativeIsAcyclic`, `RuntimeIsUntouched`, `SpawnsAreTokios`, `CleanedIsTreated` |

Why the bounds are enough. Shim: three spans and depth 3 allow a call, a hook
inside it and a call from the hook; a second thread is needed for the mutex and
for handles drawn in turns; with 3 handle values the counter passes 0 and
reuses handles while old ones are live. Build: a stamp from one invocation, a
pre-pass of an edited source killed in the second, and the third that finds the
result are three invocations and one edit, and that is the shortest way to the
failures the stamps exist to prevent. A prefix shared by two package names
(`MCSharedPrefix`) is in `build_recovery`. `RepeatKeepsStamped` needs prefixes
of their own: cleaning `foo` removes the stamp of `foo_bar`, which is then
compiled again for nothing, but never wrongly kept. To keep `build_recovery`
small its instance has `ShimProvider = FALSE`: a dependency's unit is native or
passed through there, and the trampoline of dependencies is in `build_repeat`.
`StampValid` allows one second. Time being counted in compilations, how many of them
fall into it is the constant `Slack`: 1 in `build_recovery`, where a stamp can pass
for the next compilation of its unit, and 0 in `build_repeat`, where a stamp that is
exactly as late as its artifact must do. The proofs are for every value.
`build_repeat` mixes `--release` and `-r`, so that a build that cleans the profile it
builds meets what one that did not has left, and the other way round.

Async: with three calls a body can await one call while another is suspended on
the second thread, a spawned call can outlive its spawner, and a call nested
twice can be unwound. Mirror: the first build leaves something in the mirror and
the second meets it, with an edit before and one during it. Session: one session
whose wrappers outlive it and one that follows it are all that meet in a file.
Pipeline: the workspaces vary what the plan looks at: who links the shim (also by
dev, optional and build edges), which OpenTelemetry each root sees, host units,
profiles, explicit targets, features, and what the name tokio stands for. What is
on the host's side is varied only where the proc-macro `mac` puts something there;
elsewhere the same units would be built.

The deadlock check is off in `shim_mixed` (a native export may wait for its own
mutex, see the third run) and where the bound on invocations, builds, calls or
wrapper processes ends every behaviour.

### Premises of the properties

Some properties have a premise that excludes what the code really does. They are
written out in the definitions, and these are the reasons:

- `ImagesLink` leaves out (`BeyondThePlan`) images that were not asked for or are of
  the host, if they hold a transformed unit that the selection reaches (what is
  host-only is decided by name, `session.rs:232`, and only the roots of the plan
  are asked for the shim); images that reach the shim in the metadata by an edge
  this build does not have (`session.rs:1476`) or that have a trampolined library
  under another crate name (`wrapper.rs:348` compares crate with package names);
  and, under `test`, units left by a build of another selection.
- `OneOtelInstance` is of executables that were asked for and whose native units were
  compiled for the same selection: stamps do not record it. A `test` after a
  `build` must not tell the sides apart, since it takes over native units bound to
  an OpenTelemetry of the other side's settings.
- `CleanedIsTreated` leaves out packages inside the directory of an unreached one;
  packages of the family whose name has a hyphen after `opentelemetry` (the CLI
  compares with `opentelemetry_`); and, if a wrapper had to plan for itself
  (`inv.own`), packages that only the CLI's selection reaches.
- `PrepassIsReplacedIfCleaned` is of builds whose selective clean works on the profile
  they build. After `-r` it works on dev (`main.rs:1166`; the run `build_short_flag`
  shows what follows), and after a flag among the arguments of the program on that
  one. `RepeatKeepsStamped` wants the same of the build that is repeated.
- `StampsProve` and both forms of `PrepassIsReplaced` exempt the artifacts that were
  compiled while an older stamp of their unit was within the tolerance
  (`main.rs:903`): one that the pre-pass compiles within a second of the last stamp,
  in an invocation killed before its clean, passes for transformed, and nothing the
  code keeps tells it apart. Only these are exempt.
- `OwnExternsAgree` is of units whose `--extern` is Cargo's own. One that got it by
  injection has no edge to it in Cargo's graph: after an update of OpenTelemetry it is
  fresh, its stamp is valid, and it stays bound to the former library
  (`main.rs:895`).
- `PlanIsCurrent` has `Whole` plans: an edit between the metadata query and the
  fingerprint leaves a plan that looks fresh and is not (`session.rs:1211`). Under
  the legacy policy a plan of any session is taken untested (`session.rs:1146`).
- `ScanIsExact` is of builds during which nothing was edited; the copies that an
  edit spoils are recompiled, which is `ScannedFilesAreCurrent`.
- `SpansEndWithFutures` lets a span of the application stay open as long as a
  spawned task keeps its context.

### What the violated runs show

1. `shim_native_export`. The comment at `otel-shim/src/lib.rs:165` says code
   that re-enters from the export path fails open. The flag is set by the shim's
   own calls only, so this does not hold for an export that a native span
   started; there, a function of an instrumented exporter gets a span, whose own
   export then waits for the mutex the thread holds.
2. `build_policy`. The policy file is written after a successful build only and
   covers the whole target directory, while the clean covers one profile if a
   flag names it. A finished build can hold artifacts of the other policy
   (ADR-004 says policy changes invalidate them). Where no flag names a profile for
   the clean this can happen to legacy builds only: `DependenciesAreOwn` (run
   `build_recovery`, and proved) says that `--with-dependencies`, which does not trust
   a directory without a policy file, is safe there.
3. `build_short_flag`. `clean_forward_flags` (`main.rs:1148`) hands `--release` and
   `--profile` on to `cargo clean`, but not `-r`. After `cargo instrument -- build -r`
   the pre-pass fills the release profile, the clean works on dev, and the final build
   takes the unwrapped release artifacts for up to date. The comment there says the
   profile is kept so that this cannot happen.
4. `mirror_stale`. A source reached by `#[path]` outside the directory of the crate
   root is written to the mirror only `if !dest.exists()` (`wrapper.rs:616`). After
   an edit Cargo compiles the unit again, rustc reads the old copy, and the result
   counts as up to date.

## 4. Fairness

- Shim (`FairSpec`): instructions inside the shim and the SDK are executed (weak
  fairness). A thread that waits for the exporter mutex gets it if it is free
  again and again (strong). Hooks, and functions called from hooks, return if
  they are given control again and again (strong): user code of a callback is
  assumed to end, not user code in general, and no function outside a callback
  is assumed to return.
- Build (`FairSpec`): the CLI and the processes it waits for take steps as long
  as they can (weak fairness of `Step`). Kills, edits and new invocations have
  no fairness.

## 5. Proofs

`OtelShimProofs` proves, for every number of threads, handles, spans and any
depth, with or without native functions: `ShimTypeOK`,
`ShimStackMirrorsCalls`, `ShimContextMirrorsCalls`, `ShimFlagIsExact`,
`ShimErrorsAreAttributed`; and, without native functions,
`ShimExportReentryFailsOpen`.

None of these is inductive. `IInv` adds, for each thread: every frame has the
fields its kind and `pc` allow (`FrameOK`); only the last frame, or one under a
hook, is inside the shim (`Nested`); `STACK` and the context stack are mirrored
by the slots and positions of the frames, in order; and `errored = failed`. It
is needed because an exit is right only if its entry is on top, which follows
from the order of the frames above and below it. There is one lemma per action
(`...Keeps`), on top of lemmas about pushing, popping and replacing the last
frame. The re-entry theorem uses a second invariant, `HooksInv`: with no native
functions, each hook below the top was called with the flag set.

`BuildOrchestrationProofs` proves, for every dependency graph, set of profiles,
number of edits and invocations:

- `BuildTypeOK`, `BuildStampsProve`, `BuildPrepassIsReplacedIfCleaned` and
  `BuildOwnExternsAgree`, without a condition: for every tolerance and every mix of
  flags;
- `BuildRepeatKeepsStamped`, if no package's stamps are removed with another's;
- `BuildDependenciesAreOwn`, if no flag names a profile for the clean (a clean of one
  profile leaves the rest under a policy file of the other policy).

The argument is in twelve invariants, each inductive relative to those before it:

- `UnitInv`: a unit under way belongs to the final build, Cargo has no record of
  it, and nothing was compiled after it.
- `StampInv`: a stamp that `StampValid` accepts was written for the artifact, or was
  there, within the tolerance, when that was compiled. A compilation is later than
  every stamp, which is why a kill at any step does no more harm than this.
- `KeptInv`: while cleaning, what is not condemned is not of the pre-pass; after
  the clean nothing selected is, if it worked on the profile that is built. From
  `StampInv` for what the clean spares.
- `BuiltInv`: during the final build what is not still to be done is there.
- `StandInv`, `CompiledInv`, `SettledInv`: a stamped artifact keeps its stamp up
  to the end of the invocation, the next one of the same kind finds it, and so
  the only things it condemns were compiled by its pre-pass or were not stamped.
- `OwnInv`, for `BuildDependenciesAreOwn`: while the policy file names the dependency
  policy nothing of the other is there, a directory that does not exist is empty,
  and a legacy invocation that got past the policy test has removed that file.
- `DatedInv`, `ChainInv`, `TodoInv`, `ExternInv`, for `BuildOwnExternsAgree`: nothing
  was compiled later than the clock; what makes a package stale makes stale what needs
  it; during a build, what is not to be done stands after all that it needs; and a
  native unit with an extern of its own agrees with the recorded library, or that was
  compiled later. The last is broken by an update of the library and mended by Cargo,
  which finds the unit stale.

`AsyncLifecycleProofs` proves, for any number of calls and threads and any depth,
all six invariants of the run `async`. `IInv` adds: where a call comes from fixes
its context (`OriginOK`: an owned call runs in its owner's, a spawned one in the
one it was given); the contexts of a thread are cut at the polls, and the last
below each cut is the span of the code polled there (`StackOK`); each polled call
is owned by the one that polls it and is polled once (`PollsOK`, `PolledOnce`);
`EndsOK` and `OwnedOK` relate spans and owners to futures that are gone. That a
dropped body takes no polled call with it follows from `PollsOK` and the
definition of `Parts` as the least closed set (`LeftoversNotPolled`).

`SourceMirrorProofs` proves the four invariants of the run `mirror`, for any files
and modules, edits and builds, if the module of a file outside the crate root's
directory cannot be in one inside it (`OutsideAlone`; a crate that moves one in
would have both). The invariant: each module has one file (`SlotsHeld`), nothing
is of the future (`PastOK`), the locals fit the step (`PhaseOK`), what is done of
the scan is as wanted (`CopiedOK`), and an artifact holds texts no older than its
start, or that Cargo will compile again (`ArtifactOK`).

`SessionCacheProofs` proves the three invariants of the run `session_cache`: every
plan that names a session was resolved after it started, wherever it is
(`PlanOK`); a running wrapper's session is under way or over (`Grounded`); a kept
file is the session's (`KeptOK`).

`OtelShimTraceProofs` proves the refinement, `ShimTracesCalls`: `Spec => TracesCalls`, so
each step of the shim and of natively instrumented code is a step of `CallTrace` or
none. `CallTrace` lets a span start only if it never did before. That needs
`FreshInv`: a span number that an accepted call holds but has not attached yet
is held by that call alone, is no larger than `begun`, and is neither open nor
ended. Each action is first reduced to one of a few kinds of effect on the spans
(`Begins`, `Starts`, ...; lemma `StepIsSpanStep`), then each kind is shown to keep
`FreshInv` and to be a step of `CallTrace` under the mapping.

`SessionPlanProofs` is about the pure part. `ReachIsLeast`: the function `Reach` (a
search in as many rounds as there are packages) gives the least set that contains
the start and is closed under the pairs. The induction over the rounds is by a
minimal counterexample, from the well-foundedness of `<`, since the library's
induction theorems cannot be instantiated by the provers. From it follow
`RootsAgree` (a package has a captured OpenTelemetry only if all its roots have that
one), `ShimlessIsUnsafe` (what an executable without the shim reaches is
shim-unsafe) and `ProfileIsRecovered`.

`InstrumentedBuildProofs` proves all seven invariants of the run `pipeline` for every
set of packages and workspaces: `InstrumentedTypeOK`, `BuildImagesLink`,
`BuildOneOtelInstance`, `BuildNativeIsAcyclic`, `BuildRuntimeIsUntouched`,
`BuildSpawnsAreTokios`, `BuildCleanedIsTreated`. The properties speak of the present
invocation, but an image may hold units that earlier ones compiled under another
selection, so none is inductive. `IInv` says of each part what outlives a step:

- `InvocationOK`: the plan is that of the invocation's selection, or of the whole
  workspace if a wrapper made it (`PlanOK`); it has artifacts only if this
  invocation's pre-pass captured them, and then nothing they are built from is
  desired (`CapturedOK`).
- `ArtifactsOK`: what holds of a transformed unit for the selection it was compiled for,
  whatever is built now: the wrapper treats its package, its Tokio is Tokio
  (`SpawnsOK`), it is no part of its OpenTelemetry, which is the only one of its
  profile in that build (`NativeOK`), and every executable then asked for that has
  a trampolined unit has the shim (`TrampolineOK`).
- `BuildOK`: what is needed and not there is still to be compiled, and an executable
  without the shim takes over a trampolined unit only if it was asked for when
  that was compiled (`TakenOverOK`): others were cleaned, being shim-unsafe now.

Assumptions on the constants, all evaluated by TLC: `ShimAssumption`,
`BuildAssumption`, `NoArtifactAssumption`, `AsyncAssumption`, `MirrorAssumption`,
`NullAssumption` (of the mirror and of the session file), `ArtifactAssumption`,
`SessionAssumption`, `PackagesAssumption`, `RegistryAssumption`,
`NoUnitAssumption`, `CompiledAssumption`, `CdylibsAssumption`, `WorldsAssumption`. Most say what sort of
values the constants have. These restrict the workspaces:

- A package is built as one unit, so one that has a proc-macro target has no
  executable, and `otel_shim` is no proc-macro (`PackagesAssumption`). Cargo allows a
  binary beside a proc-macro; such a package is outside the model.
- No other crate is bound to the name `otel_shim`, and the repository's own crates
  are not renamed (`WorldsAssumption`): the emitted code and the plan know them by
  name.

Only model-checked: the liveness properties `ShimCallsReturn` and `InvocationsEnd`.
They rest on fairness, which is outside the prover's reach. The four properties
of the runs that expect a violation are false of the code;
`ExportReentryFailsOpen` is proved where it holds, and so is `PrepassIsReplaced`.

## 6. Not modelled, and why

- Shim: thread-local destruction at thread exit; user clones of a Context and
  guards dropped out of order by hand; hooks run by the start of a native span; a
  panic in a native guard's drop while unwinding, which aborts the process.
  `init` and `active_span_count` change no state; the async symbols return 0.
- Build: two CLIs at once in one target directory; custom profiles; the registry toggles by
  environment; `cargo instrument clean`; a stamp name that differs from the
  package name. `-p` selections and several units of a package are absent from
  `BuildOrchestration`; `InstrumentedBuild` has them. A failing wipe or policy
  write exits as a kill does.
- Async: `Poll::Ready` of user-written futures without a body of their own; blocking
  executors inside a body beyond nested polls; a second panic while one unwinds,
  which aborts; the trampoline's async symbols, which are stubs.
- Mirror: files that are not `.rs` and files elsewhere without candidates, which
  are not mirrored; names of mirror directories and links; a text that is not
  UTF-8 or whose spans do not fit is one outcome, `CompileUnmodified`. In
  `BuildOrchestration` mirroring is an outcome (transformed or passed through).
- Session file: which manifest a wrapper asks about (`find_best_manifest_dir`); a
  read of the file is one step.
- Plan: metadata without a resolve section, which Cargo does not print;
  `validate_tokio_binding`, which only reports; `resolve_package_spec` (the selection
  is given as packages). A missing feature or a count of rlibs other than one is
  folded into `PrepassFails`.
- Wrapper: why a source cannot be transformed; the enforcement of sentinels by
  environment beyond `enforced`; the version of the enter call
  (`shim_metadata_v2`).
- Splicing: insertions at offsets that the syntax tree keeps apart. The sample of
  line endings is cut at byte 4096 (`transform.rs:117`); text positions are not
  modelled.
- Discovery, driver, shared semantics: walks and tables over syntax, without
  state; a model would restate the syntax.
- First-party apply: checks and one `cargo fix`, whose effect is that of rustc's
  suggestions.
- Tests, benches, examples and recorded evidence hold no state of their own.

Met while modelling, outside every property: the CLI registers captured artifacts
under no target, so with `build.target` in the configuration none matches
(`main.rs:531`) and units fall back; with a `CARGO_HOME` outside `.cargo` registry
packages have the role of dependencies (`discovery.rs:199`); files that were moved
or deleted stay in the mirror and can be found by rustc beside the new ones.

## 7. Plan

Done: the shim, the emitted synchronous and asynchronous code, the orchestration,
the mirror, the session file, the graph policy and the wrapper's decision; proofs
of the refinement and of every safety property that a passing run checks. Left:

1. `Splice`: edit order, overlap and the line-ending sample over small buffers.
2. `ApplyOnce` with the eligibility rules: idempotence of a second apply.
