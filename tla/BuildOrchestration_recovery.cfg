\* Kills, failures and edits at every step.
SPECIFICATION Spec
CONSTANTS
  app = app
  lib = lib
  base = base
  otel = otel
  debug = debug
  release = release
  NoArtifact = NoArtifact
  NoPackage = NoPackage
  App = app
  Runtime = otel
  Deps = {lib}
  PathDeps = {lib}
  RuntimeClosure = {otel}
  Needs <- MCFlat
  StampPrefixOf <- MCSharedPrefix
  Profiles = {debug}
  Dev = debug
  Requests <- MCPlain
  OwnExtern = {app}
  ShimProvider = FALSE
  Slack = 1
  MaxEdits = 1
  MaxInvocations = 3
INVARIANTS
  TypeOK
  StampsProve
  PrepassIsReplacedIfCleaned
  DependenciesAreOwn
  OwnExternsAgree
\* The bound on invocations ends every behaviour.
CHECK_DEADLOCK FALSE
