\* Repeated builds, the overlap of both sets, and termination.
SPECIFICATION FairSpec
CONSTANTS
  app = app
  lib = lib
  base = base
  otel = otel
  debug = debug
  release = release
  NoArtifact = NoArtifact
  NoPackage = NoPackage
  App = app
  Runtime = otel
  Deps = {lib, base}
  PathDeps = {base}
  RuntimeClosure = {otel, base}
  Needs <- MCOverlap
  StampPrefixOf <- MCOwnStamp
  Profiles = {debug, release}
  Dev = debug
  Requests <- MCReleaseOrShort
  OwnExtern = {app}
  ShimProvider = TRUE
  Slack = 0
  MaxEdits = 0
  MaxInvocations = 2
INVARIANTS
  PrepassIsReplacedIfCleaned
  RepeatKeepsStamped
PROPERTY
  InvocationsEnd
\* The bound on invocations ends every behaviour.
CHECK_DEADLOCK FALSE
