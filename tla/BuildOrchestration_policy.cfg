\* Builds of two profiles under two policies.
SPECIFICATION Spec
CONSTANTS
  app = app
  lib = lib
  base = base
  otel = otel
  debug = debug
  release = release
  NoArtifact = NoArtifact
  NoPackage = NoPackage
  App = app
  Runtime = otel
  Deps = {lib}
  PathDeps = {}
  RuntimeClosure = {otel}
  Needs <- MCFlat
  StampPrefixOf <- MCOwnStamp
  Profiles = {debug, release}
  Dev = debug
  Requests <- MCDevOrRelease
  OwnExtern = {app}
  ShimProvider = TRUE
  Slack = 0
  MaxEdits = 0
  MaxInvocations = 3
INVARIANT
  PolicyChangesInvalidate
CHECK_DEADLOCK FALSE
