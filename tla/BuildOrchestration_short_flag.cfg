\* One build with -r: the selective clean works on the dev profile.
SPECIFICATION Spec
CONSTANTS
  app = app
  lib = lib
  base = base
  otel = otel
  debug = debug
  release = release
  NoArtifact = NoArtifact
  NoPackage = NoPackage
  App = app
  Runtime = otel
  Deps = {lib}
  PathDeps = {}
  RuntimeClosure = {otel}
  Needs <- MCFlat
  StampPrefixOf <- MCOwnStamp
  Profiles = {debug, release}
  Dev = debug
  Requests <- MCShort
  OwnExtern = {app}
  ShimProvider = TRUE
  Slack = 0
  MaxEdits = 0
  MaxInvocations = 1
INVARIANT
  PrepassIsReplaced
CHECK_DEADLOCK FALSE
