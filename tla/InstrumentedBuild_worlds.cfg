SPECIFICATION Spec
CONSTANTS
  app = app  tool = tool  lib = lib  reg = reg  mac = mac  otel = otel
  otel2 = otel2  otlp = otlp  shim = shim  tok = tok  fake = fake
  NoArtifact = NoArtifact
  NoUnit = NoUnit
  Packages <- MCPackages
  Name <- MCName
  OtelFamily <- MCOtelFamily
  Members <- MCMembers
  ProcMacros = {mac}
  Executables = {app, tool}
  Cdylibs = {tool}
  Inside <- MCInside
  FromRegistry <- MCFromRegistry
  Hyphened = {otlp}
  Fragile = {reg}
  Invocations <- MCInvocations
  Worlds <- MCWorlds
INVARIANTS
  TypeOK
  ImagesLink
  OneOtelInstance
  NativeIsAcyclic
  RuntimeIsUntouched
  SpawnsAreTokios
  CleanedIsTreated
CHECK_DEADLOCK FALSE
