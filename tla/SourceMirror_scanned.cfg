\* Kills, failed renames, racing edits and moves.
SPECIFICATION Spec
CONSTANTS
  root = root
  flat = flat
  nested = nested
  shared = shared
  Scanned <- MCScanned
  Outside <- MCOutside
  Slots <- MCSlots
  SlotOf <- MCSlotOf
  InitialFiles <- MCInitialFiles
  MaxEdits = 2
  MaxBuilds = 2
  Faults = TRUE
  Absent = Absent
  Partial = Partial
  NoArtifact = NoArtifact
  NoFile = NoFile
INVARIANTS
  TypeOK
  ScanIsExact
  ScannedFilesAreCurrent
  RepeatIsFresh
CHECK_DEADLOCK FALSE
