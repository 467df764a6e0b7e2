\* An edit of a file outside the directory of the crate root.
SPECIFICATION Spec
CONSTANTS
  root = root
  flat = flat
  nested = nested
  shared = shared
  Scanned <- MCScanned
  Outside <- MCOutside
  Slots <- MCSlots
  SlotOf <- MCSlotOf
  InitialFiles <- MCInitialFiles
  MaxEdits = 2
  MaxBuilds = 2
  Faults = FALSE
  Absent = Absent
  Partial = Partial
  NoArtifact = NoArtifact
  NoFile = NoFile
INVARIANTS
  FreshArtifactIsCurrent
CHECK_DEADLOCK FALSE
