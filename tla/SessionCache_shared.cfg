\* Two sessions in one target directory, kills, edits and failed renames.
SPECIFICATION Spec
CONSTANTS
  s1 = s1
  s2 = s2
  w1 = w1
  w2 = w2
  Sessions <- MCSessions
  Wrappers <- MCWrappers
  MaxEdits = 1
  MaxSpawns = 2
  NoSession = NoSession
  NoPlan = NoPlan
  Missing = Missing
  Torn = Torn
SYMMETRY MCSymmetry
INVARIANTS
  TypeOK
  PlanIsCurrent
  OwnPlanWhileKept
CHECK_DEADLOCK FALSE
