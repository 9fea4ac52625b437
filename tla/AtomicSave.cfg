\* Two saves of one file, a foreign write, kills, power losses, errors.
CONSTANTS
  s1 = s1
  s2 = s2
  other = other
  Saves <- MCSaves
  Others <- MCOthers
  Original = original
  Whatever = whatever
  Torn = torn
SPECIFICATION Spec
INVARIANTS
  TypeOK
  SweepSparesLive
  OverwritesOnlyTheExpected
PROPERTIES
  IsAtomicFile
CHECK_DEADLOCK FALSE
