\* The shipped configuration: one process at a time, four windows.
CONSTANTS
  w1 = w1
  w2 = w2
  w3 = w3
  w4 = w4
  a = a
  b = b
  file1 = file1
  Windows <- MCWindows
  Work <- MCWork
  Paths <- MCPaths
  NoPath = nopath
SYMMETRY Symmetric
SPECIFICATION Spec
INVARIANTS
  TypeOK
  NoWorkLost
PROPERTIES
  EveryOrphanComesBack
CHECK_DEADLOCK FALSE
