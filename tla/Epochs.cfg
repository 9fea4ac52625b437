CONSTANTS
  a = a
  b = b
  c = c
  root = root
  genesis = genesis
  edit = edit
  Members = {a, b, c}
  Sharer = a
  People <- MCPeople
  Changes <- MCChanges
  Items = {root, genesis, edit}
  Root = root
  Genesis = genesis
  Author <- MCAuthor
  Kind <- MCKind
  Sends = 2
  Rounds = 2
  MaxAttempts = 4
  MaxCalls = 2
SPECIFICATION Spec
INVARIANTS
  TypeOK
  ToldIsReadable
  LatestIsOpen
  
CHECK_DEADLOCK FALSE
