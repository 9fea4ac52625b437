CONSTANTS
  a = a
  b = b
  c = c
  root = root
  genesis = genesis
  edit = edit
  Members = {a, b, c}
  Sharer = a
  People <- MCPeople
  Changes <- MCChanges
  Items = {root, genesis, edit}
  Root = root
  Genesis = genesis
  Author <- MCAuthor
  Kind <- MCKind
  Sends = 1
  Rounds = 1
  MaxAttempts = 4
  MaxCalls = 1
SPECIFICATION Spec
INVARIANTS
  RosterChangesAsAsked
CHECK_DEADLOCK FALSE
