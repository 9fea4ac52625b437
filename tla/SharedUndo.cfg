CONSTANTS
    Original <- TwoParagraphs
    TypedLooks = {0}
    PeerLooks = {1}
    MaxMade = 2
    MaxHeard = 2
SPECIFICATION Spec
INVARIANTS
    TypeOK
    UndoAllLeavesTheRest
PROPERTIES
    TakesBackOwn
CHECK_DEADLOCK FALSE
