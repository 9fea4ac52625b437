CONSTANTS
    Original <- TwoParagraphs
    TypedLooks = {0}
    PeerLooks = {1}
    MaxMade = 2
    MaxHeard = 2
SPECIFICATION Spec
PROPERTIES
    RestylesOwn
CHECK_DEADLOCK FALSE
