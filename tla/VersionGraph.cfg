CONSTANTS
    Versions = {1, 2, 3, 4}
    MaxListed = 2
SPECIFICATION Spec
INVARIANTS
    TypeOK
    ComponentsAreStrong
    OnlyDescendantListersOut
    GoodParentsSurface
    VerifiedStayHeads
    WrittenIsAccepted
    PruneKeepsHeads
PROPERTIES
    Ends
CHECK_DEADLOCK FALSE
