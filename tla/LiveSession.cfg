CONSTANTS
    Editors = {1, 2}
    Sharer = 1
    BadEdits <- JoinersFirst
    Leavers = {2}
    Resyncers = {2}
    MaxEdits = 2
    Plans <- Mixed
    MaxLog = 2
    MayRefuse = TRUE
SPECIFICATION Spec
INVARIANTS
    TypeOK
    AppliedIsHeld
    WriterHoldsItsClaim
    FileIsInLog
    HeadsToldAreCurrent
    AwaitingIsInFlight
    StreamsHaveNoHoles
    SaveFollowsOpened
    ParentsAreAntichain
CHECK_DEADLOCK FALSE
