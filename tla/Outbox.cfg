CONSTANTS
    MinInterval = 2
    FirstBackoff = 1
    MaxBackoff = 3
    RetryAfters = {0, 5}
    MaxItems = 3
    MaxStored = 4
SPECIFICATION OutboxFairSpec
INVARIANTS
    OutboxTypeOK
    NothingLost
    InOrder
PROPERTIES
    
    EverythingLeaves
CHECK_DEADLOCK FALSE
