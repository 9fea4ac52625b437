CONSTANTS
    Editors = {1, 2}
    Sharer = 1
    BadEdits <- NoEdits
    Leavers = {}
    Resyncers = {}
    MaxEdits = 1
    Plans <- Mixed
    MaxLog = 2
    MayRefuse = FALSE
SPECIFICATION FairSpec
PROPERTIES
    ReplicasConverge
    
CHECK_DEADLOCK FALSE
