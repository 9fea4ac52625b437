CONSTANTS
    Editors = {1, 2}
    Sharer = 1
    BadEdits <- NoEdits
    Leavers = {}
    Resyncers = {}
    MaxEdits = 1
    Plans <- EditsAndSave
    MaxLog = 0
    MayRefuse = FALSE
SPECIFICATION Spec
INVARIANTS
    CoversIsTrue
CHECK_DEADLOCK FALSE
