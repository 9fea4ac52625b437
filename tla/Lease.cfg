CONSTANTS
    Sessions = {1, 2, 3}
    Principal <- OwnPrincipals
    Owners = {1}
    Breakers = {1}
    Stores = {TRUE, FALSE}
    Duration = 5
    Settle = 2
    MaxDelay = 1
    MaxTime = 7
    MaxRenewal = 2
SPECIFICATION LeaseSpec
INVARIANTS
    NeverTaken
    
CHECK_DEADLOCK FALSE
