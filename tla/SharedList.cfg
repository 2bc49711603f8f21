CONSTANTS
    a = a
    b = b
    Proc <- TwoProcs
    MAX_NODES = 2
    Values <- TwoValues
    MAX_BATCH = 2
    Mortal <- TwoProcs
SPECIFICATION FairSpec
INVARIANT ListWellFormed
PROPERTIES ImplementsStack LockReleased
CHECK_DEADLOCK FALSE
