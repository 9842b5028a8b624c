SPECIFICATION Spec
CONSTANTS
    p1 = p1
    p2 = p2
    p3 = p3
    NoIP = noip
    Procs <- TwoProcs
    Starters <- TwoProcs
    First = 1
    Last = 2
    MaxRetries = 2
    MaxCalls = 2
    PoolExists = FALSE
    LatePuts = TRUE
    OwnersOnly = TRUE
PROPERTY InitKeepsExistingPool
CHECK_DEADLOCK FALSE
