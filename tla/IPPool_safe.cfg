SPECIFICATION FairSpec
CONSTANTS
    p1 = p1
    p2 = p2
    p3 = p3
    NoIP = noip
    Procs <- ThreeProcs
    Starters <- OneStarter
    First = 1
    Last = 2
    MaxRetries = 2
    MaxCalls = 2
    PoolExists = FALSE
    LatePuts = FALSE
    OwnersOnly = TRUE
INVARIANTS IInv Exclusive ContentionGenuine
PROPERTIES ImplementsAddressPool CallsReturn
CHECK_DEADLOCK FALSE
