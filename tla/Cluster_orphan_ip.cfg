SPECIFICATION ClusterSpec
CONSTANTS
    a1 = a1
    a2 = a2
    r1 = r1
    r2 = r2
    d1 = d1
    n1 = n1
    n2 = n2
    NoIP = noip
    AllocOf <- MCAllocOf
    NodeOf <- MCNodeOf
    First = 1
    Allocs <- OneAlloc
    AddReqs <- OneAdd
    DelReqs <- NoDels
    Nodes <- OneNode
    Last = 1
    MaxDowns = 0
    Faults = {}
    CleanerFaults = {}
PROPERTIES ReclaimsOnlyOrphans
CHECK_DEADLOCK FALSE
