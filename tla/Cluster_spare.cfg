SPECIFICATION ClusterSpec
CONSTANTS
    a1 = a1
    a2 = a2
    r1 = r1
    r2 = r2
    d1 = d1
    n1 = n1
    n2 = n2
    NoIP = noip
    AllocOf <- MCAllocOf
    NodeOf <- MCNodeOf
    First = 1
    Allocs <- TwoAllocs
    AddReqs <- TwoAdds
    DelReqs <- MCOneDel
    Nodes <- OneNode
    Last = 2
    MaxDowns = 2
    Faults = {}
    CleanerFaults = {"list", "release", "delete", "pool", "units"}
INVARIANTS PassesApart RestartInv
PROPERTIES CleanupSparesListed RestartRestores
CHECK_DEADLOCK FALSE
