SPECIFICATION ClusterFairSpec
CONSTANTS
    a1 = a1
    a2 = a2
    r1 = r1
    r2 = r2
    d1 = d1
    n1 = n1
    n2 = n2
    NoIP = noip
    AllocOf <- MCAllocOf
    NodeOf <- MCNodeOf
    First = 1
    Allocs <- OneAlloc
    AddReqs <- OneAdd
    DelReqs <- MCOneDel
    Nodes <- TwoNodes
    Last = 1
    MaxDowns = 1
    Faults = {"allocate", "start", "start_applied", "store_applied", "stop_unit", "release"}
    CleanerFaults = {"nomad", "pending"}
INVARIANTS ClusterTypeOK
PROPERTIES EventuallyTidy
CHECK_DEADLOCK FALSE
