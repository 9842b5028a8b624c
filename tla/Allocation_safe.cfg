SPECIFICATION Spec
CONSTANTS
    a1 = a1
    a2 = a2
    r1 = r1
    r2 = r2
    r3 = r3
    d1 = d1
    d2 = d2
    NoIP = noip
    Allocs <- TwoAllocs
    AddReqs <- ThreeAdds
    DelReqs <- TwoDels
    AllocOf <- MCAllocOf
    First = 1
    Last = 3
    Faults = {"metadata", "lookup", "allocate", "sign", "start", "store", "release", "delete"}
INVARIANTS IInv ExclusiveIP SuccessBacked
PROPERTIES UsesAddressPool
CHECK_DEADLOCK FALSE
