SPECIFICATION PluginSpec
CONSTANTS
    a1 = a1
    r1 = r1
    r2 = r2
    d1 = d1
    d2 = d2
    NoIP = noip
    Allocs <- OneAlloc
    AddReqs <- TwoAdds
    DelReqs <- TwoDels
    AllocOf <- MCAllocOf
    First = 1
    Last = 2
    Faults = {"lookup", "sign", "start", "store", "store_applied", "metadata", "delete"}
    PluginFaults = {"macvlan", "firewall", "unreachable", "print", "timeout", "macvlan_del"}
INVARIANTS PluginInv DelInv AddedWorks DelLeavesNothing LeaksOnlyWhenOvertaken
CHECK_DEADLOCK FALSE
