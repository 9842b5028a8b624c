SPECIFICATION FairSpec
CONSTANTS
    NReqs = 4
    Scripts <- SixScripts
    Faults = {"nebula", "listen", "chmod", "timeout", "kill"}
INVARIANTS WorkerInv WorkerOK AcknowledgedInEffect ReadsItsReloads OrderlyExit
PROPERTIES WatchdogSpares ShutdownEnds
CHECK_DEADLOCK FALSE
