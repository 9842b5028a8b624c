SPECIFICATION FairSpec
CONSTANTS
    w1 = w1
    w2 = w2
    NoWorker = none
    Workers <- TwoWorkers
    CertTTL = 20
    Grace = 2
    MaxLag = 1
    Several = 2
    MaxDeaths = 1
    Faults = {"list", "read", "sign", "reload", "start", "worker", "agent"}
INVARIANTS IInv ValidUnlessMissed
PROPERTIES ExpiryIsResolved
