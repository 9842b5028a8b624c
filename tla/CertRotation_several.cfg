SPECIFICATION Spec
CONSTANTS
    w1 = w1
    w2 = w2
    NoWorker = none
    Workers <- OneWorker
    CertTTL = 60
    Grace = 5
    MaxLag = 3
    Several = 3
    MaxDeaths = 0
    Faults = {"sign"}
INVARIANTS SeveralWindowsMissed
