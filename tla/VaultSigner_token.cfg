SPECIFICATION Spec
CONSTANTS
    c1 = c1
    c2 = c2
    Callers <- TwoCallers
    NoToken = notoken
    Window = 3
    TokenTTL = 5
    MaxTTL = 7
    MaxLag = 2
    Faults = {"lookup", "ttl", "renew", "login", "request"}
INVARIANTS IInv NeverLapses
