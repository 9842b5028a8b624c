SPECIFICATION FairSpec
CONSTANTS
    Top = 5
    IPv6 = IPv6
    NoIP = noip
INVARIANTS IInv StaysInRange
PROPERTIES FindsLowest SearchEnds
