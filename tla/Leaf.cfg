SPECIFICATION FairSpec
CONSTANTS
    Procs = {p1, p2}
    Hosts = {h1, h2, h3}
    NoProc = NoProc
    NoHost = NoHost
    NoCert = NoCert
    Failed = Failed
    MaxCached = 2
    LeafTTL = 3
    RenewBefore = 1
    Slow = 1
    MaxNow = 5
INVARIANTS
    MapMatchesList
    SingleFlight
    NeverExpired
PROPERTIES
    CallsReturn
