SPECIFICATION GrantSpec
CONSTANTS
    gPlain = gPlain
    gFixed = gFixed
    NoGrant = NoGrant
    NoToken = NoToken
    Procs = {p1, p2}
    Grants = {gFixed}
    CacheTTL <- MCCacheTTL
    Lifetimes = {0, 1, 3}
    Margin = 2
    MinTTL = 1
    MaxNow = 5
SYMMETRY ProcSymmetry
INVARIANTS
    CachedUntilExpiry
