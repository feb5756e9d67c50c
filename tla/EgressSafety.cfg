SPECIFICATION Spec
CONSTANTS
    dDeny = dDeny
    dOpen = dOpen
    dStrict = dStrict
    hLocal = hLocal
    hWeb = hWeb
    hData = hData
    rGet = rGet
    rPost = rPost
    NoDoc = NoDoc
    NoHost = NoHost
    NoRule = NoRule
    NoReq = NoReq
    Conns = {c1, c2}
    Docs = {dOpen, dStrict}
    Hosts = {hWeb, hData}
    LocalHosts = {}
    Reqs = {rGet, rPost}
    Match <- MCMatch
    Allows <- MCAllows
    Warns = {dStrict}
    MaxGen = 2
    DenialsMax = 1
SYMMETRY ConnSymmetry
INVARIANTS
    TypeOK
    StreamsAuthorised
    RegistryExact
    InFlightCurrent
PROPERTIES
    GateSpec
