SPECIFICATION FairSpec
CONSTANTS
    dDeny = dDeny
    dOpen = dOpen
    dStrict = dStrict
    hLocal = hLocal
    hWeb = hWeb
    hData = hData
    rGet = rGet
    rPost = rPost
    NoDoc = NoDoc
    NoHost = NoHost
    NoRule = NoRule
    NoReq = NoReq
    Conns = {c1}
    Docs = {dDeny, dOpen, dStrict}
    Hosts = {hLocal, hWeb, hData}
    LocalHosts = {hLocal}
    Reqs = {rGet, rPost}
    Match <- MCMatch
    Allows <- MCAllows
    Warns = {dStrict}
    MaxGen = 3
    DenialsMax = 1
PROPERTIES
    ApplyReturns
    StreamsEnd
