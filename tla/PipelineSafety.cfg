SPECIFICATION TokensSpec
CONSTANTS
    dA = dA
    dB = dB
    hRest = hRest
    hBatch = hBatch
    k1 = k1
    k2 = k2
    mRead = mRead
    mCall = mCall
    mReply = mReply
    NoHost = NoHost
    NoReq = NoReq
    Flows = {fAbs, fTls}
    Absolute = {fAbs}
    Docs = {dA, dB}
    Hosts = {hRest, hBatch}
    Keys = {k1, k2}
    Msgs = {mRead, mCall, mReply}
    Exempt = {mReply}
    Requests <- MCRequests
    Rule <- MCRule
    Permits <- MCPermits
    MaxChanges = 2
    gPlain = gPlain
    gFixed = gFixed
    NoGrant = NoGrant
    NoToken = NoToken
    Procs = {p1, p2}
    Grants = {gPlain}
    CacheTTL <- MCCacheTTL
    Lifetimes = {0, 1, 4}
    Margin = 2
    MinTTL = 1
    MaxNow = 5
INVARIANTS
    BoundOnly
    MessagesPermitted
    GrantFresh
    ServedAlive
