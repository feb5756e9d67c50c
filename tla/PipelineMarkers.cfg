SPECIFICATION Spec
CONSTANTS
    dA = dA
    dB = dB
    hRest = hRest
    hBatch = hBatch
    k1 = k1
    k2 = k2
    mRead = mRead
    mCall = mCall
    mReply = mReply
    NoHost = NoHost
    NoReq = NoReq
    Flows = {fAbs}
    Absolute = {fAbs}
    Docs = {dA, dB}
    Hosts = {hRest, hBatch}
    Keys = {k1, k2}
    Msgs = {mRead, mCall, mReply}
    Exempt = {mReply}
    Requests <- MCRequests
    Rule <- MCRule
    Permits <- MCPermits
    MaxChanges = 1
INVARIANTS
    MarkersResolved
