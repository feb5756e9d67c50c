SPECIFICATION FairSpec
CONSTANTS
    fA = fA
    fB = fB
    fPlain = fPlain
    fBroken = fBroken
    fRejected = fRejected
    dA = dA
    dB = dB
    dBad = dBad
    DenyAll = DenyAll
    Invalid = Invalid
    Missing = Missing
    NoHash = NoHash
    Contents = {fA, fB, fPlain, fBroken, fRejected}
    Docs = {DenyAll, dA, dB, dBad}
    Parse <- MCParse
    Rejected = {dBad}
    Revision <- MCRevision
    HasReporter = TRUE
    MaxWrites = 3
    MaxOutages = 2
    MaxForeign = 1
INVARIANTS
    BeliefCoherent
    AckedOrClosed
PROPERTIES
    Converges
CHECK_DEADLOCK FALSE
