SPECIFICATION FairSpec
CONSTANTS
    dOld = dOld
    dNew = dNew
    NoId = NoId
    NoReply = NoReply
    Procs = {q1, q2}
    Ids = {i1}
    Docs = {dOld, dNew}
    Names <- MCNames
    HasGateway = TRUE
    MaxGen = 2
    MaxRestarts = 1
INVARIANTS
    DecisionsGenuine
    ReloadJustified
    WaitsForPolicy
PROPERTIES
    RequestsReturn
