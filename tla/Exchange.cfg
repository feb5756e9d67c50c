SPECIFICATION ExchangeSpec
CONSTANTS
    Names <- MCNames
    Spellings <- MCSpellings
    Canon <- MCCanon
    MaxClient = 2
    MaxGrpc = 2
    MaxList = 1
    TrailerNames = {"T", "P"}
    Protected = {"P"}
    TrailerLists <- MCTrailerLists
    Upstream <- MCUpstream
    MaxBuffer = 3
    Limit = 2
    ChunkSize = 2
INVARIANTS
    InOrder
    SentAsInspected
    FirstDenyWins
    BodyAsAnswered
    TrailersSafe
CHECK_DEADLOCK FALSE
