SPECIFICATION Spec
CONSTANTS
    Notifications = {"notice"}
    RequireParams = {"initialize", "tools/call"}
    Requests <- MCRequests
    AllowedPaths <- MCAllowedPaths
    AllowedCalls <- MCAllowedCalls
    AllowedFields <- MCAllowedFields
    AllowPersisted = TRUE
    Kind <- MCKind
    Answers <- MCAnswers
    Calls <- MCCalls
INVARIANTS
    PathSettled
    CallsJudged
    FieldsJudged
    ApprovedOnly
    ProxyKept
    ConnectionOwned
PROPERTIES
    DialReturns
CHECK_DEADLOCK FALSE
