SPECIFICATION Spec
CONSTANTS
    Notifications = {"notice"}
    RequireParams = {"initialize", "tools/call"}
    Requests <- MCSimpleRequests
    AllowedPaths <- MCAllowedPaths
    AllowedCalls <- MCAllowedCalls
    AllowedFields <- MCAllowedFields
    AllowPersisted = TRUE
    Kind <- MCKind
    Answers <- MCAnswers
    Calls <- MCZonedCalls
INVARIANT
    NeverBlocked
CHECK_DEADLOCK FALSE
