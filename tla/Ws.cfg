SPECIFICATION Spec
CONSTANTS
    Docs = {"d1", "d2"}
    Chunks <- MCChunks
    MaxMessage = 2
    Marker = "m"
    Secret = "s"
    Replacements <- MCReplacements
    Class <- MCClass
    Permits <- MCPermits
    TextAllowed <- MCTextAllowed
    Setups <- MCSetups
    MaxFrames = 3
    MaxDown = 1
    MaxApply = 1
INVARIANTS
    Reassembled
    InspectedByAll
    TextPermitted
    SecretsBound
    TornOnlyByRefusal
PROPERTIES
    RelayEnds
