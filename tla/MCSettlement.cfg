SPECIFICATION Spec
CONSTANTS
    Notes = {n1, n2}
    ChannelBuf = 1
    MaxRpcRetries = 1
    SameSyncReport = TRUE
    MaxFaults = 1
    MaxCrashes = 1
    MaxShutdowns = 1
SYMMETRY NoteSymmetry
INVARIANTS
    TypeOK
    RetiredOnlyIfSpent
    SingleCustody
    LiveOrdersInCustody
PROPERTIES
    ExecutedFinal
    ImplementsLife
