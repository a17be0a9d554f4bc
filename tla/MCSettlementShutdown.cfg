SPECIFICATION Spec
CONSTANTS
    Notes = {n1, n2}
    ChannelBuf = 1
    MaxRpcRetries = 0
    SameSyncReport = FALSE
    MaxFaults = 0
    MaxCrashes = 0
    MaxShutdowns = 1
INVARIANTS
    IterationCompletes
