SPECIFICATION FairSpec
CONSTANTS
    Notes = {n1, n2}
    ChannelBuf = 1
    MaxRpcRetries = 1
    SameSyncReport = TRUE
    MaxFaults = 0
    MaxCrashes = 0
    MaxShutdowns = 0
PROPERTIES
    BatchResolves
    OrderReachesBook
