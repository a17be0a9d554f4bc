SPECIFICATION FairSpec
CONSTANTS
    Sockets = {s1, s2}
    Relay = relay
    MaxConnections = 1
    RouteBuf = 2
    MaxQuotes = 2
    MaxBatches = 3
INVARIANTS
    ConnCountExact
    HandedToQuoter
    SnapshotCurrent
    ClosedLeavesNoQuote
PROPERTIES
    UsedQuoteWithdrawn
    SecondUseInFlight
CHECK_DEADLOCK FALSE
