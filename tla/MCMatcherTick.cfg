SPECIFICATION Spec
CONSTANTS
    n1 = n1
    n2 = n2
    n3 = n3
    n4 = n4
    Notes <- MCNotes
    Pairs <- MCPairs
    PairOf <- MCPairOf
    Requested <- MCRequested
    Cheaper <- MCCheaper
    MaxTime = 3
    MaxFeeds = 4
    MaxQueue = 2
    Ttl = 2
INVARIANTS
    IndexExact
    NoShowReturns
PROPERTY
    PriceTimePriority
