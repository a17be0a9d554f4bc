SPECIFICATION Spec
CONSTANTS
    Scenarios <- All
    Decimals <- TwoTokens
    Staleness = 1
    MaxInflight = 1
    MaxBatch = 2
    TolBps = 2000
    Window = 3
    Cap = 3
INVARIANTS
    AsOfHonest
    CrossedNotBothOff
    MedianExact
PROPERTIES
    ShedOnlyAtCapacity
CHECK_DEADLOCK FALSE
