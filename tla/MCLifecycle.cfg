SPECIFICATION FairSpec
CONSTANT CoreServices = {"admin", "matcher"}
INVARIANTS
    NothingLeftRunning
    DrainSafe
PROPERTIES
    StopReturns
CHECK_DEADLOCK FALSE
