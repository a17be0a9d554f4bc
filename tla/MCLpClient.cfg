SPECIFICATION FairSpec
CONSTANTS
    MaxEra = 3
    MaxAttempt = 2
    MaxLevel = 1
    MaxOut = 1
    MaxWire = 1
    MaxEvents = 2
INVARIANTS
    NoStaleQuoteOnLink
    EventOrder
    BackoffFollowsAttempts
PROPERTIES
    DroppedClientEnds
    DeadLinkRedialled
    QuotingResumes
