SPECIFICATION FairSpec
CONSTANTS
    Tokens = {t1, t2}
    Symbols = {s1, s2}
    None = None
    ConfigTokens = {t1}
    SeedSymbol = s1
    SubscribeBuf = 1
    MaxRequests = 3
    MaxCrashes = 1
INVARIANTS CacheMatchesRows PairsCovered
PROPERTIES ConnReleased PricesFollow
