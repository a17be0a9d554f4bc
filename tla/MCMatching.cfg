SPECIFICATION FairSpec
CONSTANTS
    Tokens = {1, 2, 3, 4}
    Markets <- AllMarkets
    TriangularEnabled = TRUE
    ProductMax = 100
INVARIANTS
    BalancesBacked
    NoProfitLeft
    CanFillTrades
    SupplyRespected
PROPERTIES
    TightestQuote
    Terminates
CHECK_DEADLOCK FALSE
