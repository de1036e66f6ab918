CONSTANTS
    Instruments = {"i"}
    Portfolio = "i"
    MaxTrades = 1
    TradeLots = {1}
    TradePrices = {2}
    Owners = {""}
    Totals = {0}
    KnownInputs = {{}}
    MaxSlices = 0
    MaxRuns = 3
INIT PortfolioInit
NEXT PortfolioNext
INVARIANT CleanRunsSettle
CHECK_DEADLOCK FALSE
