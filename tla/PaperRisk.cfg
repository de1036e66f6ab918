CONSTANTS
    None = None
    buy = buy
    pair = pair
    sale = sale
    i1 = i1
    i2 = i2
    u = u
    Instruments = {i1, i2}
    Intents = {buy, pair, sale}
    IntentOf <- MC_IntentOf
    Model <- MC_Model
    Quotes <- MC_Quotes
    Policy <- MC_Policy
    MarketStates <- MC_FewMarkets
    OpeningCash = 30
    MaxOrderQuantity = 9
    MaxOrderNotional = 99
    ReserveCash = TRUE
    MaxTime = 0
    MaxStatusChanges = 2
SPECIFICATION RiskSpec
INVARIANTS
    PositionsStayWithinPolicy
PROPERTY
    RefinesRuntime
CHECK_DEADLOCK FALSE
