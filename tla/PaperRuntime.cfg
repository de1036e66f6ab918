CONSTANTS
    pairs = pairs
    sale = sale
    retry = retry
    k1 = k1
    k2 = k2
    i1 = i1
    i2 = i2
    Instruments = {i1, i2}
    Intents = {pairs, sale, retry}
    IntentOf <- MC_IntentOf
    Model <- MC_Model
    Quotes <- MC_Quotes
    OpeningCash = 15
    MaxOrderQuantity = 2
    MaxOrderNotional = 20
    ReserveCash = TRUE
    MaxTime = 1
    MaxStatusChanges = 3
    Subscribers = {s1}
    Aggregates = {o1, o2}
    MaxEvents = 4
SPECIFICATION PaperSpec
INVARIANTS
    OrdersMatchLedger
    OneIntentPerKey
PROPERTIES
    NothingTradesWhileHalted
    RefinesPromise
    EveryEventIsApplied
CHECK_DEADLOCK FALSE
