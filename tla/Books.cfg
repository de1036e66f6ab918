\* One account with two orders and three fills; every quote over three prices;
\* every intent of up to four of one or two legs.
INIT Init
NEXT Next
CONSTANTS
    i1 = i1
    i2 = i2
    u = u
    None = None
    Instruments = {i1, i2}
    Orders = {o1, o2}
    Lots = {1, 3}
    Prices = {2, 5}
    Fee = 1
    OpeningCash = 12
    MaxFills = 3
    MaxEndings = 1
    BookPrices = {8, 10, 16}
    Volumes = {0, 1, 5, 12}
    MaxOrder = 4
    MaxLeg = 4
    PricesSeen = {1, 3}
    UnderlyingsSeen = {u}
    GreeksSeen = {6}
    FillLegs <- MC_FillLegs
    FillOrders <- MC_FillOrders
    FillModels <- MC_FillModels
    RiskIntents <- MC_RiskIntents
    RiskStates <- MC_RiskStates
    RiskPolicies <- MC_Policies
    Messages <- MC_Messages
    LastTime = 3
    MaxDeliveries = 3
    spot = spot
    fut = fut
    o1 = o1
    e1 = e1
    Spot = spot
    Futures = {fut}
    Expiries = {e1}
    Contracts <- MC_Contracts
    LastDay <- MC_LastDay
    SubscribedExpiries = {e1}
    MaxAge <- MC_MaxAge
    AnchorMaxAge = 1
    LastInstant = 3
    MaxRows = 2
    MaxCheckpoints = 1
    MaxFull = 8
    MaxGreeks = 8
    MaxLtpc = 2
    MaxProtected = 2
    PoolSizes = {0, 2, 4, 9}
    Connections = {1, 2}
INVARIANTS
    BooksBalance
    RebuildAgrees
    FillsAreFair
    JudgementsHold
    
    CheckpointsAreReproducible
    
PROPERTIES
    KnowledgeSettles
CHECK_DEADLOCK FALSE
