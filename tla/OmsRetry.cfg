\* Complete listings, periodic runs and escalation, and a caller that resubmits an
\* order once such a run reported it missing at the venue.
SPECIFICATION FairSpec
CONSTANTS
    o1 = o1
    o2 = o2
    i1 = i1
    i2 = i2
    good1 = good1
    good2 = good2
    small1 = small1
    Orders = {o1, o2}
    Intents = {i1, i2}
    Decisions = {good1, good2, small1}
    NoDecision = NoDecision
    IntentOf <- MC_IntentOf
    ScopeOf <- MC_ScopeOf
    QuantityOf <- MC_QuantityOf
    DecisionRecord <- MC_DecisionRecord
    Times = {1, 2}
    MaxAttempts = 2
    MaxVenueOrders = 2
    FillSlots = {1}
    VenueIdentifiesFills = TRUE
    CompleteListing = TRUE
    RetryPolicy = "evidence"
INVARIANTS
    OneVenueOrderEach
PROPERTIES
    HeldOrdersAreResolved
