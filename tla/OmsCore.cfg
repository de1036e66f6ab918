\* The OMS with a caller that submits each order once, and a venue that may
\* leave any entry out of a listing.
SPECIFICATION Spec
CONSTANTS
    o1 = o1
    o2 = o2
    i1 = i1
    i2 = i2
    good1 = good1
    good2 = good2
    small1 = small1
    Orders = {o1, o2}
    Intents = {i1, i2}
    Decisions = {good1, good2, small1}
    NoDecision = NoDecision
    IntentOf <- MC_IntentOf
    ScopeOf <- MC_ScopeOf
    QuantityOf <- MC_QuantityOf
    DecisionRecord <- MC_DecisionRecord
    Times = {1, 2}
    MaxAttempts = 2
    MaxVenueOrders = 2
    FillSlots = {1}
    VenueIdentifiesFills = TRUE
    CompleteListing = FALSE
    RetryPolicy = "never"
INVARIANTS
    TypeOK
    ClosedOrdersAreDead
    LocalNeverAhead
    AmbiguityNeverCompounds
    HeldOrdersAreAuthorized
PROPERTIES
    CleanRunAgrees
    RebuildMatchesVenue
