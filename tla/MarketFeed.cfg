CONSTANTS
    MaxSessions = 2
    MaxSequence = 3
    MaxStale = 1
    c1 = c1
    c2 = c2
    c3 = c3
    Callers = {c1, c2, c3}
    Budget = 2
    Window = 2
    RetryAfters = {1, 3}
    k1 = k1
    k2 = k2
    VendorKeys = {k1, k2}
    Shards <- MC_Shards
    MaxChains = 2
SPECIFICATION Spec
INVARIANTS
    GapsAreAccountedFor
    SendsStayInBudget
    

    
CHECK_DEADLOCK FALSE
