CONSTANTS
    u1 = u1
    u2 = u2
    None = None
    Users = {u1, u2}
    Started = {u1}
    Chains <- BothChains
    Interval = 2
    Opens = 1
    Closes = 4
    MaxRetries = 1
    MaxTasks = 2
    MaxRuns = 2
    MaxMinute = 4
    MaxTrouble = 1
    UtcOffset = 330
    Timeframes = {2, 4, 60}
SPECIFICATION CollectorSpec
INVARIANTS
    
    ReadersAgree

    
CHECK_DEADLOCK FALSE
