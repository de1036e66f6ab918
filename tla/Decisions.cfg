CONSTANTS
    Horizon = 1
    Persistence = 2
    MaxNow = 3
    MaxOccurrences = 2
    Cooldown = 2
    DedupWindow = 2
    MaxAlerts = 2
    LastTime = 3
    Latencies = {0, 1, 2}
    MaxResumes = 1
    Instruments = {"i"}
    Portfolio = "i"
    MaxTrades = 3
    TradeLots = {1, 3}
    TradePrices = {2, 5}
    Owners = {"a", "b", ""}
    Totals = {0, 1}
    KnownInputs = {{}, {"delta", "gamma", "move"},
                   {"delta", "gamma", "vega", "theta", "move", "vol", "days", "execution", "slippage"}}
    MaxSlices = 3
    MaxRuns = 3
    Users = {"u", "v"}
    SessionTtl = 3
    IdleTimeout = 2
    MaxClock = 4
    MaxSessions = 1
    MaxAdmitted = 2
    Unseen = Unseen
    MinPoints = 3
    Contents <- SampleContents
    ParameterSets <- SampleParameters
    Delay = 1
    MaxStates = 4
    MaxWait = 1
    ConfirmAfter = 3
    LastWindow = 7
    Rows <- SampleRows
    Studies <- SampleStudies
    PriceSeries <- SamplePrices
    MaxRows = 3
INIT Init
NEXT Next
INVARIANTS
    ToldOncePerWindow
    IntentsSettleOnce
    
    
    FeaturesAreSound
    
    SignalsAreCoherent
    StudiesAreHonest
PROPERTIES
    OccurrencesAreSeparate
CHECK_DEADLOCK FALSE
