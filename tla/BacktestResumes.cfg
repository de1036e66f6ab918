CONSTANTS
    LastTime = 3
    Latencies = {0, 1, 2}
    MaxResumes = 1
INIT BacktestInit
NEXT BacktestNext
INVARIANT ResumedRunsAgree
CHECK_DEADLOCK FALSE
