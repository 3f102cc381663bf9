CONSTANTS
    Unit = 2
    PerTick = 1
    TicksPerSecond = 2
    Jobs = {j1, j2}
    Workers = {w1, w2}
    NoJob = NoJob
    MaxRetries = 2
    MaxRuns = 2
SPECIFICATION FairSpec
PROPERTIES
    RunReturns
    AcquireReturns
CHECK_DEADLOCK FALSE
