CONSTANTS
    Unit = 1
    PerTick = 1
    TicksPerSecond = 1
    Jobs = {j1, j2, j3}
    Workers = {w1, w2}
    NoJob = NoJob
    MaxRetries = 2
    MaxRuns = 2
SPECIFICATION Spec
INVARIANTS
    OnePlace
    OneWriter
    Outcome
PROPERTIES
    RunKeepsPromise
    ImplementsBatch
CHECK_DEADLOCK FALSE
