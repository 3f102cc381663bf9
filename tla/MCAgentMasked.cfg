CONSTANTS
    Requests <- MCRequests
    SoftIntent = 93
    HardIntent = 163
    SoftDrift = 16
    HardDrift = 28
    MaxRuns = 2
SPECIFICATION Spec
INVARIANTS
    HardStopsBlock
CHECK_DEADLOCK FALSE
