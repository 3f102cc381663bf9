CONSTANTS
    WindowSize = 2
    HistorySize = 5
    ViolationThreshold = 60
    LatencyThreshold = 2
    ErosionThreshold = 15
    Cooldown = 2
    Outcomes <- MCOutcomes
    Durations = {0, 1}
    MaxStreams = 2
    MaxRequests = 5
    MaxTime = 2
    RollbackCooldown = 30
    RollbackEnabled = TRUE
    MaxRollbacks = 3
    Moments = {29, 30, 60, 61}
    Measured <- MCMeasured
    MaxTurns = 4
    Latencies = {1}
    TurnCounts = {2, 4}
    Evaluations = {"e1", "e2"}
    Workload <- MCWorkload
    Histories <- MCHistories
    MaxSeconds = 1
    MaxVerdicts = 1
    Incidents <- MCIncidents
    Ledgers <- MCLedgers
    TestNames <- MCTestNames
    GivenEvidence <- MCGivenEvidence
    Impacts <- MCImpacts
    Radii <- MCRadii
    Turns <- MCTurns
    Roots <- MCRoots
    Specs <- MCSpecs
    MaxSpecs = 2
    Thresholds = {30, 40, 45, 50}
    MaxFpr = 8
    MaxKnown = 3
    RetirementThreshold = 200
    MinTriggers = 1
    Conversations <- MCConversations
    NewTests <- MCNewTests
    MaxNearMisses = 1
    MaxTriggers = 2
    MaxHalfLives = 4
SPECIFICATION Spec
INVARIANTS
    CooldownsHold
    GateAllows
    IncidentsJudged
PROPERTIES
    StopEnds
    ClosedLoop
    TimelineSteady
    RecentlyTriggeredKept
CHECK_DEADLOCK FALSE
