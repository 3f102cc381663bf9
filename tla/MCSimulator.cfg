CONSTANTS
    Requests <- MCRequests
    SoftIntent = 93
    HardIntent = 163
    SoftDrift = 16
    HardDrift = 28
    MaxRuns = 3
    Signals <- MCSignals
    Hooks <- MCHooks
    Answers <- MCAnswers
    PolicyFiles <- MCPolicyFiles
    Policies <- MCPolicies
    ToolResults <- MCToolResults
    Sensitivities = {20, 50, 90}
    ContextRisks = {50, 100}
    MaxGuards = 3
    Suites <- MCSuites
    ScenarioLists <- MCScenarioLists
    Attacks <- MCAttacks
    Variants = 2
    TurnLimit = 3
    Responses <- MCResponses
SPECIFICATION SimulatorSpec
INVARIANTS
    CountersMatch
    EscalationEnds
    BlockedForCause
    SlowDriftIsPaused
    TrialsJudged
PROPERTIES
    GuardsTighten
CHECK_DEADLOCK FALSE
