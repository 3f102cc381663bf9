CONSTANTS
    Releases = {"r1", "r2"}
    Acceptances <- MCAcceptances
    MaxEntries = 3
    MaxIncidents = 1
    Decisions <- MCDecisions
    Metrics = {"m1"}
    ErosionThreshold = 10
    MinRuns = 3
    MaxRuns = 4
    Moments = {0, 1, 2}
    RunMetrics <- MCRunMetrics
    TrendThresholds = {15, 60}
    Measurements <- MCMeasurements
    Suites <- MCSuites
    Margins = {4, 60}
    AskedCategories = {"coordinated_misuse", "policy_bypass", "benign"}
    Principles <- MCPrinciplesWithBound
    Rates <- MCRates
    DebtThresholds <- MCDebtThresholds
    MetricSets <- MCMetricSets
    MaxAccepted = 1
    MaxReleases = 2
    Pauses = {31}
    MaxDay = 31
    GateThresholds <- MCGateThresholds
    Correlated <- MCCorrelated
    Snapshots <- MCSnapshots
    Unit = 20
    MaxSnapshots = 7
    Submissions <- MCSubmissions
    Changes <- MCChanges
    Step = 150
    MaxChanges = 3
    Contents = {"c1", "c2"}
    MemoMetrics <- MCMemoMetrics
    MaxArtifacts = 3
    MaxCustodyEvents = 5
SPECIFICATION Spec
INVARIANTS
    AuditNamesFirstChange
    TrendsSound
    VerdictsOrdered
    DebtFollowsVerdicts
PROPERTIES
    GamingJudged
    RecordsComplete
CHECK_DEADLOCK FALSE
