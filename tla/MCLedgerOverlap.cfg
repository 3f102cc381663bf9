CONSTANTS
    Incidents = {"i1"}
    Violations = {"v2"}
    Principles = {"c1"}
    PrincipleOf <- MCOnePrinciple
    SeverityOf <- MCSeverityOf
    Mentions <- MCMentions
    BlockDays <- MCBlockDays
    Procs = {p1, p2}
    Programs = {"create", "mitigate", "accept", "settle", "enforce", "slo", "audit"}
    SuiteAtStart = TRUE
    KilledAt = {"dumping", "revoking", "listing"}
    MaxEntries = 2
    MaxDay = 1
    DebtDays = {0}
    Worked = {"i1"}
SPECIFICATION Spec
SYMMETRY Symmetry
INVARIANTS
    SoundLedgers
    LedgerAccounted
PROPERTIES
    BlockingStands
    SettleComplete
CHECK_DEADLOCK FALSE
