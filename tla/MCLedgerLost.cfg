CONSTANTS
    Incidents = {"i1", "i2"}
    Violations = {}
    Principles = {"c1"}
    PrincipleOf <- MCOnePrinciple
    SeverityOf <- MCSeverityOf
    Mentions <- MCMentions
    BlockDays <- MCBlockDays
    Procs = {p1, p2}
    Programs = {"create", "mitigate"}
    SuiteAtStart = TRUE
    KilledAt = {}
    MaxEntries = 2
    MaxDay = 0
    DebtDays = {0}
    Worked = {}
SPECIFICATION Spec
PROPERTIES
    NoDebtVanishes
CHECK_DEADLOCK FALSE
