CONSTANTS
    Debts = {"d1", "d2"}
    Violations = {"v1", "v2"}
    Exceptions = {x1}
    Principles = {"c1", "c2"}
    PrincipleOf <- MCPrincipleOf
    SeverityOf <- MCSeverityOf
    Roles = {"Head_of_Safety"}
    MaxTtl <- MCMaxTtl
    Ttls = {1}
    SloDays <- MCSloDays
    MaxOpenDays = 1
    MaxBudget = 1
    Weight <- MCWeight
    HighThreshold = 0
    MaxRenewals = 0
    OwnLimits = {}
    DaysPerQuarter = 3
    MaxDay = 3
SPECIFICATION Spec
INVARIANTS
    FrozenForCause
PROPERTIES
    ThawsByDecision
    OldDebtsFreeze
    LapseIsFinal
CHECK_DEADLOCK FALSE
