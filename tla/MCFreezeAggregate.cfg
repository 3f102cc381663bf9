CONSTANTS
    Debts = {"d1", "d2"}
    Violations = {"v1", "v2"}
    Exceptions = {x1}
    Principles = {"c1", "c2"}
    PrincipleOf <- MCPrincipleOf
    SeverityOf <- MCSeverityOf
    Roles = {"Head_of_Safety", "Product_Manager"}
    MaxTtl <- MCMaxTtl
    Ttls = {1, 2}
    SloDays <- MCSloDays
    MaxOpenDays = 2
    MaxBudget = 1
    Weight <- MCWeight
    HighThreshold = 0
    MaxRenewals = 1
    OwnLimits = {2}
    DaysPerQuarter = 3
    MaxDay = 4
SPECIFICATION Spec
INVARIANTS
    AggregatesSignals
CHECK_DEADLOCK FALSE
