\* Token budgets: continuation, diminishing returns and saturation.
SPECIFICATION EngineSpec
CONSTANTS
    CallIds = {c1}
    NoCall = NoCall
    MaxU64 = 100
    DiminishingThreshold = 3
    Configs <- BudgetConfigs
    ToolClasses = {}
    UsageLevels = {1, 2, 9, 11}
    MaxStream = 2
    MaxSubmissions = 2
INVARIANTS
    DiminishingReturnsStop
    ContinuesOnlyBelowBudget
CHECK_DEADLOCK FALSE
