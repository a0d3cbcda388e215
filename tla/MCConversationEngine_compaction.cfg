\* Two turns, the second one after any end of the first, with compaction.
SPECIFICATION EngineSpec
CONSTANTS
    CallIds = {c1, c2}
    NoCall = NoCall
    MaxU64 = 100
    DiminishingThreshold = 2
    Configs <- CompactionConfigs
    ToolClasses = {"auto", "ask"}
    UsageLevels = {}
    MaxStream = 3
    MaxSubmissions = 2
SYMMETRY CallSymmetry
INVARIANTS
    ToolPairing
    CompactionBound
    FinalMessageIsOfThisTurn
CHECK_DEADLOCK FALSE
