\* Tool calls, failures and cancellation over two model passes; every submission ends.
SPECIFICATION EngineSpec
CONSTANTS
    CallIds = {c1, c2}
    NoCall = NoCall
    MaxU64 = 100
    DiminishingThreshold = 2
    Configs <- ToolConfigs
    ToolClasses = {"auto", "ask"}
    UsageLevels = {1}
    MaxStream = 3
    MaxSubmissions = 1
INVARIANTS
    EngineTypeOK
    RequestEndsWithInput
    CallsCompleteInOrder
PROPERTIES
    CancelStopsTheTurn
    TurnTerminates
    KeepsTurnProtocol
CHECK_DEADLOCK FALSE
