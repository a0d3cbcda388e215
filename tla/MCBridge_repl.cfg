CONSTANTS
    ui = ui
    engine = engine
    r1 = r1
    r2 = r2
    Callers <- ReplCallers
    Operations <- ReplOperations
    Roots = {r1, r2}
    Main = r1
    FanoutLimit = 1
    InitialDelay = 1
    MaxDelay = 2
    GiveUpAfter = 2
    MaxCalls = 3
    MaxWorkers = 2
    MaxConnections = 3
    MaxMoves = 2
    MaxRestarts = 1
SPECIFICATION BridgeSpec
CHECK_DEADLOCK FALSE
INVARIANTS
    BridgeTypeOK
    LiveWorkersAreOwned
    OneBridgeAtATime
    PointerNamesTheConnection
PROPERTIES
    BridgeSettles
