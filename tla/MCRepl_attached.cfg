\* A REPL that starts a bridge, submits once more, and serves two messages of the client.
CONSTANTS
    Limits = {1}
    MaxRequests = 1
    LocalRequests = {"prompt", "bridgeStart", "bridgeStop"}
    RemoteRequests = {"prompt", "resume"}
    Signals = {"interrupt", "response", "keepAlive"}
    Sessions = {"s1", "s2"}
    Home = "s1"
    MaxSubmits = 2
    MaxMessages = 2
    MaxLosses = 1
SPECIFICATION ReplSpec
CHECK_DEADLOCK FALSE
INVARIANTS
    ReplTypeOK
    BusyHasAnEnd
    ViewCatchesUp
PROPERTIES
    LocalTurnEnds
    PendingRequestIsReleased
