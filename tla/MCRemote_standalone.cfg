CONSTANTS
    Limits = {1}
    MaxRequests = 2
    MessageKinds = {"user", "interrupt", "response", "keepAlive"}
    Answers = {"Allow", "Ask"}
    MaxMessages = 3
    MaxLosses = 1
SPECIFICATION RemoteSpec
CHECK_DEADLOCK FALSE
INVARIANTS
    RemoteTypeOK
    WaitingRequestReachesAClient
    EveryRemoteUserIsAnswered
PROPERTIES
    RemoteKeepsProtocol
    GivingUpEndsTheProcess
