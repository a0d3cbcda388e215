\* Every kind of line at every moment, two calls in a pass, failing writes, the end of input.
SPECIFICATION HeadlessSpec
CONSTANTS
    CallIds = {c1}
    NoCall = NoCall
    MaxU64 = 100
    DiminishingThreshold = 2
    Configs <- OnePassConfigs
    ToolClasses = {"ask"}
    UsageLevels = {}
    MaxStream = 3
    MaxSubmissions = 3
    MaxRequests = 6
    LineKinds = {"prompt", "command", "interrupt", "response", "keepAlive", "invalid"}
    Answers = {"Allow", "Ask"}
    MaxLines = 3
INVARIANTS
    HeadlessTypeOK
    AskIsAnswerable
    ClientKnowsTheDecision
    EveryUserMessageIsAnswered
PROPERTIES
    KeepsPermissionProtocol
    EofEndsTheSession
CHECK_DEADLOCK FALSE
