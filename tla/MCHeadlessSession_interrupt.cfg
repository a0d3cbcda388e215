\* An interrupted turn with a second permission request does not end.
SPECIFICATION HeadlessSpec
CONSTANTS
    CallIds = {c1}
    NoCall = NoCall
    MaxU64 = 100
    DiminishingThreshold = 2
    Configs <- OnePassConfigs
    ToolClasses = {"ask"}
    UsageLevels = {}
    MaxStream = 3
    MaxSubmissions = 2
    MaxRequests = 4
    LineKinds = {"prompt", "interrupt"}
    Answers = {}
    MaxLines = 2
PROPERTY InterruptEndsTheTurn
CHECK_DEADLOCK FALSE
