\* A control_response with behavior ask ends the session.
SPECIFICATION HeadlessSpec
CONSTANTS
    CallIds = {c1}
    NoCall = NoCall
    MaxU64 = 100
    DiminishingThreshold = 2
    Configs <- OnePassConfigs
    ToolClasses = {"ask"}
    UsageLevels = {}
    MaxStream = 2
    MaxSubmissions = 1
    MaxRequests = 1
    LineKinds = {"prompt", "response"}
    Answers = {"Allow", "Deny", "Ask"}
    MaxLines = 2
INVARIANT NoLineAbortsTheSession
CHECK_DEADLOCK FALSE
