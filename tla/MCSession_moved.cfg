CONSTANTS
    Main = main
    Worktrees = {w1, w2}
    None = none
    w1 = w1
    w2 = w2
    MaxSessions = 1
    MaxTurns = 2
    MaxTurnMessages = 1
    MaxToolCalls = 1
    MaxFaults = 0
    MaxStarts = 1
SPECIFICATION SessionSpec
CHECK_DEADLOCK FALSE
INVARIANT
    OneTranscriptPerSession
