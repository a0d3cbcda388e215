\* Failed and partial writes, kills and restarts, worktrees entered, left and resumed over three turns.
CONSTANTS
    Main = main
    Worktrees = {w1, w2}
    None = none
    w1 = w1
    w2 = w2
    MaxSessions = 1
    MaxTurns = 3
    MaxTurnMessages = 2
    MaxToolCalls = 2
    MaxFaults = 1
    MaxStarts = 2
SYMMETRY WorktreeSymmetry
SPECIFICATION SessionSpec
CHECK_DEADLOCK FALSE
INVARIANTS
    SessionTypeOK
    FilesHoldBeginningsOfTurns
    RestoreIsFaithful
    InterruptionIsReal
