SPECIFICATION SchedSafeSpec
CONSTANTS
    p1 = p1
    p2 = p2
    p3 = p3
    Clients = {p1, p2}
    MaxSeq = 4
    MaxEvents = 2
    MaxProbes = 2
    MaxCancels = 1
    MaxPiTurns = 0
    MaxFollowUps = 0
    MaxMessages = 1
    MaxExtension = 0
    MaxRefreshes = 0
    MaxBash = 0
    MaxCrashes = 0
    MaxErrors = 0
    MaxDeadlines = 0
    LoopLimit = 2
    MaxGoals = 0
    MaxExpired = 0
    MaxTogether = 9
    IdleConfirmations = 2
SYMMETRY ClientSymmetry
INVARIANTS
    PromptAccounting
    NoStrandedRows
    NoGhostRun
CHECK_DEADLOCK FALSE
