SPECIFICATION SchedSafeSpec
CONSTANTS
    p1 = p1
    p2 = p2
    p3 = p3
    Clients = {p1}
    MaxSeq = 4
    MaxEvents = 3
    MaxProbes = 1
    MaxCancels = 1
    MaxPiTurns = 1
    MaxFollowUps = 0
    MaxMessages = 0
    MaxExtension = 0
    MaxRefreshes = 1
    MaxBash = 1
    MaxCrashes = 1
    MaxErrors = 1
    MaxDeadlines = 1
    LoopLimit = 2
    MaxGoals = 0
    MaxExpired = 0
    MaxTogether = 3
    IdleConfirmations = 3
INVARIANTS
    SchedTypeOK
    PromptAccounting
    NoGhostRun
CHECK_DEADLOCK FALSE
