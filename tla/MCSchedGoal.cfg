SPECIFICATION SchedSafeSpec
CONSTANTS
    p1 = p1
    p2 = p2
    p3 = p3
    Clients = {}
    MaxSeq = 5
    MaxEvents = 2
    MaxProbes = 2
    MaxCancels = 0
    MaxPiTurns = 1
    MaxFollowUps = 1
    MaxMessages = 0
    MaxExtension = 0
    MaxRefreshes = 0
    MaxBash = 0
    MaxCrashes = 0
    MaxErrors = 0
    MaxDeadlines = 0
    LoopLimit = 2
    MaxGoals = 1
    MaxExpired = 1
    MaxTogether = 3
    IdleConfirmations = 3
INVARIANTS
    GoalGoesOn
    GoalLoopBounded
CHECK_DEADLOCK FALSE
