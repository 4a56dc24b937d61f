SPECIFICATION SchedSpec
CONSTANTS
    p1 = p1
    p2 = p2
    p3 = p3
    Clients = {p1}
    MaxSeq = 4
    MaxEvents = 3
    MaxProbes = 2
    MaxCancels = 0
    MaxPiTurns = 0
    MaxFollowUps = 1
    MaxMessages = 0
    MaxExtension = 1
    MaxRefreshes = 0
    MaxBash = 0
    MaxCrashes = 0
    MaxErrors = 0
    MaxDeadlines = 0
    LoopLimit = 2
    MaxGoals = 0
    MaxExpired = 0
    MaxTogether = 9
    IdleConfirmations = 3
INVARIANTS
    CompletedOnce
    NoStrandedRows
PROPERTIES
    EveryPromptAnswered
CHECK_DEADLOCK FALSE
