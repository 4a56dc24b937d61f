SPECIFICATION RecSafeSpec
CONSTANTS
    c1 = c1
    c2 = c2
    watchdog = watchdog
    Requests = {}
    Unbounded = {}
    Droppable = {}
    Respawners = {c1, c2}
    Killers = {watchdog}
    MaxGen = 5
    MaxAttempts = 2
    MaxRecoveries = 1
    MaxMisses = 2
    MaxSlides = 1
    Brief = {c2}
INVARIANTS
    OneChild
CHECK_DEADLOCK FALSE
