SPECIFICATION BreakerSpec
CONSTANTS
    t1 = t1
    t2 = t2
    t3 = t3
    Threads = {t1, t2}
    MinSamples = 1
    RatePercent = 50
    WindowDuration = 1
    MaxEntries = 2
    OpenDuration = 1
    MaxProbes = 1
    WordSize = 8
    MaxTime = 2
    MaxRequests = 3
INVARIANTS
    MirrorFollowsState
    SlotsAreCounted
PROPERTIES
    LostProbeReplaced
CHECK_DEADLOCK FALSE
