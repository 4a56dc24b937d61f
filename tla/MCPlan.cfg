SPECIFICATION PlanSpec
CONSTANTS
    s1 = s1
    s2 = s2
    Sessions = {s1, s2}
    First = s1
    MaxPrompts = 2
    MaxToggles = 2
    MaxLoads = 2
    MaxLost = 1
    MaxFaults = 1
    MaxTogether = 6
INVARIANTS
    PlanTypeOK
    
    
    AwaitingIsCleared
    
    
CHECK_DEADLOCK FALSE
