SPECIFICATION RpcSpec
CONSTANTS
    get_state = get_state
    bash = bash
    c1 = c1
    c2 = c2
    k1 = k1
    Requests = {get_state, bash}
    Unbounded = {bash}
    Droppable = {get_state}
    Respawners = {c1, c2}
    Killers = {k1}
    MaxGen = 2
INVARIANTS
    PendingMatchesCallers
    ExitFailsOnlyLostRequests
    LateResponsesAreStale
PROPERTIES
    ImplementsService
    KillReturns
    OutstandingRequestsFail
CHECK_DEADLOCK FALSE
