CONSTANTS
    v1 = v1
    v2 = v2
    m1 = m1
    m2 = m2
    m3 = m3
    l1 = l1
    l2 = l2
    Vring <- MCVring
    Map <- MCMap
    Log <- MCLog
    NULL = NULL
    Msgs <- MCMsgs
    MaxInFlight = 1
    StopServer = FALSE
    SendFails = FALSE
    AttachFails = FALSE
    LeavesQueued = FALSE
SYMMETRY Symmetry
SPECIFICATION MemSpec
INVARIANTS Detached
CHECK_DEADLOCK FALSE
