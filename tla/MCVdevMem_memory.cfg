CONSTANTS
    v1 = v1
    v2 = v2
    m1 = m1
    m2 = m2
    m3 = m3
    l1 = l1
    l2 = l2
    Vring <- MCVring
    Map <- MCMap
    Log <- MCLog
    NULL = NULL
    Msgs <- MCMsgs
    MaxInFlight = 1
    StopServer = FALSE
    SendFails = TRUE
    AttachFails = TRUE
    LeavesQueued = FALSE
SYMMETRY Symmetry
SPECIFICATION MemSpec
INVARIANTS RequestsAccounted ListenClean MemoryAlive RefsExact ClosedUntouched
PROPERTIES MessageApplied
CHECK_DEADLOCK FALSE
