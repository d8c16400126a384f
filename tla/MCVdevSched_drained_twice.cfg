CONSTANTS
    v1 = v1
    v2 = v2
    Vring <- MCOne
    VringOrder <- MCOneOrder
    Msgs <- MCMsgs
    MaxInFlight = 2
    StopServer = FALSE
    SendFails = FALSE
    AttachFails = FALSE
    LeavesQueued = TRUE
SPECIFICATION SchedSpec
INVARIANTS DrainedOnce
CHECK_DEADLOCK FALSE
