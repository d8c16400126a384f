CONSTANTS
    v1 = v1
    v2 = v2
    Vring <- MCOne
    VringOrder <- MCOneOrder
    Msgs <- MCMsgs
    MaxInFlight = 1
    StopServer = FALSE
    SendFails = TRUE
    AttachFails = FALSE
    LeavesQueued = FALSE
SPECIFICATION SchedSpec
INVARIANTS CleanedUpIdle
CHECK_DEADLOCK FALSE
