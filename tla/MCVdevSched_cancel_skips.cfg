CONSTANTS
    v1 = v1
    v2 = v2
    Vring <- MCOne
    VringOrder <- MCOneOrder
    Msgs <- MCMsgs
    MaxInFlight = 2
    StopServer = TRUE
    SendFails = FALSE
    AttachFails = FALSE
    LeavesQueued = TRUE
SPECIFICATION SchedSpec
PROPERTIES NoNewRequests
CHECK_DEADLOCK FALSE
