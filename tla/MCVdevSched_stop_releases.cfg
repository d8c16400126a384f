CONSTANTS
    v1 = v1
    v2 = v2
    Vring <- MCOne
    VringOrder <- MCOneOrder
    Msgs <- MCMsgs
    MaxInFlight = 1
    StopServer = TRUE
    SendFails = FALSE
    AttachFails = FALSE
    LeavesQueued = FALSE
SPECIFICATION FairSpec
PROPERTIES StopReleases
CHECK_DEADLOCK FALSE
