CONSTANTS
    v1 = v1
    v2 = v2
    Vring <- MCTwo
    VringOrder <- MCTwoOrder
    Msgs <- AllMsgs
    MaxInFlight = 1
    StopServer = TRUE
    SendFails = TRUE
    AttachFails = TRUE
    LeavesQueued = FALSE
SPECIFICATION FairSpec
INVARIANTS CountersExact AssertionsHold
PROPERTIES BaseAfterDrain MessagesHandled Relistens StopReturns
CHECK_DEADLOCK FALSE
