CONSTANTS
    t1 = t1
    t2 = t2
    b1 = b1
    b2 = b2
    b3 = b3
    v1 = v1
    v2 = v2
    Thread <- MCThread
    Bio <- MCBio
    Vring <- MCVring
    CompletionBh = completion_bh
    Null = null

SPECIFICATION FairSpec

INVARIANTS FirstSchedules ReleaseQuiet
PROPERTIES LifeSpec CompletionsReported
CHECK_DEADLOCK FALSE
