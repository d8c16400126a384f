CONSTANTS
    t1 = t1
    t2 = t2
    home = home
    p1 = p1
    o1 = o1
    w1 = w1
    stop = stop
    h1 = h1
    h2 = h2
    none = none
    None = none
    Thread <- MCThread
    Home = home
    Persistent <- MCPersistent
    Plain <- MCPlain
    Work <- MCWork
    StopBh = stop
    Handler <- MCHandler
    MaxCalls = 3

SPECIFICATION FairSpec

PROPERTIES Blocks

CHECK_DEADLOCK FALSE
