CONSTANTS
    QSize = 2
    Wrap = 4
    MaxRequests = 4
    MaxRestarts = 2

SPECIFICATION FairSpec

INVARIANTS InOrder OwnsAll
PROPERTIES RingSpec RequestsReturn
CHECK_DEADLOCK FALSE
