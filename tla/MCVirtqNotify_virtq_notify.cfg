CONSTANTS
    QSize = 2
    Wrap = 4

SPECIFICATION FairSpec

INVARIANTS NoLostKick NoLostInterrupt FetchesInRange
PROPERTIES NotificationsArrive
