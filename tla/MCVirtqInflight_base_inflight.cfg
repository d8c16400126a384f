CONSTANTS
    QSize = 2
    Wrap = 4
    MaxRequests = 2
    MaxRestarts = 2

SPECIFICATION Spec

INVARIANT BaseNoInflight

CHECK_DEADLOCK FALSE
