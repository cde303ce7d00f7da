CONSTANTS
    MinWindowSize = 2
    MaxWindowSize = 3
    Cap = 2
    Backlog = 1
    Guard = 1
    Lag = 1
    Requests <- MCRequests
    MaxLog = 4
    MaxClock = 2
    MaxResizes = 1
SPECIFICATION Spec
CHECK_DEADLOCK FALSE
INVARIANT ReReadComplete
