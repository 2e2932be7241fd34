SPECIFICATION Spec
CONSTANTS
    MaxAttempts = 1
    MaxRequests = 0
    MaxLost = 0
    MaxCancellations = 1
INVARIANT ClosedMeansShutdown
CHECK_DEADLOCK FALSE
