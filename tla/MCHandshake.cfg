SPECIFICATION FairSpec
CONSTANTS
    MaxAttempts = 3
    MaxRequests = 2
    MaxLost = 1
    MaxCancellations = 1
INVARIANTS TypeOK NoPrematureRequest OperatingTogether
PROPERTIES InitializeReturns
CHECK_DEADLOCK FALSE
