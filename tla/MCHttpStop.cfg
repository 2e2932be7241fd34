SPECIFICATION Spec
CONSTANTS
    MaxConns = 3
    MaxSessions = 1
    MaxFds = 2
    Frames <- MCFrames
    Terminable = TRUE
INVARIANT StopTerminatesAll
CHECK_DEADLOCK FALSE
