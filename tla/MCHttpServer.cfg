SPECIFICATION FairSpec
CONSTANTS
    MaxConns = 3
    MaxSessions = 1
    MaxFds = 2
    Frames <- MCFrames
    Terminable = TRUE
INVARIANTS OwnDescriptor PostAnswersItsOwn StoppedIsQuiet
PROPERTIES ImplementsContract ClosedStreamEnds StopReturns
CHECK_DEADLOCK FALSE
