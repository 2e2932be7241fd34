SPECIFICATION Spec
CONSTANTS
    MaxEvents = 2
    MaxStreams = 2
    MaxDrops = 1
    PipeSize = 1
    ReplayBufferSize = 2
    NoId = NoId
INVARIANT DeliveredWithoutGaps
CHECK_DEADLOCK FALSE
