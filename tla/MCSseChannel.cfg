SPECIFICATION FairSpec
CONSTANTS
    MaxEvents = 3
    MaxStreams = 3
    MaxDrops = 1
    PipeSize = 2
    ReplayBufferSize = 2
    NoId = NoId
INVARIANTS NobodySleepsThroughWork
PROPERTIES ImplementsTransport EventuallyDelivered StreamsEnd
CHECK_DEADLOCK FALSE
