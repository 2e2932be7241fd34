SPECIFICATION Spec
CONSTANTS
    MaxRequests = 2
    k1 = k1
    Tokens <- MCTokens
    NoToken = NoToken
    NoRequest = NoRequest
    Options <- AllOptions
    Readers = {d1}
    Cancellers = {c1}
    Timer = timer
    Closer = closer
    MaxProgress = 1
INVARIANTS OneOwner DeadlineIsPending CancelledOnceByEach ProgressCallbackIsPending
PROPERTIES ImplementsContract
CHECK_DEADLOCK FALSE
