SPECIFICATION FairSpec
CONSTANTS
    MaxRequests = 2
    k1 = k1
    Tokens <- MCTokens
    NoToken = NoToken
    NoRequest = NoRequest
    Options <- FewOptions
    Readers = {d1}
    Cancellers = {}
    Timer = timer
    Closer = closer
    MaxProgress = 1
PROPERTIES TimedRequestCompletes CloseCompletesPending DestructorReturns
CHECK_DEADLOCK FALSE
