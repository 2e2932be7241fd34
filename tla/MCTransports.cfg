SPECIFICATION FairSpec
CONSTANTS
    Posters = {p1, p2}
    MaxPosts = 3
    MaxSessions = 2
    MaxOutages = 1
    MaxAttempts = 2
    MaxLines = 2
    MaxConnects = 2
INVARIANTS QuietAfterDisconnect SignalsOwnChild NoLineLostAtEof
PROPERTIES ImplementsTransport NewestSessionWins DisconnectReturns LossIsReported EofEndsServer
CHECK_DEADLOCK FALSE
