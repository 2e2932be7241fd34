SPECIFICATION PartsSpec
CONSTANTS
    Waiters = {w1, w2, w3}
    Notifiers = {n1, n2}
    Free = Free
    Names = {a, b}
    Sessions = {s1, s2}
    Listers = {s1}
    Watched = {a}
    Threads = {t1}
    PageSize = 1
    MaxTurns = 2
    MaxCalls = 2
    MaxText = 4
    MaxParts = 2
    Symbols <- MCSymbols
    LineTexts <- MCLineTexts
    Frames <- MCFrames
    Characters <- MCCharacters
    Templates <- MCTemplates
    Uris <- MCUris
    Bytes <- MCBytes
    Bodies <- MCBodies
    SizeRange = 256
INVARIANTS CountsMatchWaiters
           ViewsConverge NoDanglingSession SubscriptionsAreKnown NoRequestIsForgotten
           LinesAreWhole ItemsAreIndependent MatchIsExact BodyIsWhole DecodesWhatWasSent
