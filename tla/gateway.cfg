SPECIFICATION Spec
CONSTANTS
    Text <- MCText
    Trim <- MCTrim
    Utf8 <- MCUtf8
    PathOverrides <- MCPathOverrides
    HeaderOverrides <- MCHeaderOverrides
    ClientStreams <- MCClientStreams
    ServerStream <- MCServerStream
INVARIANTS
    TypeOK
    StreamIsKept
    NothingIsCutOff
    HeadersAreOverridden
    PathsStayClean
PROPERTIES
    SessionsEnd
CHECK_DEADLOCK FALSE
