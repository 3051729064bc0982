SPECIFICATION LiveSpec
CONSTANTS
    CallIds = {c1, c2}
    MaxConns = 3
    MaxWire = 3
INVARIANTS
    TypeOK
    SessionsAreUp
    NobodyIsKept
    SessionsAreConnected
    CrashNeedsFault
    ServerIsConsistent
    SessionsAreKnown
    AnswersAreExpected
    EventsFollowAnswer
    WireIsConsistent
PROPERTIES CallsAreDecided
CHECK_DEADLOCK FALSE
