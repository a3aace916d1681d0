SPECIFICATION Spec
CONSTANTS
    Chan = {c1}
    Methods <- LoginOnly
    Asks <- SomeAsks
    MaxCalls = 2
    MaxTroubles = 1
    HeaderBytes = 2
INVARIANTS
    QueueMoves
    Framed
    AnsweredByOwn
PROPERTY
    CallsComplete
CHECK_DEADLOCK FALSE
