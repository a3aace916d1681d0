SPECIFICATION FairSpec
CONSTANTS
    s1 = s1
    s2 = s2
    Timer <- MCTimer
    Timeout <- MCTimeout
    MaxTime = 5
    MaxWaits = 3
    MaxDepth = 3
CHECK_DEADLOCK FALSE
INVARIANTS
    TypeOK
    IndexMatchesSet
    ArmedForFirst
    OneCallbackEach
    ExpireInOrder
    CancelsOnlyItsOwn
    LostOnlyByOverwrite
PROPERTIES
    WaitsEnd
