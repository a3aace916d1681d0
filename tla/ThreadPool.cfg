SPECIFICATION FairSpec
CONSTANTS
    ThreadNum = 2
    Client = {c1, c2}
    Owner = o
    MaxStarts = 2
    MaxCalls = 2
CHECK_DEADLOCK FALSE
INVARIANTS
    TypeOK
    UsesLiveContexts
    HandedOutInTurn
    ServicesAreMadeSafely
    EarlierTasksRun
PROPERTIES
    HandshakesEnd
