SPECIFICATION FairSpec
CONSTANTS
    Task = {t1, t2, t3}
    Batch <- MCBatch
    Producer = {p1, p2}
    Owner = Owner
    Nobody = Nobody
    EventMax = 2
    MaxCalls = 4
CHECK_DEADLOCK FALSE
INVARIANTS
    TypeOK
    OneThreadAtTheList
    NoLostWakeup
    RunsInOrderOnce
PROPERTIES
    ImplementsQueue
    TasksAreRun
    WakeupsAreConsumed
