SPECIFICATION Spec
CONSTANTS
    ThreadNum = 0
    Client = {c1, c2}
    Owner = o
    MaxStarts = 2
    MaxCalls = 3
CHECK_DEADLOCK FALSE
INVARIANTS
    PoolHasThreads
