SPECIFICATION Spec
CONSTANTS
    t1 = t1
    t2 = t2
    u = u
    fd1 = fd1
    fd2 = fd2
    Tcp = {t1, t2}
    Udp = {u}
    Fd = {fd1, fd2}
    Closed = Closed
    Calls = 2
    Length = {2}
    MaxHup = 2
    MaxLost = 1
SYMMETRY Symmetry
INVARIANTS TypeOK AnsweredOnce WholeWrites OwnedOnce
CHECK_DEADLOCK FALSE
