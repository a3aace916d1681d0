SPECIFICATION Spec
CONSTANTS
    Fd = {f1, f2}
    Op = {o1, o2, o3}
    NoOp = NoOp
    InitCap = 1
    MaxDepth = 3
SYMMETRY Symmetry
CHECK_DEADLOCK FALSE
INVARIANT
    ReRegistrationIsUnaffected
