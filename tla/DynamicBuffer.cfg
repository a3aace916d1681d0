SPECIFICATION Spec
CONSTANTS
    a = a
    b = b
    Byte = {a, b}
    Zero = a
    Refused = Refused
    NoLoan = NoLoan
    ExpandSize = 2
    Width = {1, 2}
    MaxSize = 7
INVARIANT BufferOK
PROPERTY IsAQueue
