SPECIFICATION Spec
CONSTANTS
    Streams <- TrailerStreams
    IntBits = 16
INVARIANT SameHoweverCut
CHECK_DEADLOCK FALSE
