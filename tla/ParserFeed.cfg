SPECIFICATION Spec
CONSTANTS
    Streams <- AllStreams
    IntBits = 16
INVARIANTS SameHoweverCut NumbersReadBack
PROPERTY AllIsParsed
CHECK_DEADLOCK FALSE
