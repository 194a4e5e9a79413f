SPECIFICATION Spec
CONSTANTS
    Streams <- MCStreams
    Garbage = {0}
    BufSize = 24
    Whole = FALSE
INVARIANTS
    CutDoesNotMatter
CHECK_DEADLOCK FALSE
