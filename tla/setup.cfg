CONSTANTS
    Streams = {c1, c2}
    None = None
    BufSize = 2
    MaxStatus = 3
SPECIFICATION Spec
INVARIANTS TypeOK InOrder NothingMissed
PROPERTIES StallExplained
CHECK_DEADLOCK FALSE
