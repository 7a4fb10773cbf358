CONSTANTS
    Launchers = {l1}
    Calls = {p1}
    None = None
    Ids = 2
    MaxAsks = 1
    MaxMoves = 1
SPECIFICATION Spec
INVARIANTS RequestsAreRequests
CHECK_DEADLOCK FALSE
