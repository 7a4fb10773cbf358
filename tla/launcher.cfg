CONSTANTS
    Launchers = {l1, l2}
    Calls = {p1, p2}
    None = None
    Ids = 2
    MaxAsks = 1
    MaxMoves = 2
SPECIFICATION Spec
INVARIANTS TypeOK OwnAnswer PanicExplained
PROPERTIES HangExplained
CHECK_DEADLOCK FALSE
