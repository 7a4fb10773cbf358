CONSTANTS
    Conns = {a, b}
    Ids = {i1, i2}
    None = none
    Readers = {r1}
    MaxShells = 2
    MaxEvents = 4
SPECIFICATION Spec
INVARIANTS TypeOK CrashExplained LeftBehind RouteIsNewest
PROPERTIES BareExplained
CHECK_DEADLOCK FALSE
SYMMETRY Symmetry
