CONSTANTS
    Conns = {a}
    Ids = {i1}
    None = none
    Readers = {r1}
    MaxShells = 1
    MaxEvents = 3
SPECIFICATION Spec
PROPERTIES ResizeWorks
CHECK_DEADLOCK FALSE
