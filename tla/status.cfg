SPECIFICATION Spec
CONSTANTS
    Services = {"opendexd", "boltz"}
    Disabled = {"boltz"}
    Requests = {r1, r2}
    Kinds = {"all"}
    MaxHeight = 1
    MaxChanges = 1
INVARIANTS
    TypeOK
    OwnStatus
    CrashExplained
PROPERTIES
    Answered
CHECK_DEADLOCK FALSE
