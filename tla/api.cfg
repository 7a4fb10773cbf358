CONSTANTS
    Conns = {"opendexd", "boltz"}
    Requests = {r1, r2}
    None = None
    Width = 4
    Amounts <- SomeAmounts
    Free = {r1}
    Apart = TRUE
    MaxBackups = 3
SPECIFICATION Spec
INVARIANTS TypeOK AnswerIsTrue RestoreIsReading MarkerExplained
PROPERTIES NoClientFirst Answered
CHECK_DEADLOCK FALSE
