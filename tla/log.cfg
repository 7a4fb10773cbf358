CONSTANTS
    MaxRun = 2
    MaxLines = 3
    MaxHeight = 2
    MaxFaults = 1
SPECIFICATION FairSpec
INVARIANTS TypeOK SyncedIsDone
PROPERTIES InOrder CatchesUp
CHECK_DEADLOCK FALSE
