SPECIFICATION Spec
CONSTANTS
    Levels = {"l"}
    None = None
    Sheets <- MCSheets
    InitLogs <- MCInitLogs
    Dates = {1}
    Invocations = {w1, w2}
    BATCH_SIZE = 2
    MAX_REINVOKES = 1
    MaxRetries = 1
    MaxImports = 2
    MaxFaults = 1
    MaxEdits = 1
INVARIANTS
    TypeOK
    AppliedOnce
    LogConsistent
    CompletedIsDone
PROPERTIES
    DiscardedIsDead
    ShowsStatus
    Settles
CHECK_DEADLOCK FALSE
