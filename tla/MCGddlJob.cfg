SPECIFICATION Spec
CONSTANTS
    Requests = {p, q}
    Workers = {w1, w2}
    STALE = 2
    TIMEOUT = 1
    MaxRetries = 1
    MaxRuns = 2
    MaxFaults = 2
INVARIANTS
    TypeOK
    AckedWasShown
PROPERTIES
    GivenUpIsLate
    RunEnds
