SPECIFICATION RequestsSpec
CONSTANTS
    l1 = l1
    l2 = l2
    l3 = l3
    NoLevel = NoLevel
    Levels <- MCLevels
    Slots = {s1, s2}
    One = 2
    Gap = 2
    MaxEvents = 5
    MaxRequests = 2
    Baselines <- MCBaselines
SYMMETRY Symmetry
INVARIANT
    FullyLogged
CHECK_DEADLOCK FALSE
