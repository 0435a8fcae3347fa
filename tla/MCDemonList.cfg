\* Three levels and a log of at most three events, the baseline among them.  A
\* whole number is two units and so is REBALANCE_GAP: one bisection of a gap of
\* two leaves gaps that are too tight.
SPECIFICATION HistorySpec
CONSTANTS
    l1 = l1
    l2 = l2
    l3 = l3
    NoLevel = NoLevel
    Levels <- MCLevels
    One = 2
    Gap = 2
    MaxEvents = 3
    Baselines <- MCBaselines
SYMMETRY Symmetry
INVARIANTS
    TypeOK
    FullyLogged
    WalkReachesList
    HistoryContinuous
PROPERTIES
    OrderKept
    LandsBetween
    LeavesOnRecord
CHECK_DEADLOCK FALSE
