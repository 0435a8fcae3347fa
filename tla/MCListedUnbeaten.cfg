\* Two levels, one of them a platformer.  Three updates are a completion, a drop and
\* progress around it; two days tell before from after.
SPECIFICATION ProgressSpec
CONSTANTS
    l1 = l1
    platformer = platformer
    NoLevel = NoLevel
    Levels = {l1, platformer}
    Classic = {l1}
    One = 2
    Gap = 2
    MaxEvents = 2
    Baselines <- NoBaselines
    MaxDay = 2
    MaxUpdates = 3
INVARIANT
    ListedIsBeaten
CHECK_DEADLOCK FALSE
