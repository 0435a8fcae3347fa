SPECIFICATION Spec
CONSTANTS
    Ids = {1, 2, 3}
    SLICE = 3
    STREAK = 2
    MaxFaults = 1
PROPERTIES
    Rotates
    ListsAreAsked
