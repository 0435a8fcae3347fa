SPECIFICATION Spec
CONSTANTS
    Users = {u}
    Callers = {c1, c2}
    COST = 2
    CAPACITY = 4
    REFILL = 1
    BUDGET_CAPACITY = 2
    BUDGET_REFILL = 1
    MAX_COOLDOWN = 3
    FETCH_TIMEOUT = 1
    MAX_WAIT = 1
    LAG = 1
    WINDOW = 5
INVARIANTS
    RateBounded
    CooldownBounded
