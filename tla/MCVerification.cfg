\* Two purposes of one address, three codes, two requests at once; limits of one code an
\* hour and two guesses, a code alive for one tick, an hour of two and a retention of two.
SPECIFICATION Spec
CONSTANTS
    Ids = {c1, c2, c3}
    k1 = k1
    k2 = k2
    address = address
    Keys = {k1, k2}
    AddressOf <- MCAddressOf
    Ips = {ip}
    Secrets = {right, wrong}
    Slots = {p, q}
    None = None
    MAX_ATTEMPTS = 2
    MAX_SENDS_PER_ADDRESS_PER_HOUR = 1
    MAX_SENDS_PER_IP_PER_HOUR = 1
    CodeTtl = 1
    Hour = 2
    Retention = 2
    MaxNow = 3
SYMMETRY Symmetry
INVARIANTS
    TypeOK
    UsedOnce
    LimitsHold
PROPERTIES
    ReplacedIsDead
CHECK_DEADLOCK FALSE
