\* Two accounts, two addresses, two Cognito users of each kind, two requests at once and
\* four in all, one of which may die.
SPECIFICATION Spec
CONSTANTS
    Accounts = {a1, a2}
    Emails = {e1, e2}
    GoogleSubs = {g1, g2}
    NativeSubs = {n1, n2}
    Slots = {p, q}
    Nobody = Nobody
    Gone = Gone
    MaxRequests = 4
    MaxFaults = 1
SYMMETRY Symmetry
INVARIANTS
    TypeOK
    KeepsIdentity
    OnePassword
    EmailsAgree
CHECK_DEADLOCK FALSE
