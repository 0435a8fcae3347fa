\* One request at a time, one of which dies: a removal that dies between its Cognito call
\* and its commit leaves a row that a later removal counts.
SPECIFICATION Spec
CONSTANTS
    Accounts = {a1}
    Emails = {e1}
    GoogleSubs = {g1}
    NativeSubs = {n1}
    Slots = {p}
    Nobody = Nobody
    Gone = Gone
    MaxRequests = 3
    MaxFaults = 1
INVARIANT CanSignIn
CHECK_DEADLOCK FALSE
