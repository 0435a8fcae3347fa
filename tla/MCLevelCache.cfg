SPECIFICATION Spec
CONSTANTS
    CONFIRM = 2
    RECEIVES = 3
    MaxChanges = 2
    MaxFaults = 1
INVARIANTS
    TypeOK
PROPERTIES
    NotJustFound
    AdmitsOnlyDemons
    StubsFill
