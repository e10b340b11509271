SPECIFICATION Spec
CONSTANTS
    Handles = {a, b}
    Nobody = Nobody
    TTL = 2
    Skew = 1
    MaxTime = 3
    MaxWrites = 3
SYMMETRY Symmetry
CHECK_DEADLOCK FALSE
INVARIANTS
    SoleAuthority
    AuthorityRecorded
