SPECIFICATION Spec
CONSTANTS
    Workers = {w1, w2}
    Ranges <- MCRanges
    TTL = 2
    MaxTime = 3
    MaxAttempts = 3
SYMMETRY Symmetry
CHECK_DEADLOCK FALSE
INVARIANTS
    Disjoint
    OvertakenIsOut
    LossIsReal
PROPERTIES
    FenceSound
