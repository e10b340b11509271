SPECIFICATION FairSpec
CONSTANTS
    Sealers = {s1, s2}
    MaxOffset = 2
    MaxBatch = 2
    TargetRows = 2
    Paths = {1, 2, 3, 4, 5}
    Owners = {1, 2, 3}
    MaxCrashes = 1
    MaxLapses = 0
    BoundedStall = TRUE
CHECK_DEADLOCK FALSE
INVARIANTS
    NothingForgotten
PROPERTIES
    QueueDrains
