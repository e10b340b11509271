SPECIFICATION Spec
CONSTANTS
    Sealers = {s1, s2}
    MaxOffset = 2
    MaxBatch = 2
    TargetRows = 2
    Paths = {1, 2, 3, 4}
    Owners = {1, 2, 3}
    MaxCrashes = 0
    MaxLapses = 1
    BoundedStall = TRUE
SYMMETRY Symmetry
CHECK_DEADLOCK FALSE
INVARIANTS
    ReadsExactlyOnce
    NoDanglingFile
PROPERTIES
    NeverReAdds
    DoomedStaysOut
