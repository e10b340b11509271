SPECIFICATION Spec
CONSTANTS
    MaxOffset = 3
    MaxBatch = 1
    MaxGroups = 2
    MaxLoads = 2
    IngestBatch = 2
    Paths = {1, 2, 3, 4, 5}
    Owners = {1, 2, 3}
    MaxLapses = 1
    MaxFailures = 1
    CutBesideLoad = FALSE
CHECK_DEADLOCK FALSE
INVARIANTS
    AckedServed
    OutputsNamed
    NoTableFileLost
PROPERTIES
    IngestIsALog
