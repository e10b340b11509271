SPECIFICATION RetiredSpec
CONSTANTS
    MaxOffset = 3
    EvictInOrder = TRUE
    MaxTruncates = 2
    MaxFailures = 1
    CompactSize = 2
    CompactStep = 1
    MinFiles = 2
CHECK_DEADLOCK FALSE
INVARIANTS
    OnlyHistoryGoes
    ClearedBelow
    RetiredWhole
    RetiredFilesNamed
    DeleteResumes
PROPERTIES
    IsACutLog
    RetireFinishes
