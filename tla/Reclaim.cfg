SPECIFICATION Spec
CONSTANTS
    Retention = 1
    MinAge = 1
    Slack = 0
    Batched = FALSE
    StampsKept = TRUE
    MaxTime = 3
    MaxCommits = 3
    MaxCrashes = 1
    MaxLooks = 1
CHECK_DEADLOCK FALSE
INVARIANTS
    LiveOnDisk
    DrainSparesReaders
    DataNamed
