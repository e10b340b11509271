SPECIFICATION ReadSpec
CONSTANTS
    Workers = {w1}
    MaxOffset = 2
    MaxSealRows = 1
    Paths = {1, 2, 3, 4, 5, 6}
    Owners = {1, 2, 3}
    MaxFailures = 0
    MaxLapses = 0
    MaxJobs = 5
    PromptCommit = TRUE
    Kinds = {"compact", "publish", "evict"}
    CompactSize = 2
    CompactStep = 1
    MinFiles = 2
SYMMETRY Symmetry
CHECK_DEADLOCK FALSE
INVARIANTS
    ReadsOnce
