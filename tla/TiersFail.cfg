SPECIFICATION Spec
CONSTANTS
    Workers = {w1}
    MaxOffset = 4
    MaxSealRows = 2
    Paths = {1, 2, 3, 4, 5, 6, 7, 8, 9}
    Owners = {1, 2, 3}
    MaxFailures = 1
    MaxLapses = 0
    MaxJobs = 4
    PromptCommit = TRUE
    Kinds = {"compact", "publish", "evict"}
    CompactSize = 3
    CompactStep = 1
    MinFiles = 2
SYMMETRY Symmetry
CHECK_DEADLOCK FALSE
INVARIANTS
    PublishedLinesUp
    NeverRefused
