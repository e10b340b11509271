SPECIFICATION Spec
CONSTANTS
    Workers = {w1, w2}
    MaxOffset = 2
    MaxSealRows = 1
    Paths = {1, 2, 3, 4, 5, 6}
    Owners = {1, 2, 3}
    MaxFailures = 1
    MaxLapses = 1
    MaxJobs = 4
    PromptCommit = TRUE
    Kinds = {"compact", "publish", "evict"}
    CompactSize = 2
    CompactStep = 1
    MinFiles = 2
SYMMETRY Symmetry
CHECK_DEADLOCK FALSE
INVARIANTS
    PublishedExact
    StagingExact
    HandedOver
    TierCovers
