SPECIFICATION RestoreSpec
CONSTANTS
    MaxOffset = 6
    EvictInOrder = FALSE
    CompactSize = 2
    CompactStep = 1
    MinFiles = 2
    MaxOld = 3
    ReplicaReserve = 1
    PublishedReserve = 2
    MaxFresh = 1
    MaxStops = 2
    StopsAnywhere = FALSE
CHECK_DEADLOCK FALSE
INVARIANTS
    NeverReissued
    RestoredWhole
    NoStraddler
