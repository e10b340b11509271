SPECIFICATION FairSpec
CONSTANTS
    Threads = {t1, t2}
    MaxOffset = 3
    MaxBatch = 1
    MaxFailures = 2
CHECK_DEADLOCK FALSE
INVARIANTS
    TailAnswers
    AckedDurable
    NothingAlone
PROPERTIES
    LockComesFree
