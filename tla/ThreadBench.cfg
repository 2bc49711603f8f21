SPECIFICATION FairSpec
CONSTANTS
    NUM_THREADS_SCENARIO2 = 3
    BATCH = 2
    MAX_OPS = 7
    NONE = NONE
INVARIANTS NothingLost ShortByABatch NoLostWakeup
PROPERTIES RunsToTheEnd
CHECK_DEADLOCK FALSE
