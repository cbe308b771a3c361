SPECIFICATION Spec
CONSTANTS
    QueueCapacity = 2
    ItemSize <- MCItemSize
    NoItem = 0
    MinThreads = 1
    MaxThreads = 3
    Batch = 2
    TaskCount = 3
    StartMayFail = FALSE
INVARIANT
    GrowthFindsASlot
CHECK_DEADLOCK FALSE
