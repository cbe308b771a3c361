SPECIFICATION Spec
CONSTANTS
    QueueCapacity = 2
    ItemSize <- MCItemSize
    NoItem = 0
    MinThreads = 1
    MaxThreads = 2
    Batch = 2
    TaskCount = 2
    StartMayFail = FALSE
INVARIANT
    TasksDoneWhenFreed
CHECK_DEADLOCK FALSE
