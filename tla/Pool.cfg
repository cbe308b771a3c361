SPECIFICATION Spec
CONSTANTS
    QueueCapacity = 2
    ItemSize <- MCItemSize
    NoItem = 0
    MinThreads = 1
    MaxThreads = 2
    Batch = 2
    TaskCount = 3
    StartMayFail = FALSE
INVARIANTS
    LiveCounts
    TasksConserved
    FreedWhenAllEnded
PROPERTIES
    ImplementsFifo
    TasksRun
CHECK_DEADLOCK FALSE
