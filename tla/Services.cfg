SPECIFICATION Spec
CONSTANTS
    u1 = u1
    u2 = u2
    Users = {u1, u2}
    slot_num = 2
    Expiries = {1, 2, 4}
    Wakes = {u1}
    Delays = {0, 1, 3, 7, 8, 15}
    BaseBits = 1
    Bits = 2
    Wheels = 2
    MaxTicks = 40
    PoolWorkers = {u1, u2}
    PoolCap = 1
    PoolTasks = 4
    ListNodes = 6
    n1 = n1
    n2 = n2
    n3 = n3
    NoNode = NoNode
    BakWorkers = {u1, u2}
    task_max_cnt = 2
    BakTasks = 4
    Fds = {u1, u2}
    ExitPipe = ExitPipe
    LedCap = 1
    CntRange = 3
INVARIANTS
    RingsNearItsTime
    FiresOnTime
    TasksInOrder
    TakenOnceUntilStale
    FreedUsedInHaste
    OneDaemonEach
    ClientsAccountedFor
PROPERTIES
    DelMissesOnlyWhatRang
    DestroysEnd
CHECK_DEADLOCK FALSE
