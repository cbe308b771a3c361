SPECIFICATION Spec
CONSTANTS
    u1 = u1
    u2 = u2
    u3 = u3
    u4 = u4
    n1 = n1
    n2 = n2
    n3 = n3
    none = none
    Users = {u1, u2, u3, u4}
    Nodes = {n1, n2, n3}
    NoNode = none
    CreateMayFail = FALSE
    SleepSettles = TRUE
INVARIANTS
    OneOwner
    WakeUpsReach
    CountIsLength
PROPERTIES
    DestroyReleasesUsers
CHECK_DEADLOCK FALSE
