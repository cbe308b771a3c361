SPECIFICATION Spec
CONSTANTS
    w1 = w1
    w2 = w2
    r1 = r1
    r2 = r2
    owner = owner
    none = none
    Writers = {w1, w2}
    Readers = {r1}
    Owner = owner
    NoThread = none
    Capacity = 2
    Modulus = 4
    Payloads <- MCPayloads
    Lens <- MCLens
    SleepSettles = TRUE
INVARIANT
    LocksReleased
CHECK_DEADLOCK FALSE
