SPECIFICATION Spec
CONSTANTS
    Capacity = 4
    Modulus = 8
    Payloads <- MCPayloads
    Lens <- MCLens
    LoadsReordered = FALSE
    ResetAnytime = FALSE
INVARIANTS
    WindowSafe
    CopiesDisjoint
PROPERTIES
    ImplementsFifo
CHECK_DEADLOCK FALSE
