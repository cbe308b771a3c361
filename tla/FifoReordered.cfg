SPECIFICATION Spec
CONSTANTS
    Capacity = 4
    Modulus = 8
    Payloads <- MCPayloads
    Lens <- MCLens
    LoadsReordered = TRUE
    ResetAnytime = FALSE
INVARIANT
    ReadsWhatItRemoves
CHECK_DEADLOCK FALSE
