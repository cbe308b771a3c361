SPECIFICATION AllSpec
CONSTANTS
    Components = {"discard", "hash", "array", "at", "json", "alsa", "sort"}
    Capacity = 2
    Modulus = 8
    WriteLens = {1, 2}
    ReadLens = {1, 2}
    MaxBytes = 5
    HashUsers = {1, 2}
    Keys = {"a", "b"}
    Values = {1, 2}
    bucket_cnt = 2
    Null = Null
    min_len = 4
    max_len = 10
    ArrayLens = {1, 3, 5}
    MaxGiven = 12
    Word = 1024
    MaxCmds = 2
    DataCmds = {1}
    Retry = 1
    WaitTime = 1
    at_cmd_num = 2
    is_cmd_ok = TRUE
    FactorLen = 5
    Chatter = {"ipd", "closed"}
    MaxChatter = 1
    MaxAir = 4
    RetryRange = 2
    NoFrame = NoFrame
    Fields = {f1, f2}
    f1 = f1
    f2 = f2
    MaxItems = 3
    Ints = {3}
    Reals = {3}
    Strings = {text}
    text = text
    IntMax = 2
    NoValue = NoValue
    Periods = {1, 2, 3}
    Buffers = {2, 3, 4}
    MaxFrames = 6
    SortKeys = {1, 2, 3, 4}
    MaxLen = 5
INVARIANTS
    ReadsAreFresh
    OneItemUnlessRaced
    KeepsWhatItAccepts
    SortsEveryItem
    
    AckedOnceWritten
    ReadsLastWritten
    PeriodsWhole
CHECK_DEADLOCK FALSE
