SPECIFICATION FairSpec
CONSTANTS
    NULL = NULL
    Wild = Wild
    t1 = t1
    t2 = t2
    Addr = {a1, a2, a3, a4}
    Keys = {1, 2, 3, 4}
    LongKeys <- OneLong
    Values = {v1}
    Writers <- One
    Readers <- One
    FreshRoots <- Garbage
PROPERTIES CallsReturn
INVARIANTS TreeIntact SearchOrder CountersNeverOverstate NothingLeaked OnlyKnownFaults
CHECK_DEADLOCK FALSE
