SPECIFICATION ReaderSpec
CONSTANTS
    NULL = NULL
    Wild = Wild
    t1 = t1
    t2 = t2
    Addr = {a1, a2, a3}
    Keys = {1, 2, 3}
    LongKeys <- NoKeys
    Values = {v1}
    Writers <- One
    Readers <- TheOther
    FreshRoots <- Empty
INVARIANT SteadyKeyFound
CHECK_DEADLOCK FALSE
