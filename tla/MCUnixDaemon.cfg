SPECIFICATION DaemonFairSpec
CONSTANTS
    Daemons = {d1, d2}
    Users = {c1, c2}
    Backlog = 0
    Buffer = 2
    Lines = 2
    NoOne = NoOne
INVARIANTS OneOwner NobodyCutShort
PROPERTIES AllPrinted StopHeard
CHECK_DEADLOCK FALSE
