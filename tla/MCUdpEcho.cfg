SPECIFICATION FairSpec
CONSTANTS
    Clients = {c1, c2, c3}
    Room = 2
    None = None
INVARIANTS OneUnderWay
PROPERTIES LinesAnswered
CHECK_DEADLOCK FALSE
