SPECIFICATION Spec
CONSTANTS
    c1 = c1
    c2 = c2
    Clients = {c1, c2}
    Message = {"line", "server quit", "say server quit"}
    Leaving = {c1, c2}
    Inbox = 2
    Outbox = 1
    Again = FALSE
    Lines <- MCLines
INVARIANTS NeverStuck NotCutShort
PROPERTIES ClientEnds
CHECK_DEADLOCK FALSE
