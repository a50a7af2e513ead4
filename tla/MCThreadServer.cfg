SPECIFICATION FairSpec
CONSTANTS
    Clients = {c1, c2}
    Tasks = {t1, t2}
    Blocks = {b1, b2}
    Limit = 2
    None = None
    Message = {"line", "server quit"}
    Leaving = {c1}
    Inbox = 1
    Outbox = 1
    Again = FALSE
INVARIANTS OneThreadEach OneBlockEach
PROPERTIES EveryoneServed
CHECK_DEADLOCK FALSE
