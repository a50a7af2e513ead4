SPECIFICATION FairSpec
CONSTANTS
    Clients = {c1, c2}
    PROCNUM = 2
    None = None
    Message = {"line", "server quit"}
    Leaving = {c1}
    Inbox = 1
    Outbox = 1
    Again = FALSE
INVARIANTS OneProcessEach AllWorkersTold
PROPERTIES InterruptEnds EveryoneServed
CHECK_DEADLOCK FALSE
