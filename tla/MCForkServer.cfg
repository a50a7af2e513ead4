SPECIFICATION FairSpec
CONSTANTS
    Clients = {c1, c2}
    Procs = 2
    Parent = Parent
    None = None
    Message = {"line", "server quit"}
    Leaving = {c1}
    Inbox = 1
    Outbox = 1
    Again = FALSE
INVARIANTS NoZombieForgotten OwnConnectionOnly
PROPERTY EveryoneServed
CHECK_DEADLOCK FALSE
