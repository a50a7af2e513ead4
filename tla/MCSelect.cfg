SPECIFICATION FairSpec
CONSTANTS
    Clients = {c1, c2, c3}
    Message = {"line", "server quit"}
    Leaving = {c1}
    Inbox = 1
    Outbox = 1
    Again = TRUE
    FD_SETSIZE = 4
    Limit = 6
    lfd = 1
    None = None
INVARIANTS TableConsistent OneDescriptorEach NeverTooMany
PROPERTIES EveryoneServed
CHECK_DEADLOCK FALSE
