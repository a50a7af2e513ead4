----------------------- MODULE SelectServerProperties -----------------------
(* What the select loop must guarantee. *)
EXTENDS SelectServer

\* Every variable holds a value of its kind.
TypeOK ==
    /\ ServiceTypeOK
    /\ pc \in {"select", "accept", "scan", "serve", "next",
               "ended", "too many", "overflow", "killed"}
    /\ cfds \in [Index -> Fd \cup {-1}]
    /\ all_set \subseteq Fd \cup {lfd} /\ rd_set \subseteq Fd \cup {lfd}
    /\ maxfd \in Fd \cup {lfd} /\ max_index \in Index
    /\ i \in Nat /\ cfd \in Fd \cup {-1, 0} /\ fd_num \in Int
    /\ client \in [Fd -> Clients \cup {None}]

\* The table, the set given to select, the bounds of both searches and the
\* connections that are open tell the same story at every turn of the loop:
\* none is forgotten, watched after it was closed, or in two slots.
TableConsistent ==
    pc \in {"select", "accept", "scan", "serve", "next"} =>
        /\ {cfds[k] : k \in Slots} = Open
        /\ all_set = Open \cup {lfd}
        /\ \A j, k \in Slots : cfds[j] = cfds[k] => j = k
        /\ \A k \in Slots : k <= max_index /\ cfds[k] <= maxfd

\* A client is at the other end of one descriptor at most, and of one exactly
\* from accept to close.
OneDescriptorEach ==
    Running => /\ \A f, g \in Open : client[f] = client[g] => f = g
               /\ {client[f] : f \in Open} = {c \in Clients : conn[c] \in Served}

\* The table never fills up, since the listening socket uses one of the
\* descriptors below FD_SETSIZE; and as long as the kernel hands out none
\* above, FD_SET stays within the set.
NeverTooMany == pc # "too many" /\ (Limit <= FD_SETSIZE => pc # "overflow")

\* A newcomer is put in a slot below that of a client who is there already.
Overtaken(c) ==
    \E j, k \in Index : /\ j < k /\ cfds[k] # Vacant /\ client[cfds[k]] = c
                       /\ cfds[j] = Vacant /\ cfds'[j] # Vacant

\* Nobody is passed over without a reason: a connection in the table is served
\* and hung up on in the end, unless newcomers are put in lower slots for ever
\* (fd_num is then spent on them); one in the backlog leaves it, unless again and
\* again somebody else is in it too.  Or the server dies, of SIGPIPE or of a
\* failing accept; and a client that stays is one that ends its input some day.
EveryoneServed ==
    \A c \in Clients :
        /\ []<>(conn[c] \notin Served \/ ~Running) \/ []<><<Overtaken(c)>>_vars
        /\ \/ []<>(conn[c] # "queued" \/ ~Running)
           \/ []<>(\E d \in Clients \ {c} : conn[d] = "queued")
=============================================================================
