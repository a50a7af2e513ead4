----------------------- MODULE ThreadServerProperties -----------------------
(* What one thread per connection must guarantee. *)
EXTENDS ThreadServer

\* Every variable holds a value of its kind.
TypeOK ==
    /\ ServiceTypeOK
    /\ client \in [Fd -> Clients \cup {None}]
    /\ block \in [Blocks -> Fd \cup {None}]
    /\ pc \in {"accept", "malloc", "create", "ended"}
    /\ cfd \in Fd \cup {None} /\ pfd \in Blocks \cup {None}
    /\ at \in [Tasks -> {"none", "start", "serve", "free"}]
    /\ arg \in [Tasks -> Blocks \cup {None}] /\ fd \in [Tasks -> Fd \cup {None}]
    /\ lost \subseteq Blocks

\* The threads that answer for a descriptor, and the descriptor of each.
Holding  == {t \in Tasks : at[t] \in {"start", "serve"}}
Holds(t) == IF at[t] = "start" THEN block[arg[t]] ELSE fd[t]

\* The descriptors of the threads that were never started, and main's.
LostFds == {block[b] : b \in lost}
MainFds == IF pc \in {"malloc", "create"} THEN {cfd} ELSE {}
HeldFds == {Holds(t) : t \in Holding}

\* Although descriptor numbers are used again while old threads are still at
\* work, no descriptor is of two threads; every open one is of a thread, in the
\* hands of main, or of a thread that was never started, and of one of these
\* only; and each has a client of its own.
OneThreadEach ==
    /\ \A t, u \in Holding : Holds(t) = Holds(u) => t = u
    /\ Open = HeldFds \cup LostFds \cup MainFds
    /\ HeldFds \cap LostFds = {} /\ (HeldFds \cup LostFds) \cap MainFds = {}
    /\ \A f, g \in Open : client[f] = client[g] => f = g
    /\ {client[f] : f \in Open} = {c \in Clients : conn[c] \in Served}

\* A block is freed once, by the thread that was given it, and by no other; what
\* is not free is of a thread, in the hands of main, or lost, and of one only.
OneBlockEach ==
    LET given == {arg[t] : t \in {u \in Tasks : at[u] # "none"}}
        inhand == {pfd} \ {None}
    IN  /\ \A t, u \in Tasks : at[t] # "none" /\ arg[t] = arg[u] => t = u
        /\ {b \in Blocks : block[b] # None} = given \cup lost \cup inhand
        /\ given \cap lost = {} /\ (given \cup lost) \cap inhand = {}

\* Whoever is queued is served and hung up on in the end, unless the process
\* ends or the thread that was to serve could not be started.
EveryoneServed ==
    \A c \in Clients : conn[c] = "queued" ~>
        conn[c] \in {"away", "left"} \/ (\E b \in lost : client[block[b]] = c)
=============================================================================
