------------------------ MODULE PoolServerProperties ------------------------
(* What the pool of workers must guarantee. *)
EXTENDS PoolServer

\* Every variable holds a value of its kind.
TypeOK ==
    /\ ServiceTypeOK
    /\ at \in [Processes -> {"none", "create", "pause", "kill", "wait",
                             "accept", "serve", "zombie", "ended"}]
    /\ i \in 0..PROCNUM
    /\ cfd \in [Processes -> Clients \cup {None}]
    /\ interrupted \in BOOLEAN /\ signals \subseteq Processes

\* Whichever processes die, and in whatever order, each open connection is with
\* one process that serves it, and no process serves one that is closed.
OneProcessEach ==
    /\ \A p \in Processes : at[p] = "serve" <=> cfd[p] # None
    /\ \A p, q \in Processes : cfd[p] = cfd[q] /\ cfd[p] # None => p = q
    /\ {cfd[p] : p \in Processes} \ {None} = {c \in Clients : conn[c] \in Served}

\* While sig_int runs its loop, each pid it has kept is still that of its worker,
\* of which none was waited for, and each worker that lives is about to be killed,
\* or has its signal and has not lost it: behind the loop no worker is left that
\* would go on serving while sig_int waits (procpool-server.c:121-127).
AllWorkersTold ==
    at[Parent] \in {"kill", "wait"} =>
        \A w \in Workers :
            /\ at[Parent] = "kill" => at[w] # "none"
            /\ Alive(w) => w \in signals \/ (at[Parent] = "kill" /\ i <= w)

\* However many have ended before and whomever they serve, the workers end, and
\* with the last of them the wait of sig_int.
InterruptEnds == at[Parent] = "kill" ~> at[Parent] = "ended"

Pool == {p \in Processes : at[p] \in {"accept", "serve"}}

\* Whoever is queued is served and hung up on in the end, or refused, as long
\* as a process is left in the pool: nothing restores it.
EveryoneServed ==
    \A c \in Clients : conn[c] = "queued" ~>
        \/ conn[c] \in {"away", "left"}
        \/ (Pool = {} /\ at[Parent] # "create")
=============================================================================
