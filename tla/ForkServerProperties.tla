------------------------ MODULE ForkServerProperties ------------------------
(* What one child per connection must guarantee. *)
EXTENDS ForkServer

Steps == {"none", "start", "serve", "farewell", "exit", "zombie"}

\* Every variable holds a value of its kind.
TypeOK ==
    /\ ServiceTypeOK
    /\ program \in {"procs-server", "server-ex"}
    /\ pc \in {"accept", "fork", "close", "exited"} /\ cfd \in Clients \cup {None}
    /\ pending \in BOOLEAN /\ sig \in BOOLEAN
    /\ proc \in [Pids -> Steps] /\ task \in [Pids -> Clients \cup {None}]
    /\ holders \in [Clients -> SUBSET (Pids \cup {Parent})]
    /\ listeners \subseteq Pids \cup {Parent}

\* A child that has ended is waited for although SIGCHLD is delivered once for
\* many: as long as one is left, the signal is pending or its handler still asks.
NoZombieForgotten == pc # "exited" /\ Zombies # {} => pending \/ sig

Serving(p) == proc[p] \in {"start", "serve", "farewell"}

\* What fork copies is closed again where it is not used: a child has the
\* connection it serves and no other, back in accept the parent has none, and no
\* connection is open that no process has.
OwnConnectionOnly ==
    /\ \A p \in Pids, c \in Clients :
         p \in holders[c] <=> Serving(p) /\ task[p] = c
    /\ \A c \in Clients : Parent \in holders[c] <=> pc \in {"fork", "close"} /\ cfd = c
    /\ \A c \in Clients : holders[c] # {} <=> conn[c] \in Served

\* Whoever is queued is served and hung up on in the end, or refused because the
\* parent has ended; and every child comes to its end and is waited for, though
\* the parent may end first.
EveryoneServed ==
    /\ \A c \in Clients : conn[c] = "queued" ~> conn[c] \in {"away", "left"}
    /\ \A p \in Pids : proc[p] = "start" ~> proc[p] = "none"
=============================================================================
