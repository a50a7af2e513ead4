------------------------------ MODULE UdpEcho ------------------------------
(***************************************************************************)
(* socket-chapter8: server-udp.c answers each datagram with a line, and    *)
(* client-udp.c sends one and waits for the answer, for ever if need be.   *)
(* Both are bound to the loopback interface, which neither loses nor       *)
(* reorders; a datagram is dropped when nobody is bound to its port or the *)
(* socket is full, and nobody is told.                                     *)
(*                                                                         *)
(* The length of the address is passed to recvfrom and comes back from it. *)
(* main starts it at 0: the first datagram leaves no address behind.       *)
(***************************************************************************)
EXTENDS Integers, Sequences, FiniteSets

CONSTANTS
    Clients,
    Room,        \* the datagrams the socket of the server holds
    None         \* the address of nobody, all zeros

ASSUME UdpAssumption ==
    /\ IsFiniteSet(Clients) /\ Room \in Nat \ {0} /\ None \notin Clients

VARIABLES
    server,      \* where the server is: "down", "recvfrom" or "sendto"
    sa, len,     \* the address it holds and the length of that
    rd_buf,      \* whose datagram is in its buffer
    queue,       \* the datagrams in its socket: from whom, and what
    at,          \* where each client is
    socket       \* the answers in the socket of each: whose datagram they answer

serverVars == <<server, sa, len, rd_buf>>
vars == <<serverVars, queue, at, socket>>

Request == {"line", "server quit"}
AddrLen == 16

Init ==
    /\ server = "recvfrom" /\ sa = None /\ len = 0 /\ rd_buf = None
    /\ queue = <<>>
    /\ at = [c \in Clients |-> "stdin"]
    /\ socket = [c \in Clients |-> <<>>]

Goes(c, s) == at' = [at EXCEPT ![c] = s]

-----------------------------------------------------------------------------
(* handle_info *)

Fresh(from) == IF len = 0 THEN None ELSE from
Kept(from)  == IF sa = None THEN Fresh(from) ELSE sa
SenderOf(from) == Fresh(from)

LenOnce == IF sa = None THEN AddrLen ELSE 0
NewLen  == AddrLen

\* recvfrom stores as much of the sender's address as len allows, and then the
\* whole length of it in len; "server quit" has no answer.
Recvfrom ==
    /\ server = "recvfrom" /\ queue # <<>>
    /\ LET d == Head(queue)
       IN  /\ sa' = SenderOf(d.from) /\ len' = NewLen /\ rd_buf' = d.from
           /\ server' = IF d.what = "server quit" THEN "recvfrom" ELSE "sendto"
    /\ queue' = Tail(queue)
    /\ UNCHANGED <<at, socket>>

\* Port 0 takes nothing (EINVAL); a socket that was closed drops the datagram.
Sendto ==
    /\ server = "sendto" /\ server' = "recvfrom"
    /\ socket' = IF sa # None /\ at[sa] # "ended"
                 THEN [socket EXCEPT ![sa] = Append(@, rd_buf)] ELSE socket
    /\ UNCHANGED <<sa, len, rd_buf, queue, at>>

\* Only a signal ends the server; what is in its socket is gone with it.
Kill ==
    /\ server # "down" /\ server' = "down"
    /\ sa' = None /\ len' = 0 /\ rd_buf' = None /\ queue' = <<>>
    /\ UNCHANGED <<at, socket>>

Restart ==
    /\ server = "down" /\ server' = "recvfrom"
    /\ UNCHANGED <<sa, len, rd_buf, queue, at, socket>>

-----------------------------------------------------------------------------
(* The client *)

Taken   == server # "down" /\ Len(queue) < Room

Ask(c) ==
    /\ at[c] = "stdin" /\ Goes(c, "recvfrom")
    /\ IF Taken
       THEN \E w \in Request : queue' = Append(queue, [from |-> c, what |-> w])
       ELSE UNCHANGED queue
    /\ UNCHANGED <<serverVars, socket>>

\* An answer is never empty, so that "server has been terminated!" is never said.
Answered(c) ==
    /\ at[c] = "recvfrom" /\ socket[c] # <<>>
    /\ Goes(c, "stdin")
    /\ socket' = [socket EXCEPT ![c] = Tail(@)]
    /\ UNCHANGED <<serverVars, queue>>

\* "quit" or the end of the input; or the user interrupts a client that waits.
Ends(c) ==
    /\ at[c] # "ended" /\ Goes(c, "ended")
    /\ socket' = [socket EXCEPT ![c] = <<>>]
    /\ UNCHANGED <<serverVars, queue>>

-----------------------------------------------------------------------------
Server == Recvfrom \/ Sendto
Client(c) == Ask(c) \/ Answered(c) \/ Ends(c)

Next == Server \/ Kill \/ Restart \/ \E c \in Clients : Client(c)

Spec == Init /\ [][Next]_vars

\* Server and clients run; nobody need type, interrupt, kill or restart.
FairSpec == Spec /\ WF_vars(Server) /\ \A c \in Clients : WF_vars(Answered(c))
=============================================================================
