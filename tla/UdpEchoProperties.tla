------------------------- MODULE UdpEchoProperties -------------------------
(* What the echo over datagrams must guarantee, and to whom it cannot. *)
EXTENDS UdpEcho

\* Every variable holds a value of its kind.
TypeOK ==
    /\ server \in {"down", "recvfrom", "sendto"}
    /\ sa \in Clients \cup {None} /\ len \in {0, AddrLen} /\ rd_buf \in Clients \cup {None}
    /\ queue \in Seq([from : Clients, what : Request]) /\ Len(queue) <= Room
    /\ at \in [Clients -> {"stdin", "recvfrom", "ended"}]
    /\ socket \in [Clients -> Seq(Clients)]

\* Where the datagram of c, or the answer to it, is: in the socket of the server,
\* in its hands, in the socket of c.
InQueue(c)  == {k \in DOMAIN queue : queue[k].from = c}
InHand(c)   == server = "sendto" /\ rd_buf = c
InSocket(c) == socket[c] # <<>>

\* Nothing numbers the datagrams.  That the client takes for the answer to its
\* line what comes next is right only because no client ever has more than one
\* datagram or answer under way, none while it reads its input, and because the
\* address the server holds is that of the datagram it has: no answer goes to
\* anybody else, whoever asks, ends, or kills and restarts the server meanwhile.
OneUnderWay ==
    /\ \A c \in Clients :
         /\ \A j, k \in InQueue(c) : j = k
         /\ InSocket(c) => socket[c] = <<c>>
         /\ ~(InQueue(c) # {} /\ InHand(c))
         /\ ~(InQueue(c) # {} /\ InSocket(c)) /\ ~(InHand(c) /\ InSocket(c))
         /\ at[c] = "stdin" => InQueue(c) = {} /\ ~InHand(c) /\ ~InSocket(c)
    /\ server = "sendto" => sa \in {rd_buf, None}

\* A line that reached a server that has had a datagram before is answered, unless
\* the server is killed: the client goes on.  (The first line is never answered.)
LinesAnswered ==
    \A c \in Clients :
        (len # 0 /\ \E k \in InQueue(c) : queue[k].what = "line")
            ~> (at[c] # "recvfrom" \/ server = "down")
=============================================================================
