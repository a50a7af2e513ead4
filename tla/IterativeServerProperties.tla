--------------------- MODULE IterativeServerProperties ---------------------
(***************************************************************************)
(* What the select client and the iterative server promise together.       *)
(***************************************************************************)
EXTENDS IterativeServer

\* Every variable holds values of its kind: in particular a client selects on
\* what it can still read, and what a closed connection left unread fits.
TypeOK ==
    /\ ServiceTypeOK
    /\ listening \in BOOLEAN
    /\ at \in [Clients -> Working \cup Final]
    /\ ready \in [Clients -> SUBSET {"socket", "stdin"}]
    /\ stdineof \in [Clients -> BOOLEAN] /\ asked \in [Clients -> BOOLEAN]
    /\ line \in [Clients -> Message]
    /\ typed \in [Clients -> Nat] /\ \A c \in Clients : typed[c] <= Lines[c]
    /\ rest \in [Clients -> 0..Outbox]
    /\ seof \in [Clients -> BOOLEAN] /\ creset \in [Clients -> Resets]

\* A client that writes and the server that answers it never wait for each
\* other with both sockets full, because the client reads what is there before
\* it takes a new line (client-io.c:70, before 85).
NeverStuck ==
    \A c \in Clients :
        ~ /\ at[c] = "send" /\ Len(inbox[c]) = Inbox
          /\ conn[c] = "writing" /\ ~gone[c] /\ ~Room(c)

\* A server that lives closes on a client only at its "server quit" (or a line
\* that ends in it, of which a read of 64 bytes may have left just that), or after
\* the end of its input and then without dropping a line: no client is told
\* "prematurely", reset or killed by SIGPIPE while none of that happened
\* (server-io.c:37-49, client-io.c:72-79, 89).
NotCutShort ==
    \A c \in Clients :
        listening /\ ~asked[c] =>
            /\ creset[c] = "no" /\ at[c] \notin {"premature", "killed", "refused"}
            /\ seof[c] => stdineof[c]

\* Every client ends, each in its turn, whatever the others do: the end of its
\* input, passed on by shutdown (client-io.c:89), ends the server's loop, whose
\* close ends the client's.
ClientEnds == \A c \in Clients : <>(at[c] \in Final)
=============================================================================
