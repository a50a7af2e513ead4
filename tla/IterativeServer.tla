-------------------------- MODULE IterativeServer --------------------------
(***************************************************************************)
(* server-io.c (socket-chapter6), the iterative server, with the client    *)
(* programs of SelectClient: main accepts a connection, serves it to its   *)
(* end and closes it before it accepts the next.  The others wait in the   *)
(* backlog, where they may already send.                                   *)
(***************************************************************************)
EXTENDS SelectClient

vars == <<serviceVars, listening, clientVars>>

Idle == \A c \in Clients : conn[c] \notin Served

Accept(c) ==
    /\ listening /\ Idle /\ conn[c] = "queued"
    /\ Stage(c, "reading")
    /\ UNCHANGED <<inbox, answers, fin, gone, reset, listening, clientVars>>

HandleInfo(c) == (Read(c) \/ Write(c)) /\ UNCHANGED <<listening, clientVars>>

OverWhenIdle(c) == conn[c] = "over" \/ (conn[c] = "reading" /\ inbox[c] = <<>>)
Over(c)         == conn[c] = "over"

CloseConnection(c) ==
    /\ Over(c)
    /\ ServerCloses({c})
    /\ UNCHANGED listening

\* The process ends, and the kernel closes what it had open.
ServerEnds ==
    /\ listening /\ listening' = FALSE
    /\ ServerCloses({c \in Clients : Linked(c)})

\* accept fails, and main returns; close fails, and main exits.
AcceptError   == Idle /\ ServerEnds
CloseError(c) == Over(c) /\ ServerEnds

Killed(c) == Sigpipe(c) /\ ServerEnds

Server == \E c \in Clients : Accept(c) \/ HandleInfo(c) \/ CloseConnection(c) \/ Killed(c)

Next ==
    \/ \E c \in Clients : \/ ClientLoop(c) \/ ResetReaches(c)
                          \/ Accept(c) \/ HandleInfo(c) \/ CloseConnection(c)
                          \/ CloseError(c) \/ Killed(c)
    \/ AcceptError

\* The server and the clients run; a user types or ends the input; a reset
\* that is due arrives.  Nothing makes a call fail.
Fairness ==
    /\ WF_vars(Server)
    /\ \A c \in Clients : WF_vars(ClientLoop(c)) /\ WF_vars(ResetReaches(c))

Init == ClientInit
Spec == Init /\ [][Next]_vars /\ Fairness
=============================================================================
