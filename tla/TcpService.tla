----------------------------- MODULE TcpService -----------------------------
(***************************************************************************)
(* TCP connections as the servers of socket-chapter5, 6 and 26 see them,   *)
(* and handle_info, the loop that serves one of them: read what the client *)
(* has sent, answer with a line, until "server quit" or end of file.  Who  *)
(* runs the loop (the select loop, a child process, a thread) is for the   *)
(* module of each server to say.                                           *)
(*                                                                         *)
(* The stream keeps no message boundaries: one read takes 64 bytes at      *)
(* most, which are one or more of the messages that wait, and perhaps the  *)
(* beginning of the next.  A client leaves by closing its socket (fin      *)
(* travels after its data), or, if it has not read every answer, its       *)
(* kernel resets the connection; so does an answer to a client that left.  *)
(***************************************************************************)
EXTENDS Integers, Sequences, FiniteSets

CONSTANTS
    Clients,
    Message,      \* what a client may write at a time, 64 bytes at most: "line",
                  \* "server quit", "say server quit" (a line that ends in it)
    Leaving,      \* those that may close their socket, or die, at any moment
    Inbox,        \* how many unread messages the socket of the server holds
    Outbox,       \* how many unread answers the socket of a client holds
    Again         \* whether a client comes back after the server closed

ASSUME ServiceAssumption ==
    /\ IsFiniteSet(Clients) /\ Leaving \subseteq Clients
    /\ "line" \in Message
    /\ Inbox \in Nat \ {0} /\ Outbox \in Nat \ {0} /\ Again \in BOOLEAN

VARIABLES
    conn,      \* the connection of each client, as far as the server is with it
    inbox,     \* messages the server has not read
    answers,   \* answers the client has not read
    fin,       \* the client has closed its half
    gone,      \* the client has closed its socket, or died
    reset      \* a reset is on its way, has arrived, was told to the server

serviceVars == <<conn, inbox, answers, fin, gone, reset>>

Stages  == {"away", "queued", "accepted", "reading", "writing", "over", "left"}
Served  == {"accepted", "reading", "writing", "over"}
Resets  == {"no", "due", "yes", "told"}

ServiceInit ==
    /\ conn    = [c \in Clients |-> "away"]
    /\ inbox   = [c \in Clients |-> <<>>]
    /\ answers = [c \in Clients |-> 0]
    /\ fin     = [c \in Clients |-> FALSE]
    /\ gone    = [c \in Clients |-> FALSE]
    /\ reset   = [c \in Clients |-> "no"]

\* Every connection holds values of its kind.
ServiceTypeOK ==
    /\ conn \in [Clients -> Stages]
    /\ inbox \in [Clients -> Seq(Message)]
    /\ answers \in [Clients -> 0..Outbox]
    /\ fin \in [Clients -> BOOLEAN] /\ gone \in [Clients -> BOOLEAN]
    /\ reset \in [Clients -> Resets]

Stage(c, s) == conn' = [conn EXCEPT ![c] = s]
Linked(c)   == conn[c] \notin {"away", "left"}

-----------------------------------------------------------------------------
(* The clients and the network *)

Connect(c) ==
    /\ conn[c] = "away"
    /\ Stage(c, "queued")
    /\ UNCHANGED <<inbox, answers, fin, gone, reset>>

Send(c) ==
    /\ Linked(c) /\ ~fin[c] /\ ~gone[c] /\ Len(inbox[c]) < Inbox
    /\ \E m \in Message : inbox' = [inbox EXCEPT ![c] = Append(@, m)]
    /\ UNCHANGED <<conn, answers, fin, gone, reset>>

\* shutdown(cfd, SHUT_WR) at the end of the client's standard input.
HalfClose(c) ==
    /\ Linked(c) /\ ~fin[c] /\ ~gone[c]
    /\ fin' = [fin EXCEPT ![c] = TRUE]
    /\ UNCHANGED <<conn, inbox, answers, gone, reset>>

\* One read takes one or more answers.
Receive(c) ==
    /\ Linked(c) /\ ~gone[c]
    /\ \E n \in 1..answers[c] : answers' = [answers EXCEPT ![c] = @ - n]
    /\ UNCHANGED <<conn, inbox, fin, gone, reset>>

\* "quit", or the end of the client's process; what it has not read is lost.
Leave(c) ==
    /\ c \in Leaving /\ Linked(c) /\ ~gone[c]
    /\ gone' = [gone EXCEPT ![c] = TRUE]
    /\ IF answers[c] > 0 THEN reset' = [reset EXCEPT ![c] = "due"] /\ UNCHANGED fin
                         ELSE fin' = [fin EXCEPT ![c] = TRUE] /\ UNCHANGED reset
    /\ answers' = [answers EXCEPT ![c] = 0]
    /\ UNCHANGED <<conn, inbox>>

ResetArrives(c) ==
    /\ Linked(c) /\ reset[c] = "due"
    /\ reset' = [reset EXCEPT ![c] = "yes"]
    /\ UNCHANGED <<conn, inbox, answers, fin, gone>>

Client(c) == Connect(c) \/ Send(c) \/ HalfClose(c) \/ Receive(c) \/ Leave(c) \/ ResetArrives(c)

-----------------------------------------------------------------------------
(* The socket calls of the server *)

\* A read would not block.
Readable(c) == reset[c] = "yes" \/ inbox[c] # <<>> \/ fin[c]

\* The connections in S are over.
Ended(S, s) ==
    LET Anew(f, v) == [c \in Clients |-> IF c \in S THEN v ELSE f[c]]
    IN  /\ conn' = Anew(conn, s)
        /\ inbox' = Anew(inbox, <<>>) /\ answers' = Anew(answers, 0)
        /\ fin' = Anew(fin, FALSE) /\ gone' = Anew(gone, FALSE) /\ reset' = Anew(reset, "no")

\* close: the client sees the end of file and leaves.
Hangup(c) == Ended({c}, IF Again THEN "away" ELSE "left")

\* What is left of a message when a read has taken its beginning.
Rests(m) == IF m = "say server quit" THEN Message ELSE {"line"}

\* What is left in the socket when a read has taken n messages, the beginning of
\* the next included if cut; a message fits, so that the first is taken whole.
Remainders(q, n, cut) ==
    IF cut THEN {<<m>> \o SubSeq(q, n + 2, Len(q)) : m \in Rests(q[n + 1])}
           ELSE {SubSeq(q, n + 1, Len(q))}

\* The read of handle_info.  "server quit" is recognised when it comes first,
\* alone or cut off from what follows by the NUL that client-io sends after it.
\* A reset is told once nothing else is left to read: the -1 becomes an enormous
\* length in the unsigned rd_size, a byte below the buffer is overwritten, and
\* what the buffer held before is answered like a line.
Read(c) ==
    /\ conn[c] = "reading"
    /\ \/ /\ inbox[c] = <<>> /\ fin[c]
          /\ Stage(c, "over") /\ UNCHANGED <<inbox, reset>>
       \/ /\ inbox[c] = <<>> /\ ~fin[c] /\ reset[c] = "yes"
          /\ reset' = [reset EXCEPT ![c] = "told"]
          /\ Stage(c, "writing") /\ UNCHANGED inbox
       \/ \E n \in 1..Len(inbox[c]), cut \in BOOLEAN :
            /\ cut => n < Len(inbox[c])
            /\ \E q \in Remainders(inbox[c], n, cut) : inbox' = [inbox EXCEPT ![c] = q]
            /\ \/ Head(inbox[c]) = "server quit" /\ Stage(c, "over")
               \/ (Head(inbox[c]) # "server quit" \/ n > 1 \/ cut) /\ Stage(c, "writing")
            /\ UNCHANGED reset
    /\ UNCHANGED <<answers, fin, gone>>

Room(c) == answers[c] < Outbox

\* The write of handle_info blocks while the client's socket is full.  It fails,
\* and the loop ends, when it is the first to be told of a reset.
Write(c) ==
    /\ conn[c] = "writing"
    /\ \/ /\ reset[c] \in {"no", "due"} /\ gone[c]
          /\ reset' = [reset EXCEPT ![c] = "due"]
          /\ Stage(c, "reading") /\ UNCHANGED answers
       \/ /\ reset[c] \in {"no", "due"} /\ ~gone[c] /\ Room(c)
          /\ answers' = [answers EXCEPT ![c] = @ + 1]
          /\ Stage(c, "reading") /\ UNCHANGED reset
       \/ /\ reset[c] = "yes" /\ ~fin[c]
          /\ Stage(c, "over") /\ UNCHANGED <<answers, reset>>
    /\ UNCHANGED <<inbox, fin, gone>>

\* A write after the reset was told, or after the end of file came before it,
\* raises SIGPIPE.  No server here handles that signal: the process is killed.
Sigpipe(c) == conn[c] = "writing" /\ (reset[c] = "told" \/ (reset[c] = "yes" /\ fin[c]))
=============================================================================
