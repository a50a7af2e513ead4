---------------------------- MODULE SelectClient ----------------------------
(***************************************************************************)
(* client-io.c (socket-chapter6), and thread-client.c (socket-chapter26),  *)
(* which is the same program: a select loop that prints what the server    *)
(* answers and sends what the user types.  At the end of the standard      *)
(* input it shuts down its half of the connection and goes on printing     *)
(* until the server closes; at "quit" it closes the socket at once.        *)
(*                                                                         *)
(* This module refines the clients of TcpService, which send and read as   *)
(* they like, by the program's control, and adds what TcpService leaves    *)
(* out: the client's end of a connection that the server has closed.       *)
(***************************************************************************)
EXTENDS TcpService

CONSTANT Lines        \* how many lines the user of each client types at most

ASSUME LinesAssumption == Lines \in [Clients -> Nat]

VARIABLES
    listening,    \* the server's listening socket is open
    at,           \* where each client is
    ready,        \* the descriptors its last select reported
    stdineof,     \* it has met the end of its standard input
    line,         \* the line it is about to write
    typed,        \* how many lines its user has typed
    asked,        \* its user has typed a line that ends in "server quit"
    rest,         \* answers it has not read of a server that closed
    seof,         \* the server's end of file has arrived
    creset        \* the server's reset of this connection, as far as it is

userVars   == <<stdineof, line, typed, asked>>
loopVars   == <<at, ready, userVars>>
farVars    == <<rest, seof, creset>>
clientVars == <<loopVars, farVars>>

Working == {"start", "select", "socket", "stdin", "send"}
Final   == {"done", "premature", "killed", "refused"}

ClientInit ==
    /\ ServiceInit
    /\ listening = TRUE
    /\ at       = [c \in Clients |-> "start"]
    /\ ready    = [c \in Clients |-> {}]
    /\ stdineof = [c \in Clients |-> FALSE]
    /\ line     = [c \in Clients |-> "line"]
    /\ typed    = [c \in Clients |-> 0]
    /\ asked    = [c \in Clients |-> FALSE]
    /\ rest     = [c \in Clients |-> 0]
    /\ seof     = [c \in Clients |-> FALSE]
    /\ creset   = [c \in Clients |-> "no"]

Goes(c, l) == at' = [at EXCEPT ![c] = l]

-----------------------------------------------------------------------------
(* The loop of the client *)

Dial(c) ==
    /\ at[c] = "start"
    /\ \/ listening /\ Connect(c) /\ Goes(c, "select")
       \/ ~listening /\ Goes(c, "refused") /\ UNCHANGED serviceVars
    /\ UNCHANGED <<listening, ready, userVars, farVars>>

SocketReadable(c) == answers[c] + rest[c] > 0 \/ seof[c] \/ creset[c] \in {"yes", "told"}

\* The loop looks at the socket first.
LineFirst(r) == IF "stdin" \in r THEN "stdin" ELSE "socket"
FirstOf(r)   == IF "socket" \in r THEN "socket" ELSE "stdin"

\* select reports the socket if it is readable and, until the end of the
\* standard input, perhaps that; it waits for one of them.
Select(c) ==
    /\ at[c] = "select"
    /\ \E r \in (SUBSET {"socket", "stdin"}) \ {{}} :
         /\ "socket" \in r <=> SocketReadable(c)
         /\ "stdin" \in r => ~stdineof[c]
         /\ ready' = [ready EXCEPT ![c] = r]
         /\ Goes(c, FirstOf(r))
    /\ UNCHANGED <<serviceVars, listening, userVars, farVars>>

\* Answers first, then the end of file or the error.  The -1 of the error is no
\* zero, so the loop goes on, and the next read meets the end of file.
ReadSocket(c) ==
    LET Onward == Goes(c, IF "stdin" \in ready[c] THEN "stdin" ELSE "select")
        Empty  == answers[c] + rest[c] = 0
    IN  /\ at[c] = "socket"
        /\ \/ Receive(c) /\ Onward /\ UNCHANGED <<rest, creset>>
           \/ /\ \E n \in 1..rest[c] : rest' = [rest EXCEPT ![c] = @ - n]
              /\ Onward /\ UNCHANGED <<serviceVars, creset>>
           \/ /\ Empty /\ (seof[c] \/ creset[c] = "told")
              /\ Goes(c, IF stdineof[c] THEN "done" ELSE "premature")
              /\ UNCHANGED <<serviceVars, rest, creset>>
           \/ /\ Empty /\ ~seof[c] /\ creset[c] = "yes"
              /\ creset' = [creset EXCEPT ![c] = "told"]
              /\ Onward /\ UNCHANGED <<serviceVars, rest>>
        /\ UNCHANGED <<listening, ready, userVars, seof>>

NoShutdown(c) == UNCHANGED serviceVars
Shutdown(c)   == IF Linked(c) THEN HalfClose(c) ELSE UNCHANGED serviceVars

StdinEnds(c) ==
    /\ stdineof' = [stdineof EXCEPT ![c] = TRUE]
    /\ Shutdown(c)
    /\ Goes(c, "select")
    /\ UNCHANGED <<line, typed, asked>>

Quit(c) ==
    /\ IF Linked(c) THEN Leave(c) ELSE UNCHANGED serviceVars
    /\ Goes(c, "done")
    /\ UNCHANGED userVars

TakeLine(c) ==
    /\ typed[c] < Lines[c]
    /\ typed' = [typed EXCEPT ![c] = @ + 1]
    /\ \E m \in Message : /\ line'  = [line EXCEPT ![c] = m]
                          /\ asked' = [asked EXCEPT ![c] = @ \/ m # "line"]
    /\ Goes(c, "send")
    /\ UNCHANGED <<serviceVars, stdineof>>

ReadStdin(c) ==
    /\ at[c] = "stdin"
    /\ StdinEnds(c) \/ Quit(c) \/ TakeLine(c)
    /\ UNCHANGED <<listening, ready, farVars>>

\* write blocks while the server's socket is full.  After the server closed, the
\* first line brings a reset; a line after the reset is an error, told and not
\* looked at, or SIGPIPE if the end of file or the error was told before.
SendLine(c) ==
    /\ at[c] = "send"
    /\ \/ /\ Linked(c) /\ Send(c)
          /\ inbox'[c] = Append(inbox[c], line[c])
          /\ Goes(c, "select") /\ UNCHANGED creset
       \/ /\ ~Linked(c) /\ creset[c] \in {"no", "due"}
          /\ creset' = [creset EXCEPT ![c] = "due"]
          /\ Goes(c, "select") /\ UNCHANGED serviceVars
       \/ /\ creset[c] = "yes" /\ ~seof[c]
          /\ creset' = [creset EXCEPT ![c] = "told"]
          /\ Goes(c, "select") /\ UNCHANGED serviceVars
       \/ /\ creset[c] = "told" \/ (creset[c] = "yes" /\ seof[c])
          /\ Goes(c, "killed") /\ UNCHANGED <<serviceVars, creset>>
    /\ UNCHANGED <<listening, ready, userVars, rest, seof>>

ClientLoop(c) == Dial(c) \/ Select(c) \/ ReadSocket(c) \/ ReadStdin(c) \/ SendLine(c)

-----------------------------------------------------------------------------
(* The network at the client's end *)

ResetReaches(c) ==
    \/ /\ creset[c] = "due" /\ creset' = [creset EXCEPT ![c] = "yes"]
       /\ UNCHANGED <<serviceVars, listening, loopVars, rest, seof>>
    \/ ResetArrives(c) /\ UNCHANGED <<listening, clientVars>>

\* The server closes the connections in S: with a reset where it leaves messages
\* unread or has not accepted, else with an end of file behind the answers.
ServerCloses(S) ==
    LET Cut  == {c \in S : inbox[c] # <<>> \/ conn[c] = "queued"}
        Live == {c \in S : ~gone[c]}
    IN  /\ Ended(S, "left")
        /\ rest'   = [c \in Clients |-> IF c \in Live THEN answers[c] ELSE rest[c]]
        /\ seof'   = [c \in Clients |-> seof[c] \/ c \in Live \ Cut]
        /\ creset' = [c \in Clients |-> IF c \in Live \cap Cut THEN "due" ELSE creset[c]]
        /\ UNCHANGED loopVars
=============================================================================
