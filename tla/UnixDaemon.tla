----------------------------- MODULE UnixDaemon -----------------------------
(***************************************************************************)
(* tlpi-chapter56-61: server.c, a daemon that prints what its clients      *)
(* send to the AF_UNIX socket "server", and client.c, which sends it the   *)
(* lines of its standard input.  The socket is a file: bind creates it and *)
(* fails if there is one, connect finds the daemon by it, and nothing but  *)
(* the remove at the end of a daemon (or somebody's rm) takes it away.     *)
(*                                                                         *)
(* An element of Daemons is one start of the server program, one of        *)
(* Users one start of the client program.  The server writes nothing to  *)
(* its clients, and they read nothing.                                     *)
(***************************************************************************)
EXTENDS Integers, Sequences, FiniteSets

CONSTANTS
    Daemons, Users,
    Backlog,      \* the argument of listen
    Buffer,       \* how many unread lines a socket holds
    Lines,        \* how many lines a user types at most
    NoOne         \* no file, no daemon, no client

ASSUME DaemonAssumption ==
    /\ NoOne \notin Daemons \cup Users
    /\ Backlog \in Nat /\ Buffer \in Nat \ {0} /\ Lines \in Nat

VARIABLES
    file,        \* the daemon whose socket the file "server" is, or None
    pc, cfd, exit_flag,
    backlog,     \* connections each daemon has not accepted
    user,        \* where each client is
    link,        \* the daemon its socket is connected to
    hung,        \* that daemon has closed its end
    sent, got,   \* lines it has written; how many of them were read
    part         \* so was the beginning of the next, by a read of 64 bytes

daemonVars == <<pc, cfd, exit_flag>>
clientVars == <<user, link, sent>>
readVars == <<got, part>>
unixVars == <<file, daemonVars, backlog, clientVars, hung, readVars>>

Line == {"line", "server stop", "quit"}

DaemonInit ==
    /\ file = NoOne
    /\ pc        = [d \in Daemons |-> "new"]
    /\ cfd       = [d \in Daemons |-> NoOne]
    /\ exit_flag = [d \in Daemons |-> FALSE]
    /\ backlog   = [d \in Daemons |-> <<>>]
    /\ user = [c \in Users |-> "new"]
    /\ link = [c \in Users |-> NoOne]
    /\ hung = [c \in Users |-> FALSE]
    /\ sent = [c \in Users |-> <<>>]
    /\ got  = [c \in Users |-> 0]
    /\ part = [c \in Users |-> FALSE]

Goto(d, l) == pc' = [pc EXCEPT ![d] = l]
Unread(c)  == Len(sent[c]) - got[c]

-----------------------------------------------------------------------------
(* The daemon *)

\* Two forks: whatever becomes of the grandchild, its parents exit with 0.
Start(d) ==
    /\ pc[d] = "new"
    /\ Goto(d, "started") \/ Goto(d, "ended")
    /\ UNCHANGED <<file, cfd, exit_flag, backlog, clientVars, hung, readVars>>

Unlinked == TRUE
Unbound == file = NoOne

\* bind: a file that is there, of whatever daemon, ends this one.
Bind(d) ==
    /\ pc[d] = "started"
    /\ IF Unbound THEN file' = d /\ Goto(d, "bound") ELSE Goto(d, "ended") /\ UNCHANGED file
    /\ UNCHANGED <<cfd, exit_flag, backlog, clientVars, hung, readVars>>

Listen(d) ==
    /\ pc[d] = "bound" /\ Goto(d, "accept")
    /\ UNCHANGED <<file, cfd, exit_flag, backlog, clientVars, hung, readVars>>

Accept(d) ==
    /\ pc[d] = "accept" /\ backlog[d] # <<>>
    /\ cfd' = [cfd EXCEPT ![d] = Head(backlog[d])]
    /\ backlog' = [backlog EXCEPT ![d] = Tail(@)]
    /\ Goto(d, "read")
    /\ UNCHANGED <<file, exit_flag, clientVars, hung, readVars>>

\* The comparison: "server stop" stops the daemon only if a read returns just
\* that, and so may the rest of another line, cut off from its beginning.
Stopped(c, n, cut) ==
    IF n > 1 \/ cut THEN {FALSE}
    ELSE IF part[c] THEN {FALSE, sent[c][got[c] + 1] = "line"}
    ELSE {sent[c][got[c] + 1] = "server stop"}

\* read(cfd, rd_buf, 64) and write to standard output.  A line has 64 bytes at
\* most: the first comes whole, or what is left of it, the last may be cut.
Read(d) ==
    LET c == cfd[d]
    IN  /\ pc[d] = "read"
        /\ \E n \in 1..Unread(c), cut \in BOOLEAN :
            /\ cut => n < Unread(c)
            /\ got' = [got EXCEPT ![c] = @ + n] /\ part' = [part EXCEPT ![c] = cut]
            /\ \E stop \in Stopped(c, n, cut) :
                IF stop THEN exit_flag' = [exit_flag EXCEPT ![d] = TRUE] /\ Goto(d, "close")
                ELSE UNCHANGED <<exit_flag, pc>>
        /\ UNCHANGED <<file, cfd, backlog, clientVars, hung>>

\* The end of file comes after everything the client has written.
AtEndEarly(c) == user[c] = "ended"
AtEndWhenIdle(c) == Unread(c) = 0
AtEnd(c) == Unread(c) = 0 /\ user[c] = "ended"

ReadEnd(d) ==
    /\ pc[d] = "read" /\ AtEnd(cfd[d])
    /\ Goto(d, "close")
    /\ UNCHANGED <<file, cfd, exit_flag, backlog, clientVars, hung, readVars>>

LoopsForever(d) == TRUE
Loops(d) == ~exit_flag[d]

\* close(cfd), and the condition of the outer loop.
Close(d) ==
    /\ pc[d] = "close"
    /\ hung' = [hung EXCEPT ![cfd[d]] = TRUE]
    /\ cfd'  = [cfd EXCEPT ![d] = NoOne]
    /\ Goto(d, IF Loops(d) THEN "accept" ELSE "stop")
    /\ UNCHANGED <<file, exit_flag, backlog, clientVars, readVars>>

\* Whoever is connected to d is cut off.
CutOff(d) ==
    /\ hung' = [c \in Users |-> hung[c] \/ link[c] = d]
    /\ backlog' = [backlog EXCEPT ![d] = <<>>]

\* close(sfd): the connections nobody accepted end with it.
CloseListening(d) ==
    /\ pc[d] = "stop"
    /\ CutOff(d) /\ Goto(d, "remove")
    /\ UNCHANGED <<file, cfd, exit_flag, clientVars, readVars>>

\* remove("server"), whosever file that is.
RemoveFile(d) ==
    /\ pc[d] = "remove"
    /\ file' = NoOne /\ Goto(d, "ended")
    /\ UNCHANGED <<cfd, exit_flag, backlog, clientVars, hung, readVars>>

\* A call fails and the daemon ends by _exit, or a signal ends it: no handler
\* is installed.  The sockets close, and the file stays.
Die(d) ==
    /\ pc[d] \notin {"new", "ended"}
    /\ Goto(d, "ended") /\ CutOff(d)
    /\ cfd' = [cfd EXCEPT ![d] = NoOne]
    /\ UNCHANGED <<file, exit_flag, clientVars, readVars>>

\* Somebody removes the file a dead daemon has left.
Tidy ==
    /\ file # NoOne /\ pc[file] = "ended"
    /\ file' = NoOne
    /\ UNCHANGED <<daemonVars, backlog, clientVars, hung, readVars>>

-----------------------------------------------------------------------------
(* The client *)

\* From listen to close(sfd), the moment before that close included.
Listening(d) == d # NoOne /\ pc[d] \in {"accept", "read", "close", "stop"}

\* listen(sfd, n) lets n + 1 connections wait; the next connect waits too.
Admits(d) == Len(backlog[d]) <= Backlog

Connect(c) ==
    /\ user[c] = "new" /\ Listening(file) /\ Admits(file)
    /\ backlog' = [backlog EXCEPT ![file] = Append(@, c)]
    /\ link' = [link EXCEPT ![c] = file]
    /\ user' = [user EXCEPT ![c] = "typing"]
    /\ UNCHANGED <<file, daemonVars, hung, sent, readVars>>

\* No file, or a file of a socket that does not listen.
Refused(c) ==
    /\ user[c] = "new" /\ ~Listening(file)
    /\ user' = [user EXCEPT ![c] = "ended"]
    /\ UNCHANGED <<file, daemonVars, backlog, link, hung, sent, readVars>>

\* A line is written to the socket, "quit" too, which ends the loop.
Type(c) ==
    /\ user[c] = "typing" /\ ~hung[c]
    /\ Len(sent[c]) < Lines /\ Unread(c) < Buffer
    /\ \E m \in Line :
        /\ sent' = [sent EXCEPT ![c] = Append(@, m)]
        /\ user' = [user EXCEPT ![c] = IF m = "quit" THEN "leaving" ELSE "typing"]
    /\ UNCHANGED <<file, daemonVars, backlog, link, hung, readVars>>

\* A line written after the daemon has closed: SIGPIPE.
Sigpipe(c) ==
    /\ user[c] = "typing" /\ hung[c]
    /\ user' = [user EXCEPT ![c] = "cut"]
    /\ UNCHANGED <<file, daemonVars, backlog, link, hung, sent, readVars>>

\* "quit", the end of the input, or the end of the process.
Leave(c) ==
    /\ user[c] \in {"typing", "leaving"}
    /\ user' = [user EXCEPT ![c] = "ended"]
    /\ UNCHANGED <<file, daemonVars, backlog, link, hung, sent, readVars>>

-----------------------------------------------------------------------------
Run(d) == Bind(d) \/ Listen(d) \/ Accept(d) \/ Read(d) \/ ReadEnd(d) \/ Close(d)
          \/ CloseListening(d) \/ RemoveFile(d)

User(c) == Connect(c) \/ Refused(c) \/ Type(c) \/ Sigpipe(c) \/ Leave(c)

DaemonNext ==
    \/ \E d \in Daemons : Start(d) \/ Run(d) \/ Die(d)
    \/ Tidy
    \/ \E c \in Users : User(c)

DaemonSpec == DaemonInit /\ [][DaemonNext]_unixVars

\* A daemon that can go on does, and every user ends in the end.
DaemonFairSpec ==
    /\ DaemonSpec
    /\ \A d \in Daemons : WF_unixVars(Run(d))
    /\ \A c \in Users : WF_unixVars(Leave(c))
=============================================================================
