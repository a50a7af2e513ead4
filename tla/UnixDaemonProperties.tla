------------------------ MODULE UnixDaemonProperties ------------------------
(* What the daemon and its socket file must guarantee. *)
EXTENDS UnixDaemon

Bound == {"bound", "accept", "read", "close", "stop", "remove"}

\* From bind to remove the file is the daemon's own, the moment between
\* close(sfd) and remove included: two daemons never listen at once, and none
\* removes the file under which another is reached.
OneOwner == \A d \in Daemons : pc[d] \in Bound => file = d

\* The daemon closes a connection before its client does only when it stops or
\* dies: while it goes on, the one it reads and those who wait are not cut off,
\* and each of them is in one place.
NobodyCutShort ==
    \A c \in Users : user[c] \in {"typing", "leaving", "cut"} =>
        LET d == link[c]
        IN  \/ hung[c] /\ (exit_flag[d] \/ pc[d] = "ended")
            \/ ~hung[c] /\ \/ cfd[d] = c /\ pc[d] \in {"read", "close"}
                           \/ \E k \in 1..Len(backlog[d]) : backlog[d][k] = c

\* What a client has written before it ended is read and printed, behind
\* whatever others write, unless the daemon stops or dies first.
AllPrinted ==
    \A c \in Users : user[c] = "ended" /\ link[c] # NoOne
        ~> got[c] = Len(sent[c]) \/ exit_flag[link[c]] \/ pc[link[c]] = "ended"

\* A client that wrote "server stop" and nothing else stops the daemon, however
\* long the others before it stay and whatever they write.
StopHeard ==
    \A c \in Users, d \in Daemons :
        user[c] = "ended" /\ link[c] = d /\ sent[c] = <<"server stop">>
            ~> pc[d] = "ended"
=============================================================================
