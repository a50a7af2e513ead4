---------------------------- MODULE SelectServer ----------------------------
(***************************************************************************)
(* socket-chapter6/server-select.c: one thread, one table of connections,  *)
(* select to wait for any of them.  Descriptors are numbered as the kernel *)
(* numbers them: accept returns the lowest one that is free.  Those below  *)
(* the listening socket stay open (standard input, output and error).      *)
(*                                                                         *)
(* The server installs no signal handler, so no call returns EINTR.        *)
(***************************************************************************)
EXTENDS TcpService

CONSTANTS
    FD_SETSIZE,   \* the descriptors an fd_set holds, and the slots of cfds
    Limit,        \* RLIMIT_NOFILE: accept fails when it would reach this one
    lfd,          \* the listening socket
    None          \* no client

ASSUME SelectAssumption ==
    /\ FD_SETSIZE \in Nat /\ Limit \in Nat /\ lfd \in Nat
    /\ lfd < FD_SETSIZE /\ lfd < Limit /\ None \notin Clients

VARIABLES
    pc,
    cfds,        \* the table: slot -> descriptor, -1 when empty
    all_set,     \* the descriptors select waits for
    rd_set,      \* those it found readable
    maxfd, max_index,
    i, cfd, fd_num,
    client       \* the client at the other end of each descriptor, or None

tableVars == <<cfds, all_set, maxfd, max_index>>
localVars == <<rd_set, i, cfd, fd_num>>
vars == <<serviceVars, pc, tableVars, localVars, client>>

Index == 0..(FD_SETSIZE - 1)
Fd    == (lfd + 1)..(Limit - 1)
Vacant == -1
Slots == {k \in Index : cfds[k] # Vacant}
Open  == {f \in Fd : client[f] # None}

Init ==
    /\ ServiceInit
    /\ pc = "select"
    /\ cfds = [k \in Index |-> Vacant]
    /\ all_set = {lfd} /\ rd_set = {}
    /\ maxfd = lfd /\ max_index = 0
    /\ i = 0 /\ cfd = 0 /\ fd_num = 0
    /\ client = [f \in Fd |-> None]

-----------------------------------------------------------------------------
Ready(f) == IF f = lfd THEN \E c \in Clients : conn[c] = "queued"
                       ELSE Readable(client[f])

\* rd_set = all_set; select blocks until something in it is readable.
Select ==
    LET ready == {f \in all_set : f <= maxfd /\ Ready(f)}
    IN  /\ pc = "select" /\ ready # {}
        /\ rd_set' = ready /\ fd_num' = Cardinality(ready)
        /\ IF lfd \in ready THEN pc' = "accept" /\ UNCHANGED i
                            ELSE pc' = "scan" /\ i' = 0
        /\ UNCHANGED <<serviceVars, tableVars, cfd, client>>

\* No descriptor or no memory is left: the server closes lfd and ends, and its
\* connections end with it.
AcceptError ==
    /\ pc = "accept"
    /\ cfd' = -1 /\ pc' = "ended"
    /\ UNCHANGED <<serviceVars, tableVars, rd_set, i, fd_num, client>>

Accepted(c, f) ==
    /\ conn[c] = "queued" /\ Stage(c, "accepted")
    /\ f \in Fd \ Open /\ \A g \in Fd \ Open : f <= g
    /\ client' = [client EXCEPT ![f] = c]
    /\ cfd' = f
    /\ UNCHANGED <<inbox, answers, fin, gone, reset>>

\* The first empty slot of the table takes the descriptor.
FirstEmpty(k) == cfds[k] = Vacant /\ \A j \in Index : cfds[j] = Vacant => k <= j

HighWaterForgotten(k) == max_index
HighWater(k) == IF k > max_index THEN k ELSE max_index

\* "too many clients!" ends the server; otherwise the new descriptor is watched.
Watch(f) ==
    IF Slots = Index
    THEN pc' = "too many" /\ UNCHANGED <<tableVars, i, fd_num>>
    ELSE /\ \E k \in Index : /\ FirstEmpty(k)
                             /\ cfds' = [cfds EXCEPT ![k] = f]
                             /\ max_index' = HighWater(k)
         /\ all_set' = all_set \cup {f}
         /\ maxfd' = IF f > maxfd THEN f ELSE maxfd
         /\ fd_num' = fd_num - 1
         /\ IF fd_num' <= 0 THEN pc' = "select" /\ UNCHANGED i ELSE pc' = "scan" /\ i' = 0

Accept ==
    /\ pc = "accept"
    /\ \E c \in Clients, f \in Fd :
        Accepted(c, f) /\ (f < FD_SETSIZE \/ Slots = Index) /\ Watch(f)
    /\ UNCHANGED rd_set

\* FD_SET of a descriptor an fd_set has no bit for writes beyond all_set.
Overflow ==
    /\ pc = "accept" /\ Slots # Index
    /\ \E c \in Clients, f \in Fd : Accepted(c, f) /\ f >= FD_SETSIZE
    /\ pc' = "overflow"
    /\ UNCHANGED <<tableVars, rd_set, i, fd_num>>

-----------------------------------------------------------------------------
\* One turn of the for loop over the table: an empty slot is passed over; a
\* descriptor of all_set (not of rd_set) is served.
Scan ==
    /\ pc = "scan"
    /\ IF i > max_index
       THEN pc' = "select" /\ UNCHANGED <<conn, i, cfd>>
       ELSE /\ cfd' = cfds[i]
            /\ IF cfds[i] < 0 THEN i' = i + 1 /\ UNCHANGED <<pc, conn>>
               ELSE IF cfds[i] \in all_set
               THEN Stage(client[cfds[i]], "reading") /\ pc' = "serve" /\ UNCHANGED i
               ELSE pc' = "next" /\ UNCHANGED <<i, conn>>
    /\ UNCHANGED <<inbox, answers, fin, gone, reset, tableVars, rd_set, fd_num, client>>

\* The server is in handle_info until this client is done.
Serve ==
    /\ pc = "serve"
    /\ Read(client[cfd]) \/ Write(client[cfd])
    /\ UNCHANGED <<pc, tableVars, localVars, client>>

Killed ==
    /\ pc = "serve" /\ Sigpipe(client[cfd])
    /\ pc' = "killed"
    /\ UNCHANGED <<serviceVars, tableVars, localVars, client>>

EmptiedNot(k) == cfds
Emptied(k) == [cfds EXCEPT ![k] = Vacant]

ReleasedNot(f) == client
Released(f) == [client EXCEPT ![f] = None]

Close ==
    /\ pc = "serve" /\ conn[client[cfd]] = "over"
    /\ Hangup(client[cfd])
    /\ client' = Released(cfd)
    /\ cfds' = Emptied(i)
    /\ all_set' = all_set \ {cfd}
    /\ pc' = "next"
    /\ UNCHANGED <<maxfd, max_index, localVars>>

\* Is there anything left to do?
NextSlot ==
    /\ pc = "next"
    /\ fd_num' = fd_num - 1
    /\ IF fd_num' <= 0 THEN pc' = "select" /\ UNCHANGED i ELSE pc' = "scan" /\ i' = i + 1
    /\ UNCHANGED <<serviceVars, tableVars, rd_set, cfd, client>>

-----------------------------------------------------------------------------
Running == pc \notin {"ended", "too many", "overflow", "killed"}

Server == Select \/ AcceptError \/ Accept \/ Overflow
          \/ Scan \/ Serve \/ Killed \/ Close \/ NextSlot

ClientStep(c) == Running /\ Client(c) /\ UNCHANGED <<pc, tableVars, localVars, client>>

Next == Server \/ \E c \in Clients : ClientStep(c)

Spec == Init /\ [][Next]_vars

\* The server runs; a client that stays reads its answers and closes in the
\* end; a reset that is due arrives.
Patient(c, A) == Running /\ A /\ UNCHANGED <<pc, tableVars, localVars, client>>
FairSpec ==
    /\ Spec /\ WF_vars(Server)
    /\ \A c \in Clients : /\ WF_vars(Patient(c, Receive(c)))
                          /\ WF_vars(Patient(c, HalfClose(c)))
                          /\ WF_vars(Patient(c, ResetArrives(c)))
=============================================================================
