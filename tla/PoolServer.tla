----------------------------- MODULE PoolServer -----------------------------
(***************************************************************************)
(* socket-chapter26/procpool-server.c: PROCNUM workers accept on one       *)
(* listening socket, and the parent sleeps in pause until SIGINT, when it  *)
(* kills them, waits for them and ends.                                    *)
(*                                                                         *)
(* The workers are forked before the handler of SIGINT is installed, so    *)
(* SIGINT kills a worker, and the parent, too, until then.  A process for  *)
(* which fork fails becomes a worker itself: that is the parent.  Nobody   *)
(* replaces, or waits for, a worker that ends before SIGINT.               *)
(***************************************************************************)
EXTENDS TcpService

CONSTANTS
    PROCNUM,
    None

ASSUME PoolAssumption == PROCNUM \in Nat \ {0} /\ None \notin Clients

VARIABLES
    at,           \* where each process is
    i,            \* the counter of the loop that creates, then of the one that kills
    cfd,          \* the connection each process serves
    interrupted,  \* SIGINT has been sent
    signals       \* processes that are yet to take SIGINT or SIGTERM

poolVars == <<at, i, cfd, interrupted, signals>>
vars == <<serviceVars, poolVars>>

Workers == 0..(PROCNUM - 1)
Parent  == -1
Processes == Workers \cup {Parent}

Init ==
    /\ ServiceInit
    /\ at = [p \in Processes |-> IF p = Parent THEN "create" ELSE "none"]
    /\ i = 0
    /\ cfd = [p \in Processes |-> None]
    /\ interrupted = FALSE /\ signals = {}

Goes(p, s) == at' = [at EXCEPT ![p] = s]
Alive(p)   == at[p] \notin {"none", "zombie", "ended"}

-----------------------------------------------------------------------------
(* The parent *)

\* pids[i] = create_child(i, lfd)
Create ==
    /\ at[Parent] = "create" /\ i < PROCNUM
    /\ \/ at' = [at EXCEPT ![i] = "accept"] /\ i' = i + 1
       \/ Goes(Parent, "accept") /\ UNCHANGED i
    /\ UNCHANGED <<serviceVars, cfd, interrupted, signals>>

\* signal(SIGINT, sig_int), then pause.
Install ==
    /\ at[Parent] = "create" /\ i = PROCNUM
    /\ Goes(Parent, "pause")
    /\ UNCHANGED <<serviceVars, i, cfd, interrupted, signals>>

SigInt ==
    /\ at[Parent] = "pause" /\ Parent \in signals
    /\ Goes(Parent, "kill") /\ i' = 0 /\ signals' = signals \ {Parent}
    /\ UNCHANGED <<serviceVars, cfd, interrupted>>

ButTheLast == PROCNUM - 1
ToKill == PROCNUM

\* kill(pids[i], SIGTERM); one that has ended is still there to take it.
Kill ==
    /\ at[Parent] = "kill"
    /\ IF i < ToKill
       THEN /\ signals' = IF Alive(i) THEN signals \cup {i} ELSE signals
            /\ i' = i + 1 /\ UNCHANGED at
       ELSE Goes(Parent, "wait") /\ UNCHANGED <<i, signals>>
    /\ UNCHANGED <<serviceVars, cfd, interrupted>>

Zombies  == {w \in Workers : at[w] = "zombie"}
Children == {w \in Workers : at[w] # "none"}

Queue == {c \in Clients : conn[c] = "queued"}

\* wait(NULL) until there is no child left; then exit(0), and with the last
\* descriptor of the listening socket whoever is queued is refused.
Wait ==
    /\ at[Parent] = "wait"
    /\ \/ (\E w \in Zombies : Goes(w, "none")) /\ UNCHANGED serviceVars
       \/ Children = {} /\ Goes(Parent, "ended") /\ Ended(Queue, "left")
    /\ UNCHANGED <<i, cfd, interrupted, signals>>

-----------------------------------------------------------------------------
(* child_main, in a worker or in the parent *)

\* When getsockname fails, handle_info returns at once.
Accept(p) ==
    /\ at[p] = "accept"
    /\ \E c \in Clients :
         /\ conn[c] = "queued" /\ cfd' = [cfd EXCEPT ![p] = c]
         /\ \E s \in {"reading", "over"} : Stage(c, s)
    /\ Goes(p, "serve")
    /\ UNCHANGED <<inbox, answers, fin, gone, reset, i, interrupted, signals>>

Serve(p) ==
    /\ at[p] = "serve"
    /\ Read(cfd[p]) \/ Write(cfd[p])
    /\ UNCHANGED poolVars

LeftOpen(c) == UNCHANGED serviceVars
Closed(c) == Hangup(c)

Close(p) ==
    /\ at[p] = "serve" /\ conn[cfd[p]] = "over"
    /\ Closed(cfd[p])
    /\ cfd' = [cfd EXCEPT ![p] = None] /\ Goes(p, "accept")
    /\ UNCHANGED <<i, interrupted, signals>>

\* The process ends, and its connection with it; without a parent, init waits
\* for it.  The last to have the listening socket takes the queue along.
Ends(p) ==
    LET last == \A q \in Processes \ {p} : ~Alive(q)
    IN  /\ at' = [q \in Processes |->
             IF q = p THEN IF p # Parent /\ Alive(Parent) THEN "zombie" ELSE "ended"
             ELSE IF p = Parent /\ at[q] = "zombie" THEN "ended" ELSE at[q]]
        /\ cfd' = [cfd EXCEPT ![p] = None] /\ signals' = signals \ {p}
        /\ Ended({c \in Clients : c = cfd[p] \/ (last /\ c \in Queue)},
                 IF Again /\ ~last THEN "away" ELSE "left")
        /\ UNCHANGED <<i, interrupted>>

AcceptError(p) == at[p] = "accept" /\ Ends(p)
Killed(p)      == at[p] = "serve" /\ Sigpipe(cfd[p]) /\ Ends(p)

\* SIGTERM, or SIGINT where no handler is installed.
Terminated(p) == p \in signals /\ at[p] \in {"create", "accept", "serve"} /\ Ends(p)

-----------------------------------------------------------------------------
\* From the terminal SIGINT goes to every process, from kill to the parent.
Interrupt ==
    /\ Alive(Parent) /\ ~interrupted /\ interrupted' = TRUE
    /\ \/ signals' = {Parent}
       \/ signals' = {p \in Processes : Alive(p)}
    /\ UNCHANGED <<serviceVars, at, i, cfd>>

ParentStep == Create \/ Install \/ SigInt \/ Kill \/ Wait
Process(p) == Accept(p) \/ Serve(p) \/ Close(p) \/ Killed(p)

Around(A) == A /\ UNCHANGED poolVars
ClientStep(c) == Around(Client(c) /\ (conn[c] = "away" => \E p \in Processes : Alive(p)))

Next == ParentStep \/ (\E p \in Processes : Process(p) \/ AcceptError(p) \/ Terminated(p))
        \/ Interrupt \/ (\E c \in Clients : ClientStep(c))

Spec == Init /\ [][Next]_vars

\* Every process runs and takes the signals sent to it, but accept need not fail
\* and nobody need press ^C; a client that stays reads its answers and closes in
\* the end; a reset that is due arrives.
FairSpec ==
    /\ Spec /\ WF_vars(ParentStep)
    /\ \A p \in Processes : WF_vars(Process(p)) /\ WF_vars(Terminated(p))
    /\ \A c \in Clients : /\ WF_vars(Around(Receive(c)))
                          /\ WF_vars(Around(HalfClose(c)))
                          /\ WF_vars(Around(ResetArrives(c)))
=============================================================================
