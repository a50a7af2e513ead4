----------------------------- MODULE ForkServer -----------------------------
(***************************************************************************)
(* socket-chapter26/procs-server.c and socket-chapter5/server-ex.c: the    *)
(* parent accepts, a child of its own serves each connection, and SIGCHLD  *)
(* brings the parent to wait for the children that ended.                  *)
(*                                                                         *)
(* A descriptor is shared by fork: the client is hung up on when the last  *)
(* process closes its connection, and refused once no process has the      *)
(* listening socket.  SIGCHLD is not queued: however many children end     *)
(* while it is pending or its handler runs, it is delivered once more.     *)
(* Its handler restarts accept, which therefore never returns EINTR.       *)
(***************************************************************************)
EXTENDS TcpService

CONSTANTS
    Procs,        \* the children the parent may have at a time, ended ones included
    Parent, None

Pids == 1..Procs  \* their entries in the process table

ASSUME ForkAssumption ==
    /\ Procs \in Nat /\ Parent \notin Pids /\ None \notin Clients

VARIABLES
    program,      \* which of the two servers this is
    pc, cfd,      \* the parent: where it is, the connection it has at hand
    pending, sig, \* SIGCHLD is pending; its handler runs
    proc, task,   \* the children, and the connection each of them serves
    holders,      \* the processes that have a descriptor of each connection
    listeners     \* those that have one of the listening socket

parentVars == <<program, pc, cfd>>
signalVars == <<pending, sig>>
childVars  == <<proc, task>>
vars == <<serviceVars, parentVars, signalVars, childVars, holders, listeners>>

Init ==
    /\ ServiceInit
    /\ program \in {"procs-server", "server-ex"}
    /\ pc = "accept" /\ cfd = None
    /\ pending = FALSE /\ sig = FALSE
    /\ proc = [p \in Pids |-> "none"] /\ task = [p \in Pids |-> None]
    /\ holders = [c \in Clients |-> {}] /\ listeners = {Parent}

-----------------------------------------------------------------------------
\* Process p closes its descriptors of the connections in S and, if l, that of
\* the listening socket.
Closes(p, S, l) ==
    LET refused == {c \in Clients : conn[c] = "queued" /\ listeners' = {}}
        hungup  == {c \in S : holders[c] = {p}}
    IN  /\ holders' = [c \in Clients |-> IF c \in S THEN holders[c] \ {p} ELSE holders[c]]
        /\ listeners' = IF l THEN listeners \ {p} ELSE listeners
        /\ Ended(hungup \cup refused, IF Again /\ listeners' # {} THEN "away" ELSE "left")

ParentRuns == pc # "exited" /\ ~sig

\* exit(-1): the children are left to init, which waits for them.
ParentExits ==
    /\ pc' = "exited"
    /\ Closes(Parent, Clients, TRUE)
    /\ proc' = [p \in Pids |-> IF proc[p] = "zombie" THEN "none" ELSE proc[p]]
    /\ UNCHANGED <<program, cfd, signalVars, task>>

Accept ==
    /\ pc = "accept" /\ ParentRuns
    /\ \E c \in Clients :
        /\ conn[c] = "queued" /\ Stage(c, "accepted")
        /\ cfd' = c
        /\ holders' = [holders EXCEPT ![c] = {Parent}]
    /\ pc' = "fork"
    /\ UNCHANGED <<inbox, answers, fin, gone, reset, program, signalVars, childVars, listeners>>

AcceptError == pc = "accept" /\ ParentRuns /\ ParentExits

\* The child starts with a copy of every descriptor the parent has.
Fork(p) ==
    /\ pc = "fork" /\ ParentRuns
    /\ proc[p] = "none" /\ \A q \in Pids : proc[q] = "none" => p <= q
    /\ proc' = [proc EXCEPT ![p] = "start"]
    /\ task' = [task EXCEPT ![p] = cfd]
    /\ holders' = [c \in Clients |->
         IF Parent \in holders[c] THEN holders[c] \cup {p} ELSE holders[c]]
    /\ listeners' = listeners \cup {p}
    /\ pc' = "close"
    /\ UNCHANGED <<serviceVars, program, cfd, signalVars>>

\* server-ex takes no notice, and hangs up on the client.
ForkError ==
    /\ pc = "fork" /\ ParentRuns
    /\ \/ program = "procs-server" /\ ParentExits
       \/ /\ program = "server-ex" /\ pc' = "close"
          /\ UNCHANGED <<serviceVars, program, cfd, signalVars, childVars, holders, listeners>>

ForgetToClose == {}
ToClose == {cfd}

ParentCloses ==
    /\ pc = "close" /\ ParentRuns
    /\ Closes(Parent, ToClose, FALSE)
    /\ pc' = "accept" /\ cfd' = None
    /\ UNCHANGED <<program, signalVars, childVars>>

\* server-ex ends when close(cfd) fails.
CloseError == pc = "close" /\ ParentRuns /\ program = "server-ex" /\ ParentExits

-----------------------------------------------------------------------------
(* sig_handle, between any two steps of the parent *)

Deliver ==
    /\ pc # "exited" /\ pending /\ ~sig
    /\ pending' = FALSE /\ sig' = TRUE
    /\ UNCHANGED <<serviceVars, parentVars, childVars, holders, listeners>>

Zombies == {p \in Pids : proc[p] = "zombie"}

WaitOnce == FALSE
WaitAgain == TRUE

\* waitpid(-1, NULL, WNOHANG), until it finds no child that has ended: the
\* handler returns.
Waitpid ==
    /\ pc # "exited" /\ sig
    /\ \/ Zombies = {} /\ sig' = FALSE /\ UNCHANGED proc
       \/ \E p \in Zombies : proc' = [proc EXCEPT ![p] = "none"] /\ sig' = WaitAgain
    /\ UNCHANGED <<serviceVars, parentVars, pending, task, holders, listeners>>

-----------------------------------------------------------------------------
(* A child *)

Becomes(p, s) == proc' = [proc EXCEPT ![p] = s]

CloseListener(p) ==
    /\ proc[p] = "start" /\ Becomes(p, "serve")
    /\ Closes(p, {}, TRUE)
    /\ UNCHANGED <<parentVars, signalVars, task>>

\* handle_info of procs-server returns at once when getsockname fails.
Begin(p) ==
    LET c == task[p]
    IN  /\ proc[p] = "serve" /\ conn[c] = "accepted"
        /\ \/ Stage(c, "reading")
           \/ program = "procs-server" /\ Stage(c, "over")
        /\ UNCHANGED <<inbox, answers, fin, gone, reset, parentVars, signalVars, childVars,
                       holders, listeners>>

\* handle_info or conn_handle; the latter answers "server quit", too.
Serve(p) ==
    LET c == task[p]
    IN  /\ proc[p] = "serve" /\ (Read(c) \/ Write(c))
        /\ IF program = "server-ex" /\ inbox[c] # inbox'[c] /\ conn'[c] = "over"
           THEN Becomes(p, "farewell") ELSE UNCHANGED proc
        /\ UNCHANGED <<parentVars, signalVars, task, holders, listeners>>

\* "server will quit!": it does not matter whether the write succeeds.
Farewell(p) ==
    LET c == task[p]
    IN  /\ proc[p] = "farewell" /\ Becomes(p, "serve")
        /\ \/ /\ reset[c] \in {"no", "due"} /\ gone[c]
              /\ reset' = [reset EXCEPT ![c] = "due"] /\ UNCHANGED answers
           \/ /\ reset[c] \in {"no", "due"} /\ ~gone[c] /\ Room(c)
              /\ answers' = [answers EXCEPT ![c] = @ + 1] /\ UNCHANGED reset
           \/ /\ reset[c] = "yes" /\ ~fin[c] /\ UNCHANGED <<answers, reset>>
        /\ UNCHANGED <<conn, inbox, fin, gone, parentVars, signalVars, task, holders, listeners>>

TaskDone(p) == proc[p] = "serve" /\ conn[task[p]] = "over"

CloseConnection(p) ==
    /\ TaskDone(p) /\ Becomes(p, "exit")
    /\ Closes(p, {task[p]}, FALSE)
    /\ UNCHANGED <<parentVars, signalVars, task>>

\* The kernel closes what is left, keeps the status for the parent to wait for,
\* and sends it SIGCHLD.
Ends(p) ==
    /\ Closes(p, Clients, TRUE)
    /\ IF pc = "exited" THEN Becomes(p, "none") /\ UNCHANGED pending
                        ELSE Becomes(p, "zombie") /\ pending' = TRUE
    /\ UNCHANGED <<parentVars, sig, task>>

Exit(p) == proc[p] = "exit" /\ Ends(p)

Killed(p) ==
    /\ \/ proc[p] = "serve" /\ Sigpipe(task[p])
       \/ proc[p] = "farewell" /\ reset[task[p]] = "yes" /\ fin[task[p]]
    /\ Ends(p)

-----------------------------------------------------------------------------
ParentStep == Accept \/ (\E p \in Pids : Fork(p)) \/ ForkError \/ ParentCloses
Handler    == Deliver \/ Waitpid
Child(p)   == CloseListener(p) \/ Begin(p) \/ Serve(p) \/ Farewell(p)
              \/ CloseConnection(p) \/ Exit(p) \/ Killed(p)

Around(A) == A /\ UNCHANGED <<parentVars, signalVars, childVars, holders, listeners>>
ClientStep(c) == Around(Client(c) /\ (conn[c] = "away" => listeners # {}))

Next == ParentStep \/ AcceptError \/ CloseError \/ Handler
        \/ (\E p \in Pids : Child(p)) \/ (\E c \in Clients : ClientStep(c))

Spec == Init /\ [][Next]_vars

\* Every process runs and a pending signal is delivered, but accept and close
\* need not fail; a client that stays reads its answers and closes in the end; a reset
\* that is due arrives.
FairSpec ==
    /\ Spec /\ WF_vars(ParentStep) /\ WF_vars(Handler)
    /\ \A p \in Pids : WF_vars(Child(p))
    /\ \A c \in Clients : /\ WF_vars(Around(Receive(c)))
                          /\ WF_vars(Around(HalfClose(c)))
                          /\ WF_vars(Around(ResetArrives(c)))
=============================================================================
