---------------------------- MODULE ThreadServer ----------------------------
(***************************************************************************)
(* socket-chapter26/thread-server.c: the main thread accepts, and starts a *)
(* thread for each connection.  All threads share one table of descriptors *)
(* and one heap.  The descriptor is handed over in a block of its own,     *)
(* which the new thread reads once, when it starts, and frees when it is   *)
(* done; by then the kernel may have given the number to somebody else.    *)
(*                                                                         *)
(* Nothing checks pthread_create: when it fails, the descriptor and the    *)
(* block stay behind, and the client waits.                                *)
(***************************************************************************)
EXTENDS TcpService

CONSTANTS
    Tasks,        \* the threads there may be at a time
    Blocks,       \* what malloc can hand out
    Limit,        \* the number of descriptors for connections
    None

Fd == 1..Limit

ASSUME ThreadAssumption ==
    /\ IsFiniteSet(Tasks) /\ IsFiniteSet(Blocks) /\ Limit \in Nat
    /\ None \notin Clients /\ None \notin Fd /\ None \notin Blocks

VARIABLES
    client,       \* the client at the other end of each open descriptor
    block,        \* what each block of the heap holds; None: it is free
    pc, cfd, pfd, \* the main thread
    at, arg, fd,  \* the other threads: where, their argument, their variable fd
    lost          \* the blocks whose thread was never started

mainVars == <<pc, cfd, pfd>>
taskVars == <<at, arg, fd>>
vars == <<serviceVars, client, block, mainVars, taskVars, lost>>

Init ==
    /\ ServiceInit
    /\ client = [f \in Fd |-> None] /\ block = [b \in Blocks |-> None]
    /\ pc = "accept" /\ cfd = None /\ pfd = None
    /\ at  = [t \in Tasks |-> "none"]
    /\ arg = [t \in Tasks |-> None] /\ fd = [t \in Tasks |-> None]
    /\ lost = {}

Open == {f \in Fd : client[f] # None}
Running == pc # "ended"

\* The process ends: with it its threads, its memory and its connections.
ProcessEnds ==
    /\ Ended({c \in Clients : Linked(c)}, "left")
    /\ client' = [f \in Fd |-> None] /\ block' = [b \in Blocks |-> None]
    /\ pc' = "ended" /\ cfd' = None /\ pfd' = None
    /\ at'  = [t \in Tasks |-> "none"]
    /\ arg' = [t \in Tasks |-> None] /\ fd' = [t \in Tasks |-> None]
    /\ lost' = {}

-----------------------------------------------------------------------------
(* The main thread *)

Accept ==
    /\ pc = "accept"
    /\ \E c \in Clients, f \in Fd \ Open :
         /\ conn[c] = "queued" /\ Stage(c, "accepted")
         /\ \A g \in Fd \ Open : f <= g
         /\ client' = [client EXCEPT ![f] = c]
         /\ cfd' = f
    /\ pc' = "malloc"
    /\ UNCHANGED <<inbox, answers, fin, gone, reset, block, pfd, taskVars, lost>>

\* main returns, and the threads end with it.
AcceptError == pc = "accept" /\ ProcessEnds

Malloc ==
    /\ pc = "malloc"
    /\ \E b \in Blocks : /\ block[b] = None
                         /\ block' = [block EXCEPT ![b] = cfd] /\ pfd' = b
    /\ pc' = "create"
    /\ UNCHANGED <<serviceVars, client, cfd, taskVars, lost>>

MallocError == pc = "malloc" /\ ProcessEnds

Create ==
    /\ pc = "create"
    /\ \E t \in Tasks : /\ at[t] = "none"
                        /\ at'  = [at EXCEPT ![t] = "start"]
                        /\ arg' = [arg EXCEPT ![t] = pfd]
    /\ pc' = "accept" /\ pfd' = None
    /\ UNCHANGED <<serviceVars, client, block, cfd, fd, lost>>

CreateError ==
    /\ pc = "create"
    /\ lost' = lost \cup {pfd}
    /\ pc' = "accept" /\ pfd' = None
    /\ UNCHANGED <<serviceVars, client, block, cfd, taskVars>>

-----------------------------------------------------------------------------
(* handle_info, in a thread of its own *)

Goes(t, s) == at' = [at EXCEPT ![t] = s]

Shared(t)     == cfd
HandedOver(t) == block[arg[t]]

\* getsockname succeeds, or the connection is closed unserved.
Start(t) ==
    /\ at[t] = "start" /\ Goes(t, "serve")
    /\ fd' = [fd EXCEPT ![t] = HandedOver(t)]
    /\ \E s \in {"reading", "over"} : Stage(client[HandedOver(t)], s)
    /\ UNCHANGED <<inbox, answers, fin, gone, reset, client, block, mainVars, arg, lost>>

Serve(t) ==
    /\ at[t] = "serve"
    /\ LET c == client[fd[t]] IN Read(c) \/ Write(c)
    /\ UNCHANGED <<client, block, mainVars, taskVars, lost>>

NotClosed(t) == UNCHANGED <<serviceVars, client>>
Closes(t) ==
    /\ Hangup(client[fd[t]])
    /\ client' = [client EXCEPT ![fd[t]] = None]

Close(t) ==
    /\ at[t] = "serve" /\ conn[client[fd[t]]] = "over"
    /\ Closes(t)
    /\ Goes(t, "free")
    /\ UNCHANGED <<block, mainVars, arg, fd, lost>>

Kept(t)  == block
Freed(t) == [block EXCEPT ![arg[t]] = None]

FreeBlock(t) ==
    /\ at[t] = "free" /\ Goes(t, "none")
    /\ block' = Freed(t)
    /\ arg' = [arg EXCEPT ![t] = None] /\ fd' = [fd EXCEPT ![t] = None]
    /\ UNCHANGED <<serviceVars, client, mainVars, lost>>

Killed(t) == at[t] = "serve" /\ Sigpipe(client[fd[t]]) /\ ProcessEnds

-----------------------------------------------------------------------------
MainStep == Accept \/ Malloc \/ Create
Failure  == AcceptError \/ MallocError \/ CreateError
\* What must fail, because the last descriptor, block or thread is taken.
Exhausted ==
    \/ Open = Fd /\ AcceptError
    \/ (\A b \in Blocks : block[b] # None) /\ MallocError
    \/ (\A t \in Tasks : at[t] # "none") /\ CreateError

Task(t)  == Start(t) \/ Serve(t) \/ Close(t) \/ FreeBlock(t) \/ Killed(t)

Around(A) == Running /\ A /\ UNCHANGED <<client, block, mainVars, taskVars, lost>>

Next == MainStep \/ Failure \/ (\E t \in Tasks : Task(t)) \/ (\E c \in Clients : Around(Client(c)))

Spec == Init /\ [][Next]_vars

\* Every thread runs, but no call fails that need not; a client that stays reads
\* its answers and closes in the end; a reset that is due arrives.
FairSpec ==
    /\ Spec /\ WF_vars(MainStep \/ Exhausted)
    /\ \A t \in Tasks : WF_vars(Task(t))
    /\ \A c \in Clients : /\ WF_vars(Around(Receive(c)))
                          /\ WF_vars(Around(HalfClose(c)))
                          /\ WF_vars(Around(ResetArrives(c)))
=============================================================================
