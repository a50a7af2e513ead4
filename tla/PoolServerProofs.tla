-------------------------- MODULE PoolServerProofs --------------------------
(***************************************************************************)
(* Theorems about the pool of workers, for any number of workers and of    *)
(* clients.                                                                *)
(***************************************************************************)
EXTENDS PoolServerProperties, TcpServiceProofs

Places == {"none", "create", "pause", "kill", "wait", "accept", "serve", "zombie", "ended"}

\* Workers are created in order: none that is yet to be created does anything.
CreateInv == at[Parent] = "create" => \A w \in Workers : i <= w => at[w] = "none"

IInv == TypeOK /\ OneProcessEach /\ CreateInv

LEMMA Numbers ==
    /\ Workers \subseteq Processes /\ Parent \in Processes /\ Parent \notin Workers
    /\ \A n \in 0..PROCNUM : n < PROCNUM => n \in Workers /\ n + 1 \in 0..PROCNUM
    /\ 0 \in 0..PROCNUM
BY PoolAssumption DEF Workers, Processes, Parent

LEMMA InitInv == Init => IInv
<1> SUFFICES ASSUME Init PROVE IInv
    OBVIOUS
<1> USE DEF Init, ServiceInit
<1>1. ServiceTypeOK
    <2>1. 0 \in 0..Outbox /\ "away" \in Stages /\ "no" \in Resets
        BY ServiceAssumption DEF Stages, Resets
    <2> QED
        BY <2>1 DEF ServiceTypeOK
<1>2. TypeOK
    BY <1>1, Numbers DEF TypeOK
<1>3. OneProcessEach
    BY DEF OneProcessEach, Served
<1>4. CreateInv
    BY Numbers DEF CreateInv
<1> QED
    BY <1>2, <1>3, <1>4 DEF IInv

\* A step of process p that leaves every connection with the process that has it.
LEMMA MoveInv ==
    ASSUME IInv, NEW p \in Processes, NEW s \in Places, Goes(p, s),
           UNCHANGED <<cfd, interrupted>>, ServiceTypeOK',
           \A c \in Clients : conn'[c] \in Served <=> conn[c] \in Served,
           s = "serve" <=> at[p] = "serve", s # "create",
           at[Parent] = "create" => at[p] # "none" /\ i' = i,
           i' \in 0..PROCNUM, signals' \subseteq Processes
    PROVE  IInv'
<1>1. TypeOK /\ OneProcessEach /\ CreateInv
    BY DEF IInv
<1>2. /\ at' \in [Processes -> Places] /\ at'[p] = s
      /\ \A q \in Processes : q # p => at'[q] = at[q]
    BY <1>1 DEF TypeOK, Goes, Places
<1>3. TypeOK'
    BY <1>1, <1>2 DEF TypeOK, Places
<1>4. OneProcessEach'
    <2>1. \A q \in Processes : at'[q] = "serve" <=> cfd'[q] # None
        BY <1>1, <1>2 DEF OneProcessEach
    <2> QED
        BY <1>1, <2>1 DEF OneProcessEach
<1>5. CreateInv'
    BY <1>1, <1>2, Numbers DEF CreateInv
<1> QED
    BY <1>3, <1>4, <1>5 DEF IInv

LEMMA ServiceUnchanged ==
    ASSUME ServiceTypeOK, UNCHANGED serviceVars
    PROVE  ServiceTypeOK' /\ \A c \in Clients : conn'[c] \in Served <=> conn[c] \in Served
BY DEF ServiceTypeOK, serviceVars

-----------------------------------------------------------------------------
LEMMA CreateStepInv == IInv /\ Create => IInv'
<1> SUFFICES ASSUME IInv, Create PROVE IInv'
    OBVIOUS
<1>1. TypeOK /\ OneProcessEach /\ CreateInv
    BY DEF IInv
<1>2. /\ at[Parent] = "create" /\ i < PROCNUM
      /\ UNCHANGED <<serviceVars, cfd, interrupted, signals>>
    BY DEF Create
<1>3. ServiceTypeOK' /\ \A c \in Clients : conn'[c] \in Served <=> conn[c] \in Served
    BY <1>1, <1>2, ServiceUnchanged DEF TypeOK
<1>4. i \in 0..PROCNUM
    BY <1>1 DEF TypeOK
<1>5. CASE at' = [at EXCEPT ![i] = "accept"] /\ i' = i + 1
    <2>1. i \in Workers /\ i + 1 \in 0..PROCNUM
        BY <1>2, <1>4, Numbers
    <2>2. at[i] = "none"
        BY <1>1, <1>2, <2>1 DEF CreateInv, Workers
    <2>3. /\ at' \in [Processes -> Places] /\ at'[i] = "accept"
          /\ \A q \in Processes : q # i => at'[q] = at[q]
        BY <1>1, <1>5, <2>1, Numbers DEF TypeOK, Places
    <2>4. TypeOK'
        BY <1>1, <1>2, <1>3, <1>5, <2>1, <2>3 DEF TypeOK, Places
    <2>5. OneProcessEach'
        <3>1. \A q \in Processes : at'[q] = "serve" <=> cfd'[q] # None
            BY <1>1, <1>2, <2>1, <2>2, <2>3, Numbers DEF OneProcessEach
        <3> QED
            BY <1>1, <1>2, <1>3, <3>1 DEF OneProcessEach
    <2>6. CreateInv'
        <3>1. \A w \in Workers : i + 1 <= w => i <= w /\ w # i
            BY <1>4 DEF Workers
        <3> QED
            BY <1>1, <1>2, <1>5, <2>3, <3>1, Numbers DEF CreateInv
    <2> QED
        BY <2>4, <2>5, <2>6 DEF IInv
<1>6. CASE Goes(Parent, "accept") /\ i' = i
    BY <1>1, <1>2, <1>3, <1>4, <1>6, MoveInv, Numbers DEF Places, TypeOK
<1> QED
    BY <1>5, <1>6 DEF Create

LEMMA ParentStepInv == IInv /\ ParentStep => IInv'
<1> SUFFICES ASSUME IInv, ParentStep PROVE IInv'
    OBVIOUS
<1>1. TypeOK
    BY DEF IInv
<1>2. /\ ServiceTypeOK /\ i \in 0..PROCNUM /\ signals \subseteq Processes
      /\ at \in [Processes -> Places]
    BY <1>1 DEF TypeOK, Places
<1>3. CASE Create
    BY <1>3, CreateStepInv
<1>4. CASE Install
    BY <1>2, <1>4, MoveInv, ServiceUnchanged, Numbers DEF Install, Places
<1>5. CASE SigInt
    <2>1. /\ at[Parent] = "pause" /\ Goes(Parent, "kill") /\ i' = 0 /\ signals' \subseteq Processes
          /\ UNCHANGED <<serviceVars, cfd, interrupted>>
        BY <1>2, <1>5 DEF SigInt
    <2> QED
        BY <1>2, <2>1, MoveInv, ServiceUnchanged, Numbers DEF Places
<1>6. CASE Kill
    <2>1. at[Parent] = "kill" /\ UNCHANGED <<serviceVars, cfd, interrupted>>
        BY <1>6 DEF Kill
    <2>2. CASE i < PROCNUM
        <3>1. i' = i + 1 /\ i \in Workers /\ i' \in 0..PROCNUM
            BY <1>2, <1>6, <2>2, Numbers DEF Kill, ToKill
        <3>2. Goes(Parent, "kill") /\ signals' \subseteq Processes
            <4>1. at' = at /\ signals' \in {signals, signals \cup {i}}
                BY <1>6, <2>2 DEF Kill, ToKill
            <4> QED
                BY <1>2, <2>1, <3>1, <4>1, Numbers DEF Goes
        <3> QED
            BY <1>2, <2>1, <3>1, <3>2, MoveInv, ServiceUnchanged, Numbers DEF Places
    <2>3. CASE ~(i < PROCNUM)
        <3>1. Goes(Parent, "wait") /\ UNCHANGED <<i, signals>>
            BY <1>6, <2>3 DEF Kill, ToKill
        <3> QED
            BY <1>2, <2>1, <3>1, MoveInv, ServiceUnchanged, Numbers DEF Places
    <2> QED
        BY <2>2, <2>3
<1>7. CASE Wait
    <2>1. at[Parent] = "wait" /\ UNCHANGED <<i, cfd, interrupted, signals>>
        BY <1>7 DEF Wait
    <2>2. ASSUME NEW w \in Zombies, Goes(w, "none"), UNCHANGED serviceVars PROVE IInv'
        <3>1. w \in Processes /\ at[w] = "zombie"
            BY Numbers DEF Zombies
        <3> QED
            BY <1>2, <2>1, <2>2, <3>1, MoveInv, ServiceUnchanged DEF Places
    <2>3. CASE Goes(Parent, "ended") /\ Ended(Queue, "left")
        <3>1. /\ ServiceTypeOK'
              /\ \A c \in Clients : conn'[c] = IF c \in Queue THEN "left" ELSE conn[c]
            <4>1. Queue \in SUBSET Clients /\ "left" \in Stages
                BY DEF Queue, Stages
            <4> QED
                BY <1>2, <2>3, <4>1, EndedType
        <3>2. \A c \in Clients : conn'[c] \in Served <=> conn[c] \in Served
            BY <3>1 DEF Queue, Served
        <3> QED
            BY <1>2, <2>1, <2>3, <3>1, <3>2, MoveInv, Numbers DEF Places
    <2> QED
        BY <1>7, <2>2, <2>3 DEF Wait
<1> QED
    BY <1>3, <1>4, <1>5, <1>6, <1>7 DEF ParentStep

-----------------------------------------------------------------------------
LEMMA AcceptInv == ASSUME IInv, NEW p \in Processes, Accept(p) PROVE IInv'
<1>1. PICK c \in Clients : /\ conn[c] = "queued" /\ cfd' = [cfd EXCEPT ![p] = c]
                          /\ \E s \in {"reading", "over"} : Stage(c, s)
    BY DEF Accept
<1>2. /\ at[p] = "accept" /\ Goes(p, "serve")
      /\ UNCHANGED <<inbox, answers, fin, gone, reset, i, interrupted, signals>>
    BY DEF Accept
<1>3. TypeOK /\ OneProcessEach /\ CreateInv
    BY DEF IInv
<1>4. /\ conn' \in [Clients -> Stages] /\ conn'[c] \in Served /\ conn[c] \notin Served
      /\ \A d \in Clients : d # c => conn'[d] = conn[d]
    BY <1>1, <1>3 DEF TypeOK, ServiceTypeOK, Stage, Stages, Served
<1>5. /\ at' \in [Processes -> Places] /\ at'[p] = "serve"
      /\ \A q \in Processes : q # p => at'[q] = at[q]
    BY <1>2, <1>3 DEF TypeOK, Goes, Places
<1>6. /\ cfd' \in [Processes -> Clients \cup {None}] /\ cfd'[p] = c
      /\ \A q \in Processes : q # p => cfd'[q] = cfd[q]
    BY <1>1, <1>3 DEF TypeOK
<1>7. \A q \in Processes : cfd[q] # c
    BY <1>3, <1>4, PoolAssumption DEF OneProcessEach
<1>8. TypeOK'
    BY <1>2, <1>3, <1>4, <1>5, <1>6 DEF TypeOK, ServiceTypeOK, Places
<1>9. OneProcessEach'
    <2>1. c # None
        BY PoolAssumption
    <2>2. \A q \in Processes : at'[q] = "serve" <=> cfd'[q] # None
        BY <1>3, <1>5, <1>6, <2>1 DEF OneProcessEach
    <2>3. \A q, r \in Processes : cfd'[q] = cfd'[r] /\ cfd'[q] # None => q = r
        BY <1>3, <1>6, <1>7 DEF OneProcessEach
    <2>4. cfd[p] = None
        BY <1>2, <1>3 DEF OneProcessEach
    <2>5. {cfd'[q] : q \in Processes} \ {None} = ({cfd[q] : q \in Processes} \ {None}) \cup {c}
        BY <1>6, <2>1, <2>4
    <2>6. {d \in Clients : conn'[d] \in Served} = {d \in Clients : conn[d] \in Served} \cup {c}
        BY <1>4
    <2> QED
        BY <1>3, <2>2, <2>3, <2>5, <2>6 DEF OneProcessEach
<1>10. CreateInv'
    BY <1>2, <1>3, <1>5, Numbers DEF CreateInv
<1> QED
    BY <1>8, <1>9, <1>10 DEF IInv

LEMMA ServeInv == ASSUME IInv, NEW p \in Processes, Serve(p) PROVE IInv'
<1>1. at[p] = "serve" /\ (Read(cfd[p]) \/ Write(cfd[p])) /\ UNCHANGED poolVars
    BY DEF Serve
<1>2. TypeOK /\ OneProcessEach /\ CreateInv
    BY DEF IInv
<1>3. cfd[p] \in Clients /\ ServiceTypeOK
    BY <1>1, <1>2 DEF TypeOK, OneProcessEach
<1>4. ServiceTypeOK' /\ \A d \in Clients : conn'[d] \in Served <=> conn[d] \in Served
    BY <1>1, <1>3, HandleInfoType
<1>5. TypeOK'
    BY <1>1, <1>2, <1>4 DEF TypeOK, poolVars
<1>6. OneProcessEach' /\ CreateInv'
    BY <1>1, <1>2, <1>4 DEF OneProcessEach, CreateInv, poolVars
<1> QED
    BY <1>5, <1>6 DEF IInv

\* A process gives up the connection it has, and with it the queue if it is the
\* last to have the listening socket.
LEMMA GivesUpInv ==
    ASSUME IInv, NEW p \in Processes, NEW S \in SUBSET Clients, NEW s \in {"away", "left"},
           Ended(S, s), cfd' = [cfd EXCEPT ![p] = None],
           at' \in [Processes -> Places], signals' \subseteq Processes,
           UNCHANGED <<i, interrupted>>,
           cfd[p] # None => cfd[p] \in S,
           \A c \in S : c = cfd[p] \/ conn[c] = "queued",
           at'[p] # "serve", \A q \in Processes : q # p => (at'[q] = "serve" <=> at[q] = "serve"),
           at'[Parent] = "create" =>
               at[Parent] = "create" /\ at[p] # "none" /\ \A q \in Processes : q # p => at'[q] = at[q]
    PROVE  IInv'
<1>1. TypeOK /\ OneProcessEach /\ CreateInv
    BY DEF IInv
<1>2. ServiceTypeOK' /\ \A c \in Clients : conn'[c] = IF c \in S THEN s ELSE conn[c]
    <2>1. s \in Stages /\ ServiceTypeOK
        BY <1>1 DEF Stages, TypeOK
    <2> QED
        BY <2>1, EndedType
<1>3. /\ cfd' \in [Processes -> Clients \cup {None}] /\ cfd'[p] = None
      /\ \A q \in Processes : q # p => cfd'[q] = cfd[q]
    BY <1>1 DEF TypeOK
<1>4. TypeOK'
    BY <1>1, <1>2, <1>3 DEF TypeOK, Places
<1>5. OneProcessEach'
    <2>1. \A q \in Processes : at'[q] = "serve" <=> cfd'[q] # None
        BY <1>1, <1>3 DEF OneProcessEach
    <2>2. \A q, r \in Processes : cfd'[q] = cfd'[r] /\ cfd'[q] # None => q = r
        BY <1>1, <1>3 DEF OneProcessEach
    <2>3. \A c \in Clients : conn'[c] \in Served <=> conn[c] \in Served /\ c # cfd[p]
        BY <1>2, PoolAssumption DEF Served
    <2>4. ASSUME NEW c \in Clients
          PROVE  (\E q \in Processes : cfd'[q] = c) <=> conn'[c] \in Served
        <3>1. (\E q \in Processes : cfd[q] = c) <=> conn[c] \in Served
            BY <1>1, PoolAssumption DEF OneProcessEach
        <3>2. (\E q \in Processes : cfd'[q] = c) <=> (\E q \in Processes : cfd[q] = c) /\ c # cfd[p]
            BY <1>1, <1>3, PoolAssumption DEF OneProcessEach
        <3> QED
            BY <2>3, <3>1, <3>2
    <2>5. {cfd'[q] : q \in Processes} \ {None} = {c \in Clients : conn'[c] \in Served}
        BY <1>3, <2>4, PoolAssumption
    <2> QED
        BY <2>1, <2>2, <2>5 DEF OneProcessEach
<1>6. CreateInv'
    BY <1>1, Numbers DEF CreateInv
<1> QED
    BY <1>4, <1>5, <1>6 DEF IInv

LEMMA CloseInv == ASSUME IInv, NEW p \in Processes, Close(p) PROVE IInv'
<1>1. /\ at[p] = "serve" /\ Goes(p, "accept") /\ Hangup(cfd[p])
      /\ cfd' = [cfd EXCEPT ![p] = None] /\ UNCHANGED <<i, interrupted, signals>>
    BY DEF Close, Closed
<1>2. TypeOK /\ OneProcessEach
    BY DEF IInv
<1>3. cfd[p] \in Clients /\ signals' \subseteq Processes
    BY <1>1, <1>2 DEF TypeOK, OneProcessEach
<1>4. /\ at' \in [Processes -> Places] /\ at'[p] = "accept"
      /\ \A q \in Processes : q # p => at'[q] = at[q]
    BY <1>1, <1>2 DEF TypeOK, Goes, Places
<1>5. PICK s \in {"away", "left"} : Ended({cfd[p]}, s)
    BY <1>1 DEF Hangup
<1>6. {cfd[p]} \in SUBSET Clients
    BY <1>3
<1>7. at'[Parent] = "create" => at[Parent] = "create"
    BY <1>4, Numbers
<1> QED
    BY <1>1, <1>3, <1>4, <1>5, <1>6, <1>7, GivesUpInv

LEMMA EndsInv ==
    ASSUME IInv, NEW p \in Processes, Ends(p), at[p] # "none" PROVE IInv'
<1> DEFINE last == \A q \in Processes \ {p} : ~Alive(q)
           S == {c \in Clients : c = cfd[p] \/ (last /\ c \in Queue)}
<1>1. TypeOK /\ OneProcessEach
    BY DEF IInv
<1>2. PICK s \in {"away", "left"} : Ended(S, s)
    BY DEF Ends
<1>3. cfd' = [cfd EXCEPT ![p] = None] /\ signals' \subseteq Processes /\ UNCHANGED <<i, interrupted>>
    BY <1>1 DEF Ends, TypeOK
<1>4. /\ at' \in [Processes -> Places] /\ at'[p] \in {"zombie", "ended"}
      /\ \A q \in Processes : q # p =>
           at'[q] = at[q] \/ (p = Parent /\ at[q] = "zombie" /\ at'[q] = "ended")
    BY <1>1 DEF Ends, TypeOK, Places
<1>5. at'[Parent] = "create" => p # Parent
    BY <1>4
<1>6. S \in SUBSET Clients /\ (cfd[p] # None => cfd[p] \in S)
    BY <1>1 DEF TypeOK
<1>7. \A c \in S : c = cfd[p] \/ conn[c] = "queued"
    BY DEF Queue
<1>8. \A q \in Processes : q # p => (at'[q] = "serve" <=> at[q] = "serve")
    BY <1>4
<1>9. at'[Parent] = "create" =>
        at[Parent] = "create" /\ at[p] # "none" /\ \A q \in Processes : q # p => at'[q] = at[q]
    BY <1>4, <1>5, Numbers
<1>10. at' \in [Processes -> Places] /\ at'[p] # "serve"
    BY <1>4
<1> HIDE DEF S
<1> QED
    BY <1>2, <1>3, <1>6, <1>7, <1>8, <1>9, <1>10, GivesUpInv

LEMMA StillInv ==
    ASSUME IInv, ServiceTypeOK', UNCHANGED <<at, i, cfd>>,
           \A c \in Clients : conn'[c] \in Served <=> conn[c] \in Served,
           interrupted' \in BOOLEAN, signals' \subseteq Processes
    PROVE  IInv'
BY DEF IInv, TypeOK, OneProcessEach, CreateInv

LEMMA NextInv == IInv /\ [Next]_vars => IInv'
<1> SUFFICES ASSUME IInv, [Next]_vars PROVE IInv'
    OBVIOUS
<1>1. CASE ParentStep
    BY <1>1, ParentStepInv
<1>2. ASSUME NEW p \in Processes, Process(p) \/ AcceptError(p) \/ Terminated(p) PROVE IInv'
    <2>1. CASE Accept(p)
        BY <2>1, AcceptInv
    <2>2. CASE Serve(p)
        BY <2>2, ServeInv
    <2>3. CASE Close(p)
        BY <2>3, CloseInv
    <2>4. CASE Killed(p) \/ AcceptError(p) \/ Terminated(p)
        BY <2>4, EndsInv DEF Killed, AcceptError, Terminated
    <2> QED
        BY <1>2, <2>1, <2>2, <2>3, <2>4 DEF Process
<1>3. CASE Interrupt
    <2>1. UNCHANGED <<serviceVars, at, i, cfd>> /\ interrupted' = TRUE /\ signals' \subseteq Processes
        BY <1>3, Numbers DEF Interrupt
    <2>2. ServiceTypeOK' /\ \A c \in Clients : conn'[c] \in Served <=> conn[c] \in Served
        BY <2>1, ServiceUnchanged DEF IInv, TypeOK
    <2> QED
        BY <2>1, <2>2, StillInv
<1>4. ASSUME NEW c \in Clients, ClientStep(c) PROVE IInv'
    <2>1. Client(c) /\ UNCHANGED poolVars
        BY <1>4 DEF ClientStep, Around
    <2>2. ServiceTypeOK' /\ \A d \in Clients : conn'[d] \in Served <=> conn[d] \in Served
        <3>1. ServiceTypeOK
            BY DEF IInv, TypeOK
        <3> QED
            BY <2>1, <3>1, ClientStepType
    <2>3. interrupted' \in BOOLEAN /\ signals' \subseteq Processes
        BY <2>1 DEF IInv, TypeOK, poolVars
    <2> QED
        BY <2>1, <2>2, <2>3, StillInv DEF poolVars
<1>5. CASE UNCHANGED vars
    <2>1. UNCHANGED serviceVars /\ UNCHANGED poolVars
        BY <1>5 DEF vars
    <2>2. ServiceTypeOK' /\ \A c \in Clients : conn'[c] \in Served <=> conn[c] \in Served
        BY <2>1, ServiceUnchanged DEF IInv, TypeOK
    <2>3. interrupted' \in BOOLEAN /\ signals' \subseteq Processes
        BY <2>1 DEF IInv, TypeOK, poolVars
    <2> QED
        BY <2>1, <2>2, <2>3, StillInv DEF poolVars
<1> QED
    BY <1>1, <1>2, <1>3, <1>4, <1>5 DEF Next

LEMMA Invariance == Spec => []IInv
BY InitInv, NextInv, PTL DEF Spec

-----------------------------------------------------------------------------
\* Every variable of the pool keeps its type.
THEOREM TypeCorrect == Spec => []TypeOK
<1>1. IInv => TypeOK
    BY DEF IInv
<1> QED
    BY <1>1, Invariance, PTL

\* Each open connection is with one process, which serves it, whatever dies when.
THEOREM ConnectionsCorrect == Spec => []OneProcessEach
<1>1. IInv => OneProcessEach
    BY DEF IInv
<1> QED
    BY <1>1, Invariance, PTL

-----------------------------------------------------------------------------
(* What sig_int finds and does.  The workers are all created, and none of them *)
(* is waited for, before it has killed them; ^C was what started it, and comes *)
(* once, so that its signals stay.                                             *)
CreatedInv ==
    /\ at[Parent] = "create" => \A w \in Workers : w < i => at[w] # "none"
    /\ at[Parent] \in {"pause", "kill"} => \A w \in Workers : at[w] # "none"

InterruptedInv == Parent \in signals \/ at[Parent] \in {"kill", "wait"} => interrupted

KillInv == CreatedInv /\ InterruptedInv /\ AllWorkersTold

LEMMA KillInit == Init => KillInv
BY Numbers DEF Init, KillInv, CreatedInv, InterruptedInv, AllWorkersTold, Workers

\* A step of one process within the pool.
LEMMA KillPool ==
    ASSUME IInv, KillInv, NEW p \in Processes, at[p] \in {"accept", "serve"},
           NEW s \in {"accept", "serve"}, Goes(p, s), UNCHANGED <<i, interrupted, signals>>
    PROVE  KillInv'
<1>1. at \in [Processes -> Places]
    BY DEF IInv, TypeOK, Places
<1>2. at'[p] = s /\ \A q \in Processes : q # p => at'[q] = at[q]
    BY <1>1 DEF Goes
<1>3. \A q \in Processes : Alive(q)' <=> Alive(q)
    BY <1>2 DEF Alive
<1>4. at'[Parent] \in {"create", "pause", "kill", "wait"} => p # Parent /\ at'[Parent] = at[Parent]
    BY <1>2, Numbers
<1>5. \A w \in Workers : at'[w] = "none" <=> at[w] = "none"
    BY <1>2, Numbers
<1>6. at'[Parent] \in {"create", "pause", "kill", "wait"} => CreatedInv' /\ AllWorkersTold'
    BY <1>3, <1>4, <1>5, Numbers DEF KillInv, CreatedInv, AllWorkersTold
<1>7. InterruptedInv'
    BY <1>4 DEF KillInv, InterruptedInv
<1> QED
    BY <1>6, <1>7 DEF KillInv, CreatedInv, AllWorkersTold

\* The end of one takes its signal with it, and leaves a zombie.
LEMMA KillEnds ==
    ASSUME IInv, KillInv, NEW p \in Processes, at[p] \in {"create", "accept", "serve"}, Ends(p)
    PROVE  KillInv'
<1>1. at \in [Processes -> Places] /\ signals' = signals \ {p} /\ UNCHANGED <<i, interrupted>>
    BY DEF IInv, TypeOK, Places, Ends
<1>2. p = Parent => at'[Parent] = "ended"
    BY <1>1 DEF Ends
<1>3. CASE p = Parent
    BY <1>1, <1>2, <1>3 DEF KillInv, CreatedInv, InterruptedInv, AllWorkersTold
<1>4. CASE p # Parent
    <2>1. at'[Parent] = at[Parent] /\ \A q \in Processes : q # p => at'[q] = at[q]
        BY <1>1, <1>4, Numbers DEF Ends
    <2>2. at'[p] \in {"zombie", "ended"}
        BY <1>1 DEF Ends
    <2>3. ~Alive(p)' /\ at[p] # "none" /\ at'[p] # "none"
        BY <2>2 DEF Alive
    <2>4. \A q \in Processes : Alive(q)' => Alive(q) /\ q # p
        BY <2>1, <2>3 DEF Alive
    <2>5. \A w \in Workers : at'[w] = "none" <=> at[w] = "none"
        BY <2>1, <2>3, Numbers
    <2>6. CreatedInv' /\ InterruptedInv'
        BY <1>1, <2>1, <2>5 DEF KillInv, CreatedInv, InterruptedInv
    <2>7. AllWorkersTold'
        BY <1>1, <2>1, <2>4, <2>5, Numbers DEF KillInv, AllWorkersTold
    <2> QED
        BY <2>6, <2>7 DEF KillInv
<1> QED
    BY <1>3, <1>4

LEMMA KillParent == ASSUME IInv, KillInv, ParentStep PROVE KillInv'
<1>1. /\ at \in [Processes -> Places] /\ i \in 0..PROCNUM /\ PROCNUM \in Nat
      /\ \A w \in Workers : w \in 0..(PROCNUM - 1)
    BY PoolAssumption DEF IInv, TypeOK, Places, Workers
<1> USE DEF KillInv, CreatedInv, InterruptedInv, AllWorkersTold
<1>2. CASE Create
    <2>1. at[Parent] = "create" /\ i < PROCNUM /\ UNCHANGED <<interrupted, signals>>
        BY <1>2 DEF Create
    <2>2. CASE at' = [at EXCEPT ![i] = "accept"] /\ i' = i + 1
        <3>1. i \in Workers
            BY <1>1, <2>1, Numbers
        <3>2. /\ at'[Parent] = "create" /\ at'[i] = "accept"
              /\ \A w \in Workers : w # i => at'[w] = at[w]
            BY <1>1, <2>1, <2>2, <3>1, Numbers
        <3>3. \A w \in Workers : w < i + 1 => w < i \/ w = i
            BY <1>1
        <3> QED
            BY <2>1, <2>2, <3>2, <3>3
    <2>3. CASE Goes(Parent, "accept")
        BY <1>1, <2>1, <2>3, Numbers DEF Goes
    <2> QED
        BY <1>2, <2>2, <2>3 DEF Create
<1>3. CASE Install
    <2>1. at[Parent] = "create" /\ i = PROCNUM /\ UNCHANGED <<interrupted, signals>>
        BY <1>3 DEF Install
    <2>2. at'[Parent] = "pause" /\ \A w \in Workers : at'[w] = at[w]
        BY <1>1, <1>3, Numbers DEF Install, Goes
    <2>3. \A w \in Workers : w < i
        BY <1>1, <2>1
    <2> QED
        BY <2>1, <2>2, <2>3
<1>4. CASE SigInt
    <2>1. at[Parent] = "pause" /\ Parent \in signals /\ i' = 0 /\ UNCHANGED interrupted
        BY <1>4 DEF SigInt
    <2>2. at'[Parent] = "kill" /\ \A w \in Workers : at'[w] = at[w]
        BY <1>1, <1>4, Numbers DEF SigInt, Goes
    <2>3. \A w \in Workers : 0 <= w
        BY <1>1
    <2> QED
        BY <2>1, <2>2, <2>3
<1>5. CASE Kill
    <2>1. at[Parent] = "kill" /\ UNCHANGED interrupted
        BY <1>5 DEF Kill
    <2>2. CASE i < PROCNUM
        <3>1. /\ at' = at /\ i' = i + 1
              /\ signals' = IF Alive(i) THEN signals \cup {i} ELSE signals
            BY <1>5, <2>2 DEF Kill, ToKill
        <3>2. \A w \in Workers : i <= w => w = i \/ i + 1 <= w
            BY <1>1
        <3>3. i \in Workers
            BY <1>1, <2>2, Numbers
        <3>4. \A w \in Workers : Alive(w)' <=> Alive(w)
            BY <3>1 DEF Alive
        <3>5. \A w \in Workers : Alive(w) => w \in signals' \/ i' <= w
            BY <2>1, <3>1, <3>2, <3>3
        <3> QED
            BY <2>1, <3>1, <3>4, <3>5
    <2>3. CASE ~(i < PROCNUM)
        <3>1. Goes(Parent, "wait") /\ UNCHANGED <<i, signals>>
            BY <1>5, <2>3 DEF Kill, ToKill
        <3>2. at'[Parent] = "wait" /\ \A w \in Workers : at'[w] = at[w]
            BY <1>1, <3>1, Numbers DEF Goes
        <3>3. \A w \in Workers : ~(i <= w)
            BY <1>1, <2>3
        <3>4. \A w \in Workers : Alive(w)' <=> Alive(w)
            BY <3>2 DEF Alive
        <3> QED
            BY <2>1, <3>1, <3>2, <3>3, <3>4
    <2> QED
        BY <2>2, <2>3
<1>6. CASE Wait
    <2>1. at[Parent] = "wait" /\ UNCHANGED <<i, interrupted, signals>>
        BY <1>6 DEF Wait
    <2>2. ASSUME NEW w \in Zombies, Goes(w, "none") PROVE KillInv'
        <3>1. w \in Workers
            BY DEF Zombies
        <3>2. at'[w] = "none" /\ \A q \in Processes : q # w => at'[q] = at[q]
            BY <1>1, <2>2, <3>1, Numbers DEF Goes
        <3>3. \A q \in Workers : Alive(q)' => Alive(q)
            BY <3>2, Numbers DEF Alive
        <3> QED
            BY <2>1, <3>1, <3>2, <3>3, Numbers
    <2>3. CASE Goes(Parent, "ended")
        BY <1>1, <2>1, <2>3, Numbers DEF Goes
    <2> QED
        BY <1>6, <2>2, <2>3 DEF Wait
<1> QED
    BY <1>2, <1>3, <1>4, <1>5, <1>6 DEF ParentStep

LEMMA KillStill ==
    ASSUME KillInv, UNCHANGED <<at, i, interrupted, signals>> PROVE KillInv'
BY DEF KillInv, CreatedInv, InterruptedInv, AllWorkersTold, Alive

LEMMA KillNext == IInv /\ KillInv /\ [Next]_vars => KillInv'
<1> SUFFICES ASSUME IInv, KillInv, [Next]_vars PROVE KillInv'
    OBVIOUS
<1>1. CASE ParentStep
    BY <1>1, KillParent
<1>2. ASSUME NEW p \in Processes, Process(p) \/ AcceptError(p) \/ Terminated(p) PROVE KillInv'
    <2>1. CASE Accept(p)
        BY <2>1, KillPool DEF Accept
    <2>2. CASE Serve(p)
        BY <2>2, KillStill DEF Serve, poolVars
    <2>3. CASE Close(p)
        BY <2>3, KillPool DEF Close
    <2>4. CASE Killed(p) \/ AcceptError(p) \/ Terminated(p)
        BY <2>4, KillEnds DEF Killed, AcceptError, Terminated
    <2> QED
        BY <1>2, <2>1, <2>2, <2>3, <2>4 DEF Process
<1>3. CASE Interrupt
    <2>1. ~interrupted /\ interrupted' /\ UNCHANGED <<at, i>>
        BY <1>3 DEF Interrupt
    <2> QED
        BY <2>1 DEF KillInv, CreatedInv, InterruptedInv, AllWorkersTold
<1>4. CASE (\E c \in Clients : ClientStep(c)) \/ UNCHANGED vars
    BY <1>4, KillStill DEF ClientStep, Around, poolVars, vars
<1> QED
    BY <1>1, <1>2, <1>3, <1>4 DEF Next

\* sig_int kills its own workers, and whichever live when it begins to wait have
\* the signal that ends them.
THEOREM WorkersTold == Spec => []AllWorkersTold
<1>1. KillInv => AllWorkersTold
    BY DEF KillInv
<1> QED
    BY <1>1, Invariance, KillInit, KillNext, PTL DEF Spec
=============================================================================
