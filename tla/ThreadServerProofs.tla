------------------------- MODULE ThreadServerProofs -------------------------
(***************************************************************************)
(* Theorems about the thread server, for any number of threads, blocks,    *)
(* descriptors and clients.                                                *)
(***************************************************************************)
EXTENDS ThreadServerProperties, TcpServiceProofs

\* What main has at hand, and what a thread that is not there has not.
MainInv ==
    /\ pc = "create" <=> pfd # None
    /\ pc \in {"malloc", "create"} => cfd # None
    /\ pc = "create" => block[pfd] = cfd
    /\ \A t \in Tasks : at[t] # "none" <=> arg[t] # None
    /\ \A b, d \in lost : block[b] = block[d] => b = d

IInv == TypeOK /\ OneThreadEach /\ OneBlockEach /\ MainInv

LEMMA InitInv == Init => IInv
<1> SUFFICES ASSUME Init PROVE IInv
    OBVIOUS
<1> USE DEF Init, ServiceInit
<1>1. ServiceTypeOK
    <2>1. 0 \in 0..Outbox /\ "away" \in Stages /\ "no" \in Resets /\ <<>> \in Seq(Message)
        BY ServiceAssumption DEF Stages, Resets
    <2> QED
        BY <2>1 DEF ServiceTypeOK
<1>2. TypeOK
    BY <1>1 DEF TypeOK
<1>3. OneThreadEach
    BY DEF OneThreadEach, Holding, HeldFds, LostFds, MainFds, Open, Served
<1>4. OneBlockEach
    BY DEF OneBlockEach
<1>5. MainInv
    BY DEF MainInv
<1> QED
    BY <1>2, <1>3, <1>4, <1>5 DEF IInv

\* What each owner owns is open, or in use.
LEMMA Owned ==
    ASSUME IInv
    PROVE  /\ \A f \in Open : f \in Fd /\ client[f] \in Clients
           /\ \A t \in Holding : t \in Tasks /\ Holds(t) \in Open
           /\ \A b \in lost : b \in Blocks /\ block[b] \in Open
           /\ pc \in {"malloc", "create"} => cfd \in Open
           /\ \A t \in Tasks : at[t] # "none" => arg[t] \in Blocks /\ block[arg[t]] # None
           /\ pfd # None => pfd \in Blocks /\ block[pfd] # None
<1>1. TypeOK /\ OneThreadEach /\ OneBlockEach /\ MainInv
    BY DEF IInv
<1>2. \A f \in Open : f \in Fd /\ client[f] \in Clients
    BY <1>1 DEF TypeOK, Open
<1>3. \A t \in Holding : t \in Tasks /\ Holds(t) \in Open
    BY <1>1 DEF OneThreadEach, Holding, HeldFds
<1>4. \A b \in lost : b \in Blocks /\ block[b] \in Open
    BY <1>1 DEF OneThreadEach, TypeOK, LostFds
<1>5. pc \in {"malloc", "create"} => cfd \in Open
    BY <1>1 DEF OneThreadEach, MainFds
<1>6. \A t \in Tasks : at[t] # "none" => arg[t] \in Blocks /\ block[arg[t]] # None
    BY <1>1 DEF OneBlockEach
<1>7. pfd # None => pfd \in Blocks /\ block[pfd] # None
    BY <1>1 DEF OneBlockEach
<1> QED
    BY <1>2, <1>3, <1>4, <1>5, <1>6, <1>7

-----------------------------------------------------------------------------
(* Connections move; owners do not *)

\* A step that only serves a connection, or in which a client acts.
LEMMA ServiceStepInv ==
    ASSUME IInv, ServiceTypeOK', UNCHANGED <<client, block, mainVars, taskVars, lost>>,
           \A c \in Clients : conn'[c] \in Served <=> conn[c] \in Served
    PROVE  IInv'
<1>1. TypeOK'
    BY DEF IInv, TypeOK, mainVars, taskVars
<1>2. OneBlockEach' /\ MainInv'
    BY DEF IInv, OneBlockEach, MainInv, mainVars, taskVars
<1>3. UNCHANGED <<Open, HeldFds, LostFds, MainFds, Holding>> /\ \A t \in Tasks : Holds(t)' = Holds(t)
    BY DEF Open, HeldFds, LostFds, MainFds, Holding, Holds, mainVars, taskVars
<1>4. OneThreadEach'
    <2>1. \A t \in Holding : t \in Tasks
        BY DEF Holding
    <2>2. {c \in Clients : conn'[c] \in Served} = {c \in Clients : conn[c] \in Served}
        OBVIOUS
    <2> QED
        BY <1>3, <2>1, <2>2 DEF IInv, OneThreadEach
<1> QED
    BY <1>1, <1>2, <1>4 DEF IInv

LEMMA ProcessEndsInv == IInv /\ ProcessEnds => IInv'
<1> SUFFICES ASSUME IInv, ProcessEnds PROVE IInv'
    OBVIOUS
<1> DEFINE S == {c \in Clients : Linked(c)}
<1>1. S \in SUBSET Clients /\ "left" \in Stages /\ ServiceTypeOK /\ Ended(S, "left")
    BY DEF Stages, IInv, TypeOK, ProcessEnds
<1>2. ServiceTypeOK' /\ \A c \in Clients : conn'[c] = IF c \in S THEN "left" ELSE conn[c]
    BY <1>1, EndedType
<1>3. \A c \in Clients : conn'[c] \notin Served
    BY <1>2 DEF Linked, Served
<1>4. TypeOK'
    BY <1>2 DEF TypeOK, ProcessEnds
<1>5. OneThreadEach'
    BY <1>3 DEF ProcessEnds, OneThreadEach, Holding, HeldFds, LostFds, MainFds, Open
<1>6. OneBlockEach' /\ MainInv'
    BY DEF ProcessEnds, OneBlockEach, MainInv
<1> QED
    BY <1>4, <1>5, <1>6 DEF IInv

-----------------------------------------------------------------------------
(* The main thread *)

LEMMA AcceptInv == IInv /\ Accept => IInv'
<1> SUFFICES ASSUME IInv, Accept PROVE IInv'
    OBVIOUS
<1>1. PICK c \in Clients, f \in Fd \ Open :
        /\ conn[c] = "queued" /\ conn' = [conn EXCEPT ![c] = "accepted"]
        /\ client' = [client EXCEPT ![f] = c] /\ cfd' = f
    BY DEF Accept, Stage
<1>2. /\ pc = "accept" /\ pc' = "malloc"
      /\ UNCHANGED <<inbox, answers, fin, gone, reset, block, pfd, taskVars, lost>>
    BY DEF Accept
<1>3. TypeOK /\ OneThreadEach /\ OneBlockEach /\ MainInv
    BY DEF IInv
<1>4. c # None /\ f # None
    BY ThreadAssumption
<1>5. TypeOK'
    <2>1. conn' \in [Clients -> Stages] /\ client' \in [Fd -> Clients \cup {None}]
        BY <1>1, <1>3 DEF TypeOK, ServiceTypeOK, Stages
    <2> QED
        BY <1>1, <1>2, <1>3, <2>1 DEF TypeOK, ServiceTypeOK, taskVars
<1>6. Open' = Open \cup {f}
    BY <1>1, <1>3, <1>4 DEF Open, TypeOK
<1>7. HeldFds' = HeldFds /\ LostFds' = LostFds /\ MainFds = {} /\ MainFds' = {f}
    BY <1>1, <1>2 DEF HeldFds, LostFds, MainFds, Holding, Holds, taskVars
<1>8. /\ \A g \in Open : client'[g] = client[g]
      /\ client'[f] = c /\ \A g \in Open : client[g] # c
    <2>1. \A g \in Open : client[g] # c
        BY <1>1, <1>3 DEF OneThreadEach, Served
    <2> QED
        BY <1>1, <1>3, <2>1 DEF Open, TypeOK
<1>9. OneThreadEach'
    <2>1. \A t, u \in Holding' : Holds(t)' = Holds(u)' => t = u
        BY <1>2, <1>3 DEF OneThreadEach, Holding, Holds, taskVars
    <2>2. HeldFds \cap LostFds = {} /\ HeldFds \cup LostFds = Open
        BY <1>3, <1>7 DEF OneThreadEach
    <2>3. Open' = HeldFds' \cup LostFds' \cup MainFds'
        BY <1>6, <1>7, <2>2
    <2>4. HeldFds' \cap LostFds' = {} /\ (HeldFds' \cup LostFds') \cap MainFds' = {}
        BY <1>7, <2>2
    <2>5. \A g, h \in Open' : client'[g] = client'[h] => g = h
        BY <1>3, <1>6, <1>8 DEF OneThreadEach
    <2>6. {client'[g] : g \in Open'} = {client[g] : g \in Open} \cup {c}
        BY <1>6, <1>8
    <2>7. {d \in Clients : conn'[d] \in Served} = {d \in Clients : conn[d] \in Served} \cup {c}
        BY <1>1, <1>3 DEF TypeOK, ServiceTypeOK, Served
    <2>8. {client'[g] : g \in Open'} = {d \in Clients : conn'[d] \in Served}
        BY <1>3, <2>6, <2>7 DEF OneThreadEach
    <2> QED
        BY <2>1, <2>3, <2>4, <2>5, <2>8 DEF OneThreadEach
<1>10. OneBlockEach' /\ MainInv'
    BY <1>1, <1>2, <1>3, <1>4 DEF OneBlockEach, MainInv, taskVars
<1> QED
    BY <1>5, <1>9, <1>10 DEF IInv

LEMMA MallocInv == IInv /\ Malloc => IInv'
<1> SUFFICES ASSUME IInv, Malloc PROVE IInv'
    OBVIOUS
<1>1. PICK b \in Blocks : block[b] = None /\ block' = [block EXCEPT ![b] = cfd] /\ pfd' = b
    BY DEF Malloc
<1>2. /\ pc = "malloc" /\ pc' = "create"
      /\ UNCHANGED <<serviceVars, client, cfd, taskVars, lost>>
    BY DEF Malloc
<1>3. TypeOK /\ OneThreadEach /\ OneBlockEach /\ MainInv /\ cfd # None /\ pfd = None /\ b # None
    BY <1>2, ThreadAssumption DEF IInv, MainInv
<1>4. TypeOK'
    BY <1>1, <1>2, <1>3 DEF TypeOK, ServiceTypeOK, serviceVars, taskVars
<1>5. /\ block'[b] = cfd /\ \A d \in Blocks \ {b} : block'[d] = block[d]
      /\ b \notin lost /\ \A t \in Tasks : arg[t] # b
    <2>1. \A d \in lost : block[d] # None
        <3>1. \A d \in lost : block[d] \in Open
            BY Owned
        <3> QED
            BY <3>1, ThreadAssumption DEF Open
    <2>2. \A t \in Tasks : at[t] # "none" => block[arg[t]] # None
        BY Owned
    <2>3. b \notin lost /\ \A t \in Tasks : at[t] # "none" => arg[t] # b
        BY <1>1, <2>1, <2>2
    <2> QED
        BY <1>1, <1>3, <2>3 DEF TypeOK, MainInv
<1>6. /\ \A t \in Holding : Holds(t)' = Holds(t)
      /\ \A d \in lost : block'[d] = block[d]
      /\ UNCHANGED <<Holding, Open>>
    <2>1. \A t \in Holding : at[t] = "start" => block'[arg[t]] = block[arg[t]]
        BY <1>1, <1>5, Owned DEF Holding
    <2>2. \A d \in lost : block'[d] = block[d]
        BY <1>5, Owned
    <2> QED
        BY <1>2, <2>1, <2>2 DEF Holding, Holds, Open, taskVars
<1>7. HeldFds' = HeldFds /\ LostFds' = LostFds /\ MainFds' = MainFds
    BY <1>2, <1>6 DEF HeldFds, LostFds, MainFds
<1>8. OneThreadEach'
    BY <1>2, <1>3, <1>6, <1>7 DEF OneThreadEach, serviceVars
<1>9. OneBlockEach'
    <2>1. {d \in Blocks : block'[d] # None} = {d \in Blocks : block[d] # None} \cup {b}
        BY <1>3, <1>5
    <2>2. UNCHANGED <<at, arg, lost>>
        BY <1>2 DEF taskVars
    <2> QED
        BY <1>1, <1>3, <1>5, <2>1, <2>2 DEF OneBlockEach
<1>10. MainInv'
    <2>1. \A d, e \in lost : block'[d] = block'[e] => d = e
        BY <1>3, <1>6 DEF MainInv
    <2> QED
        BY <1>1, <1>2, <1>3, <1>5, <2>1 DEF MainInv, taskVars
<1> QED
    BY <1>4, <1>8, <1>9, <1>10 DEF IInv

LEMMA CreateInv == IInv /\ Create => IInv'
<1> SUFFICES ASSUME IInv, Create PROVE IInv'
    OBVIOUS
<1>1. PICK t \in Tasks : /\ at[t] = "none" /\ at' = [at EXCEPT ![t] = "start"]
                        /\ arg' = [arg EXCEPT ![t] = pfd]
    BY DEF Create
<1>2. /\ pc = "create" /\ pc' = "accept" /\ pfd' = None
      /\ UNCHANGED <<serviceVars, client, block, cfd, fd, lost>>
    BY DEF Create
<1>3. /\ TypeOK /\ OneThreadEach /\ OneBlockEach /\ MainInv
      /\ pfd \in Blocks /\ block[pfd] = cfd /\ arg[t] = None
    BY <1>1, <1>2, Owned DEF IInv, MainInv
<1>4. TypeOK'
    BY <1>1, <1>2, <1>3 DEF TypeOK, ServiceTypeOK, serviceVars
<1>5. /\ at'[t] = "start" /\ arg'[t] = pfd
      /\ \A u \in Tasks \ {t} : at'[u] = at[u] /\ arg'[u] = arg[u]
    BY <1>1, <1>3 DEF TypeOK
<1>6. /\ Holding' = Holding \cup {t} /\ t \notin Holding /\ Holds(t)' = cfd
      /\ \A u \in Holding : Holds(u)' = Holds(u) /\ u \in Tasks /\ u # t
    BY <1>1, <1>2, <1>3, <1>5 DEF Holding, Holds
<1>7. HeldFds' = HeldFds \cup {cfd} /\ LostFds' = LostFds /\ MainFds = {cfd} /\ MainFds' = {}
    BY <1>2, <1>6 DEF HeldFds, LostFds, MainFds
<1>8. OneThreadEach'
    <2>1. \A u \in Holding : Holds(u) # cfd
        BY <1>3, <1>7 DEF OneThreadEach, HeldFds
    <2>2. \A u, v \in Holding' : Holds(u)' = Holds(v)' => u = v
        BY <1>3, <1>6, <2>1 DEF OneThreadEach
    <2>3. Open' = Open
        BY <1>2 DEF Open
    <2> QED
        BY <1>2, <1>3, <1>7, <2>2, <2>3 DEF OneThreadEach, serviceVars
<1>9. OneBlockEach'
    <2>1. {u \in Tasks : at'[u] # "none"} = {u \in Tasks : at[u] # "none"} \cup {t}
        BY <1>5
    <2>2. {arg'[u] : u \in {v \in Tasks : at'[v] # "none"}}
            = {arg[u] : u \in {v \in Tasks : at[v] # "none"}} \cup {pfd}
        BY <1>1, <1>5, <2>1
    <2>3. pfd # None /\ \A u \in Tasks : arg[u] # pfd
        BY <1>2, <1>3 DEF OneBlockEach, MainInv
    <2>4. \A u, v \in Tasks : at'[u] # "none" /\ arg'[u] = arg'[v] => u = v
        BY <1>3, <1>5, <2>3 DEF OneBlockEach
    <2> QED
        BY <1>2, <1>3, <2>2, <2>3, <2>4 DEF OneBlockEach
<1>10. MainInv'
    <2>1. pfd # None
        BY <1>2, <1>3 DEF MainInv
    <2> QED
        BY <1>2, <1>3, <1>5, <2>1 DEF MainInv
<1> QED
    BY <1>4, <1>8, <1>9, <1>10 DEF IInv

LEMMA CreateErrorInv == IInv /\ CreateError => IInv'
<1> SUFFICES ASSUME IInv, CreateError PROVE IInv'
    OBVIOUS
<1>1. /\ pc = "create" /\ pc' = "accept" /\ pfd' = None /\ lost' = lost \cup {pfd}
      /\ UNCHANGED <<serviceVars, client, block, cfd, taskVars>>
    BY DEF CreateError
<1>2. /\ TypeOK /\ OneThreadEach /\ OneBlockEach /\ MainInv
      /\ pfd \in Blocks /\ pfd # None /\ block[pfd] = cfd
    BY <1>1, Owned DEF IInv, MainInv
<1>3. TypeOK'
    BY <1>1, <1>2 DEF TypeOK, ServiceTypeOK, serviceVars, taskVars
<1>4. UNCHANGED <<Holding, HeldFds, Open>> /\ \A t \in Tasks : Holds(t)' = Holds(t)
    BY <1>1 DEF Holding, HeldFds, Open, Holds, taskVars
<1>5. LostFds' = LostFds \cup {cfd} /\ MainFds = {cfd} /\ MainFds' = {}
    BY <1>1, <1>2 DEF LostFds, MainFds
<1>6. OneThreadEach'
    <2>1. \A t \in Holding : t \in Tasks
        BY DEF Holding
    <2> QED
        BY <1>1, <1>2, <1>4, <1>5, <2>1 DEF OneThreadEach, serviceVars
<1>7. OneBlockEach'
    BY <1>1, <1>2 DEF OneBlockEach, taskVars
<1>8. MainInv'
    <2>1. \A b \in lost : block[b] # cfd
        BY <1>2, <1>5 DEF OneThreadEach, LostFds
    <2> QED
        BY <1>1, <1>2, <2>1 DEF MainInv, taskVars
<1> QED
    BY <1>3, <1>6, <1>7, <1>8 DEF IInv

-----------------------------------------------------------------------------
(* The other threads *)

LEMMA StartInv == ASSUME IInv, NEW t \in Tasks, Start(t) PROVE IInv'
<1>1. PICK s \in {"reading", "over"} : conn' = [conn EXCEPT ![client[block[arg[t]]]] = s]
    BY DEF Start, Stage, HandedOver
<1>2. /\ at[t] = "start" /\ at' = [at EXCEPT ![t] = "serve"]
      /\ fd' = [fd EXCEPT ![t] = block[arg[t]]]
      /\ UNCHANGED <<inbox, answers, fin, gone, reset, client, block, mainVars, arg, lost>>
    BY DEF Start, Goes, HandedOver
<1>3. TypeOK /\ OneThreadEach /\ OneBlockEach /\ MainInv
    BY DEF IInv
<1>4. block[arg[t]] \in Open /\ t \in Holding
    BY <1>2, Owned DEF Holding, Holds
<1>5. client[block[arg[t]]] \in Clients /\ block[arg[t]] \in Fd
    BY <1>4, Owned
<1>6. conn[client[block[arg[t]]]] \in Served
    BY <1>3, <1>4 DEF OneThreadEach
<1>7. conn' \in [Clients -> Stages] /\ \A c \in Clients : conn'[c] \in Served <=> conn[c] \in Served
    BY <1>1, <1>3, <1>5, <1>6 DEF TypeOK, ServiceTypeOK, Stages, Served
<1>8. TypeOK'
    BY <1>2, <1>3, <1>5, <1>7 DEF TypeOK, ServiceTypeOK, mainVars
<1>9. /\ UNCHANGED <<Holding, Open, LostFds, MainFds>>
      /\ \A u \in Holding : u \in Tasks /\ Holds(u)' = Holds(u)
    BY <1>2, <1>3 DEF TypeOK, Holding, Holds, Open, LostFds, MainFds, mainVars
<1>10. HeldFds' = HeldFds
    BY <1>9 DEF HeldFds
<1>11. OneThreadEach'
    <2>1. {c \in Clients : conn'[c] \in Served} = {c \in Clients : conn[c] \in Served}
        BY <1>7
    <2> QED
        BY <1>2, <1>3, <1>9, <1>10, <2>1 DEF OneThreadEach
<1>12. \A u \in Tasks : at'[u] # "none" <=> at[u] # "none"
    BY <1>2, <1>3 DEF TypeOK
<1>13. OneBlockEach'
    <2>1. {u \in Tasks : at'[u] # "none"} = {u \in Tasks : at[u] # "none"}
        BY <1>12
    <2> QED
        BY <1>2, <1>3, <1>12, <2>1 DEF OneBlockEach, mainVars
<1>14. MainInv'
    BY <1>2, <1>3, <1>12 DEF MainInv, mainVars
<1> QED
    BY <1>8, <1>11, <1>13, <1>14 DEF IInv

LEMMA CloseInv == ASSUME IInv, NEW t \in Tasks, Close(t) PROVE IInv'
<1> DEFINE c == client[fd[t]]
<1>1. /\ at[t] = "serve" /\ at' = [at EXCEPT ![t] = "free"]
      /\ Hangup(c) /\ client' = [client EXCEPT ![fd[t]] = None]
      /\ UNCHANGED <<block, mainVars, arg, fd, lost>>
    BY DEF Close, Closes, Goes
<1>2. TypeOK /\ OneThreadEach /\ OneBlockEach /\ MainInv
    BY DEF IInv
<1>3. t \in Holding /\ Holds(t) = fd[t] /\ fd[t] \in Open /\ fd[t] \in Fd /\ c \in Clients
    <2>1. t \in Holding /\ Holds(t) = fd[t]
        BY <1>1 DEF Holding, Holds
    <2> QED
        BY <2>1, Owned
<1>4. \E s \in {"away", "left"} : Ended({c}, s)
    BY <1>1 DEF Hangup
<1>5. PICK s \in {"away", "left"} :
        ServiceTypeOK' /\ \A d \in Clients : conn'[d] = IF d \in {c} THEN s ELSE conn[d]
    <2>1. {c} \in SUBSET Clients /\ ServiceTypeOK /\ {"away", "left"} \subseteq Stages
        BY <1>2, <1>3 DEF TypeOK, Stages
    <2> QED
        BY <1>4, <2>1, EndedType
<1> HIDE DEF c
<1>6. TypeOK'
    BY <1>1, <1>2, <1>5 DEF TypeOK, mainVars
<1>7. Open' = Open \ {fd[t]} /\ \A g \in Open' : client'[g] = client[g] /\ g \in Open
    BY <1>1, <1>2, <1>3 DEF Open, TypeOK
<1>8. /\ Holding' = Holding \ {t}
      /\ \A u \in Holding' : u \in Tasks /\ u \in Holding /\ u # t /\ Holds(u)' = Holds(u)
    BY <1>1, <1>2 DEF Holding, Holds, TypeOK
<1>9. LostFds' = LostFds /\ MainFds' = MainFds /\ HeldFds' = HeldFds \ {fd[t]}
    <2>1. LostFds' = LostFds /\ MainFds' = MainFds
        BY <1>1 DEF LostFds, MainFds, mainVars
    <2>2. \A u \in Holding : Holds(u) = fd[t] => u = t
        BY <1>2, <1>3 DEF OneThreadEach
    <2>3. HeldFds' = HeldFds \ {fd[t]}
        BY <1>3, <1>8, <2>2 DEF HeldFds
    <2> QED
        BY <2>1, <2>3
<1>10. OneThreadEach'
    <2>1. fd[t] \in HeldFds
        BY <1>3 DEF HeldFds
    <2>2. Open' = HeldFds' \cup LostFds' \cup MainFds'
        BY <1>2, <1>7, <1>9, <2>1 DEF OneThreadEach
    <2>3. HeldFds' \cap LostFds' = {} /\ (HeldFds' \cup LostFds') \cap MainFds' = {}
        BY <1>2, <1>9 DEF OneThreadEach
    <2>4. \A u, v \in Holding' : Holds(u)' = Holds(v)' => u = v
        BY <1>2, <1>8 DEF OneThreadEach
    <2>5. \A f, g \in Open' : client'[f] = client'[g] => f = g
        BY <1>2, <1>7 DEF OneThreadEach
    <2>6. \A f \in Open : client[f] = c <=> f = fd[t]
        BY <1>2, <1>3 DEF OneThreadEach, c
    <2>7. {client'[f] : f \in Open'} = {client[f] : f \in Open} \ {c}
        BY <1>7, <2>6
    <2>8. {d \in Clients : conn'[d] \in Served} = {d \in Clients : conn[d] \in Served} \ {c}
        BY <1>5 DEF Served
    <2>9. {client'[f] : f \in Open'} = {d \in Clients : conn'[d] \in Served}
        BY <1>2, <2>7, <2>8 DEF OneThreadEach
    <2> QED
        BY <2>2, <2>3, <2>4, <2>5, <2>9 DEF OneThreadEach
<1>11. \A u \in Tasks : at'[u] # "none" <=> at[u] # "none"
    BY <1>1, <1>2 DEF TypeOK
<1>12. OneBlockEach'
    <2>1. {u \in Tasks : at'[u] # "none"} = {u \in Tasks : at[u] # "none"}
        BY <1>11
    <2> QED
        BY <1>1, <1>2, <1>11, <2>1 DEF OneBlockEach, mainVars
<1>13. MainInv'
    BY <1>1, <1>2, <1>11 DEF MainInv, mainVars
<1> QED
    BY <1>6, <1>10, <1>12, <1>13 DEF IInv

LEMMA FreeBlockInv == ASSUME IInv, NEW t \in Tasks, FreeBlock(t) PROVE IInv'
<1>1. /\ at[t] = "free" /\ at' = [at EXCEPT ![t] = "none"]
      /\ block' = [block EXCEPT ![arg[t]] = None]
      /\ arg' = [arg EXCEPT ![t] = None] /\ fd' = [fd EXCEPT ![t] = None]
      /\ UNCHANGED <<serviceVars, client, mainVars, lost>>
    BY DEF FreeBlock, Goes, Freed
<1>2. TypeOK /\ OneThreadEach /\ OneBlockEach /\ MainInv /\ arg[t] \in Blocks
    BY <1>1, Owned DEF IInv
<1>3. TypeOK'
    BY <1>1, <1>2 DEF TypeOK, ServiceTypeOK, serviceVars, mainVars
<1>4. /\ at'[t] = "none" /\ arg'[t] = None
      /\ \A u \in Tasks \ {t} : at'[u] = at[u] /\ arg'[u] = arg[u] /\ fd'[u] = fd[u]
      /\ block'[arg[t]] = None /\ \A b \in Blocks \ {arg[t]} : block'[b] = block[b]
    BY <1>1, <1>2 DEF TypeOK
<1>5. /\ \A u \in Tasks \ {t} : arg[u] # arg[t]
      /\ arg[t] \notin lost /\ arg[t] # pfd
    <2>1. \A u \in Tasks \ {t} : arg[u] # arg[t]
        BY <1>1, <1>2 DEF OneBlockEach
    <2>2. arg[t] \in {arg[u] : u \in {v \in Tasks : at[v] # "none"}} /\ arg[t] # None
        BY <1>1, <1>2, ThreadAssumption
    <2> QED
        BY <1>2, <2>1, <2>2 DEF OneBlockEach
<1>6. /\ Holding' = Holding
      /\ \A u \in Holding : u \in Tasks /\ Holds(u)' = Holds(u)
      /\ \A b \in lost : block'[b] = block[b]
    <2>1. Holding' = Holding /\ \A u \in Holding : u \in Tasks \ {t}
        BY <1>1, <1>2, <1>4 DEF Holding, TypeOK
    <2>2. \A u \in Holding : at[u] = "start" => arg[u] \in Blocks \ {arg[t]}
        BY <1>5, <2>1, Owned
    <2>3. \A u \in Holding : Holds(u)' = Holds(u)
        BY <1>4, <2>1, <2>2 DEF Holds
    <2>4. \A b \in lost : block'[b] = block[b]
        BY <1>4, <1>5, Owned
    <2> QED
        BY <2>1, <2>3, <2>4
<1>7. HeldFds' = HeldFds /\ LostFds' = LostFds /\ MainFds' = MainFds /\ Open' = Open
    BY <1>1, <1>6 DEF HeldFds, LostFds, MainFds, Open, mainVars
<1>8. OneThreadEach'
    BY <1>1, <1>2, <1>6, <1>7 DEF OneThreadEach, serviceVars
<1>9. OneBlockEach'
    <2>1. {u \in Tasks : at'[u] # "none"} = {u \in Tasks : at[u] # "none"} \ {t}
        BY <1>4
    <2>2. {arg'[u] : u \in {v \in Tasks : at'[v] # "none"}}
            = {arg[u] : u \in {v \in Tasks : at[v] # "none"}} \ {arg[t]}
        BY <1>1, <1>4, <1>5, <2>1
    <2>3. {b \in Blocks : block'[b] # None} = {b \in Blocks : block[b] # None} \ {arg[t]}
        BY <1>4
    <2>4. \A u, v \in Tasks : at'[u] # "none" /\ arg'[u] = arg'[v] => u = v
        <3> SUFFICES ASSUME NEW u \in Tasks, NEW v \in Tasks, at'[u] # "none", arg'[u] = arg'[v]
                     PROVE  u = v
            OBVIOUS
        <3>1. u # t /\ arg[u] # None /\ arg'[u] = arg[u] /\ at[u] # "none"
            BY <1>2, <1>4 DEF MainInv
        <3>2. v # t
            BY <1>4, <3>1
        <3>3. arg[v] = arg[u]
            BY <1>4, <3>1, <3>2
        <3> QED
            BY <1>2, <3>1, <3>3 DEF OneBlockEach
    <2> QED
        BY <1>1, <1>2, <1>5, <2>2, <2>3, <2>4 DEF OneBlockEach, mainVars
<1>10. MainInv'
    <2>1. pc = "create" => block'[pfd] = cfd
        BY <1>2, <1>4, <1>5, Owned DEF MainInv
    <2>2. \A b, d \in lost : block'[b] = block'[d] => b = d
        BY <1>2, <1>6 DEF MainInv
    <2> QED
        BY <1>1, <1>2, <1>4, <2>1, <2>2 DEF MainInv, mainVars
<1> QED
    BY <1>3, <1>8, <1>9, <1>10 DEF IInv

-----------------------------------------------------------------------------
LEMMA TaskInv == ASSUME IInv, NEW t \in Tasks, Task(t) PROVE IInv'
<1>1. CASE Serve(t)
    <2>1. client[fd[t]] \in Clients /\ ServiceTypeOK
        BY <1>1, Owned DEF Serve, Holding, Holds, IInv, TypeOK
    <2>2. ServiceTypeOK' /\ \A c \in Clients : conn'[c] \in Served <=> conn[c] \in Served
        BY <1>1, <2>1, HandleInfoType DEF Serve
    <2> QED
        BY <1>1, <2>2, ServiceStepInv DEF Serve
<1> QED
    BY <1>1, StartInv, CloseInv, FreeBlockInv, ProcessEndsInv DEF Task, Killed

LEMMA ClientInv == ASSUME IInv, NEW c \in Clients, Around(Client(c)) PROVE IInv'
<1>1. ServiceTypeOK' /\ \A d \in Clients : conn'[d] \in Served <=> conn[d] \in Served
    BY ClientStepType DEF Around, IInv, TypeOK
<1> QED
    BY <1>1, ServiceStepInv DEF Around

LEMMA NextInv == IInv /\ [Next]_vars => IInv'
<1> SUFFICES ASSUME IInv, [Next]_vars PROVE IInv'
    OBVIOUS
<1>1. CASE MainStep
    BY <1>1, AcceptInv, MallocInv, CreateInv DEF MainStep
<1>2. CASE Failure
    BY <1>2, ProcessEndsInv, CreateErrorInv DEF Failure, AcceptError, MallocError
<1>3. CASE \E t \in Tasks : Task(t)
    BY <1>3, TaskInv
<1>4. CASE \E c \in Clients : Around(Client(c))
    BY <1>4, ClientInv
<1>5. CASE UNCHANGED vars
    <2>1. ServiceTypeOK' /\ conn' = conn
        BY <1>5 DEF vars, serviceVars, IInv, TypeOK, ServiceTypeOK
    <2> QED
        BY <1>5, <2>1, ServiceStepInv DEF vars
<1> QED
    BY <1>1, <1>2, <1>3, <1>4, <1>5 DEF Next

LEMMA Invariance == Spec => []IInv
BY InitInv, NextInv, PTL DEF Spec

-----------------------------------------------------------------------------
\* Every variable of the thread server keeps its type.
THEOREM TypeCorrect == Spec => []TypeOK
<1>1. IInv => TypeOK
    BY DEF IInv
<1> QED
    BY <1>1, Invariance, PTL

\* Whatever the threads do meanwhile and whatever fails, every open descriptor
\* has one owner, though its number may have been another connection's before.
THEOREM DescriptorsCorrect == Spec => []OneThreadEach
<1>1. IInv => OneThreadEach
    BY DEF IInv
<1> QED
    BY <1>1, Invariance, PTL

\* Every block in use has one owner: none is freed twice or read after it was
\* freed, and the only ones that leak are those of threads never started.
THEOREM BlocksCorrect == Spec => []OneBlockEach
<1>1. IInv => OneBlockEach
    BY DEF IInv
<1> QED
    BY <1>1, Invariance, PTL
=============================================================================
