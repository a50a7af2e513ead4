-------------------------- MODULE ForkServerProofs --------------------------
(***************************************************************************)
(* Theorems about the forking servers, for any number of clients and of    *)
(* children.                                                               *)
(***************************************************************************)
EXTENDS ForkServerProperties, TcpServiceProofs

\* The connection at hand between accept and close is one the parent has, and
\* until fork nobody else; a child that serves has one to serve.
TaskInv ==
    /\ pc \in {"fork", "close"} => cfd \in Clients
    /\ pc = "fork" => holders[cfd] = {Parent}
    /\ \A p \in Pids : Serving(p) => task[p] \in Clients

IInv == TypeOK /\ OwnConnectionOnly /\ TaskInv /\ NoZombieForgotten

LEMMA InitInv == Init => IInv
<1> SUFFICES ASSUME Init PROVE IInv
    OBVIOUS
<1> USE DEF Init, ServiceInit
<1>1. ServiceTypeOK
    <2>1. 0 \in 0..Outbox /\ "away" \in Stages /\ "no" \in Resets
        BY ServiceAssumption DEF Stages, Resets
    <2> QED
        BY <2>1 DEF ServiceTypeOK
<1>2. TypeOK
    BY <1>1 DEF TypeOK, Steps
<1>3. OwnConnectionOnly
    BY DEF OwnConnectionOnly, Serving, Served
<1> QED
    BY <1>2, <1>3 DEF IInv, TaskInv, Serving, NoZombieForgotten, Zombies

-----------------------------------------------------------------------------
\* What Closes leaves behind: p has closed what it was asked to, and a connection
\* is no longer served exactly if p was the last to have it.
LEMMA ClosesEffect ==
    ASSUME IInv, NEW p \in Pids \cup {Parent}, NEW S \in SUBSET Clients, NEW l \in BOOLEAN,
           Closes(p, S, l)
    PROVE  /\ ServiceTypeOK'
           /\ holders' \in [Clients -> SUBSET (Pids \cup {Parent})]
           /\ listeners' \subseteq Pids \cup {Parent}
           /\ \A c \in Clients : holders'[c] = IF c \in S THEN holders[c] \ {p} ELSE holders[c]
           /\ \A c \in Clients : holders'[c] # {} <=> conn'[c] \in Served
<1> DEFINE hungup  == {c \in S : holders[c] = {p}}
           refused == {c \in Clients : conn[c] = "queued" /\ listeners' = {}}
<1>1. TypeOK /\ OwnConnectionOnly
    BY DEF IInv
<1>2. PICK s \in {"away", "left"} : Ended(hungup \cup refused, s)
    BY DEF Closes
<1>3. s \in Stages /\ hungup \cup refused \in SUBSET Clients /\ ServiceTypeOK
    BY <1>1 DEF Stages, TypeOK
<1>4. ServiceTypeOK' /\ \A c \in Clients :
        conn'[c] = IF c \in hungup \cup refused THEN s ELSE conn[c]
    BY <1>2, <1>3, EndedType
<1>5. \A c \in Clients : holders'[c] = IF c \in S THEN holders[c] \ {p} ELSE holders[c]
    BY DEF Closes
<1>6. holders' \in [Clients -> SUBSET (Pids \cup {Parent})]
    BY <1>1 DEF Closes, TypeOK
<1>7. listeners' \subseteq Pids \cup {Parent}
    BY <1>1 DEF Closes, TypeOK
<1>8. ASSUME NEW c \in Clients PROVE holders'[c] # {} <=> conn'[c] \in Served
    <2>1. holders[c] # {} <=> conn[c] \in Served
        BY <1>1 DEF OwnConnectionOnly
    <2>2. CASE c \in hungup
        BY <1>4, <1>5, <2>2 DEF Served
    <2>3. CASE c \notin hungup /\ c \in refused
        BY <1>4, <1>5, <2>1, <2>3 DEF Served
    <2>4. CASE c \notin hungup /\ c \notin refused
        <3>1. conn'[c] = conn[c]
            BY <1>4, <2>4
        <3>2. holders'[c] # {} <=> holders[c] # {}
            BY <1>5, <2>4
        <3> QED
            BY <2>1, <3>1, <3>2
    <2> QED
        BY <2>2, <2>3, <2>4
<1> QED
    BY <1>4, <1>5, <1>6, <1>7, <1>8

LEMMA ParentExitsInv == IInv /\ ParentExits => IInv'
<1> SUFFICES ASSUME IInv, ParentExits PROVE IInv'
    OBVIOUS
<1>1. /\ pc' = "exited" /\ Closes(Parent, Clients, TRUE)
      /\ \A p \in Pids : proc'[p] = IF proc[p] = "zombie" THEN "none" ELSE proc[p]
      /\ UNCHANGED <<program, cfd, signalVars, task>>
    BY DEF ParentExits
<1>2. /\ ServiceTypeOK'
      /\ holders' \in [Clients -> SUBSET (Pids \cup {Parent})]
      /\ listeners' \subseteq Pids \cup {Parent}
      /\ \A c \in Clients : holders'[c] = holders[c] \ {Parent}
      /\ \A c \in Clients : holders'[c] # {} <=> conn'[c] \in Served
    BY <1>1, ClosesEffect
<1>3. TypeOK /\ OwnConnectionOnly /\ TaskInv
    BY DEF IInv
<1>4. \A p \in Pids : (Serving(p))' <=> Serving(p)
    BY <1>1 DEF Serving
<1>5. proc' \in [Pids -> Steps]
    BY <1>3 DEF ParentExits, TypeOK, Steps
<1>6. TypeOK'
    BY <1>1, <1>2, <1>3, <1>5 DEF TypeOK, signalVars
<1>7. OwnConnectionOnly'
    <2>1. \A p \in Pids, c \in Clients : p \in holders'[c] <=> (Serving(p))' /\ task'[p] = c
        BY <1>1, <1>2, <1>3, <1>4, ForkAssumption DEF OwnConnectionOnly
    <2> QED
        BY <1>1, <1>2, <2>1 DEF OwnConnectionOnly
<1>8. TaskInv' /\ NoZombieForgotten'
    BY <1>1, <1>3, <1>4 DEF TaskInv, NoZombieForgotten
<1> QED
    BY <1>6, <1>7, <1>8 DEF IInv

LEMMA AcceptInv == IInv /\ Accept => IInv'
<1> SUFFICES ASSUME IInv, Accept PROVE IInv'
    OBVIOUS
<1>1. PICK c \in Clients : /\ conn[c] = "queued" /\ Stage(c, "accepted") /\ cfd' = c
                           /\ holders' = [holders EXCEPT ![c] = {Parent}]
    BY DEF Accept
<1>2. /\ pc = "accept" /\ pc' = "fork"
      /\ UNCHANGED <<inbox, answers, fin, gone, reset, program, signalVars, childVars, listeners>>
    BY DEF Accept
<1>3. TypeOK /\ OwnConnectionOnly /\ TaskInv /\ NoZombieForgotten
    BY DEF IInv
<1>4. /\ conn' \in [Clients -> Stages] /\ conn'[c] \in Served
      /\ \A d \in Clients : d # c => conn'[d] = conn[d]
    BY <1>1, <1>3 DEF TypeOK, ServiceTypeOK, Stage, Stages, Served
<1>5. holders[c] = {}
    BY <1>1, <1>3 DEF OwnConnectionOnly, Served
<1>6. /\ holders' \in [Clients -> SUBSET (Pids \cup {Parent})] /\ holders'[c] = {Parent}
      /\ \A d \in Clients : d # c => holders'[d] = holders[d]
    BY <1>1, <1>3 DEF TypeOK
<1>7. \A p \in Pids : (Serving(p))' <=> Serving(p)
    BY <1>2 DEF Serving, childVars
<1>8. TypeOK'
    BY <1>1, <1>2, <1>3, <1>4, <1>6 DEF TypeOK, ServiceTypeOK, signalVars, childVars
<1>9. OwnConnectionOnly'
    <2>1. \A p \in Pids, d \in Clients : p \in holders'[d] <=> (Serving(p))' /\ task'[p] = d
        BY <1>2, <1>3, <1>5, <1>6, <1>7, ForkAssumption DEF OwnConnectionOnly, childVars
    <2>2. \A d \in Clients : Parent \in holders'[d] <=> pc' \in {"fork", "close"} /\ cfd' = d
        BY <1>1, <1>2, <1>3, <1>6 DEF OwnConnectionOnly
    <2>3. \A d \in Clients : holders'[d] # {} <=> conn'[d] \in Served
        BY <1>3, <1>4, <1>6 DEF OwnConnectionOnly
    <2> QED
        BY <2>1, <2>2, <2>3 DEF OwnConnectionOnly
<1>10. TaskInv'
    BY <1>1, <1>2, <1>3, <1>6, <1>7 DEF TaskInv, childVars
<1>11. NoZombieForgotten'
    BY <1>2, <1>3 DEF NoZombieForgotten, Zombies, signalVars, childVars
<1> QED
    BY <1>8, <1>9, <1>10, <1>11 DEF IInv

LEMMA ForkInv == ASSUME IInv, NEW p \in Pids, Fork(p) PROVE IInv'
<1>1. /\ pc = "fork" /\ pc' = "close" /\ proc[p] = "none"
      /\ proc' = [proc EXCEPT ![p] = "start"] /\ task' = [task EXCEPT ![p] = cfd]
      /\ listeners' = listeners \cup {p} /\ UNCHANGED <<serviceVars, program, cfd, signalVars>>
    BY DEF Fork
<1>2. TypeOK /\ OwnConnectionOnly /\ TaskInv /\ NoZombieForgotten
    BY DEF IInv
<1>3. cfd \in Clients /\ holders[cfd] = {Parent}
    BY <1>1, <1>2 DEF TaskInv
<1>4. conn' = conn /\ conn[cfd] \in Served
    BY <1>1, <1>2, <1>3 DEF OwnConnectionOnly, serviceVars
<1>5. /\ holders' \in [Clients -> SUBSET (Pids \cup {Parent})]
      /\ holders'[cfd] = {Parent, p}
      /\ \A d \in Clients : d # cfd => holders'[d] = holders[d]
    <2>1. holders' = [c \in Clients |->
            IF Parent \in holders[c] THEN holders[c] \cup {p} ELSE holders[c]]
        BY DEF Fork
    <2>2. \A d \in Clients : Parent \in holders[d] <=> d = cfd
        BY <1>1, <1>2, <1>3 DEF OwnConnectionOnly
    <2> QED
        BY <1>2, <1>3, <2>1, <2>2 DEF TypeOK
<1>6. /\ (Serving(p))' /\ task'[p] = cfd /\ ~Serving(p)
      /\ \A q \in Pids : q # p => task'[q] = task[q] /\ proc'[q] = proc[q]
    BY <1>1, <1>2 DEF TypeOK, Serving
<1>7. \A q \in Pids : q # p => ((Serving(q))' <=> Serving(q))
    BY <1>6 DEF Serving
<1>8. TypeOK'
    <2>1. proc' \in [Pids -> Steps] /\ task' \in [Pids -> Clients \cup {None}]
        BY <1>1, <1>2, <1>3 DEF TypeOK, Steps
    <2> QED
        BY <1>1, <1>2, <1>5, <2>1 DEF TypeOK, ServiceTypeOK, serviceVars, signalVars
<1>9. OwnConnectionOnly'
    <2>1. \A q \in Pids, d \in Clients : q \in holders'[d] <=> (Serving(q))' /\ task'[q] = d
        <3> TAKE q \in Pids, d \in Clients
        <3>1. CASE q = p
            BY <1>2, <1>3, <1>5, <1>6, <3>1 DEF OwnConnectionOnly
        <3>2. CASE q # p
            <4>1. q \in holders'[d] <=> q \in holders[d]
                BY <1>3, <1>5, <3>2
            <4>2. task'[q] = task[q] /\ ((Serving(q))' <=> Serving(q))
                BY <1>6, <1>7, <3>2
            <4> QED
                BY <1>2, <4>1, <4>2 DEF OwnConnectionOnly
        <3> QED
            BY <3>1, <3>2
    <2>2. \A d \in Clients : Parent \in holders'[d] <=> pc' \in {"fork", "close"} /\ cfd' = d
        BY <1>1, <1>2, <1>5, ForkAssumption DEF OwnConnectionOnly
    <2>3. \A d \in Clients : holders'[d] # {} <=> conn'[d] \in Served
        BY <1>2, <1>4, <1>5 DEF OwnConnectionOnly
    <2> QED
        BY <2>1, <2>2, <2>3 DEF OwnConnectionOnly
<1>10. TaskInv'
    BY <1>1, <1>2, <1>3, <1>6, <1>7 DEF TaskInv
<1>11. NoZombieForgotten'
    <2>1. Zombies' = Zombies
        BY <1>1, <1>6 DEF Zombies
    <2> QED
        BY <1>1, <1>2, <2>1 DEF NoZombieForgotten, signalVars
<1> QED
    BY <1>8, <1>9, <1>10, <1>11 DEF IInv

LEMMA ForkErrorInv == IInv /\ ForkError => IInv'
<1> SUFFICES ASSUME IInv, ForkError PROVE IInv'
    OBVIOUS
<1>1. CASE ParentExits
    BY <1>1, ParentExitsInv
<1>2. CASE ~ParentExits
    <2>1. /\ pc = "fork" /\ pc' = "close"
          /\ UNCHANGED <<serviceVars, program, cfd, signalVars, childVars, holders, listeners>>
        BY <1>2 DEF ForkError
    <2>2. TypeOK'
        BY <2>1 DEF IInv, TypeOK, ServiceTypeOK, serviceVars, signalVars, childVars
    <2>3. OwnConnectionOnly' /\ TaskInv' /\ NoZombieForgotten'
        BY <2>1 DEF IInv, OwnConnectionOnly, TaskInv, NoZombieForgotten, Zombies, Serving,
                    serviceVars, signalVars, childVars
    <2> QED
        BY <2>2, <2>3 DEF IInv
<1> QED
    BY <1>1, <1>2

LEMMA ParentClosesInv == IInv /\ ParentCloses => IInv'
<1> SUFFICES ASSUME IInv, ParentCloses PROVE IInv'
    OBVIOUS
<1>1. /\ pc = "close" /\ pc' = "accept" /\ cfd' = None /\ Closes(Parent, {cfd}, FALSE)
      /\ UNCHANGED <<program, signalVars, childVars>>
    BY DEF ParentCloses, ToClose
<1>2. TypeOK /\ OwnConnectionOnly /\ TaskInv /\ NoZombieForgotten
    BY DEF IInv
<1>3. cfd \in Clients
    BY <1>1, <1>2 DEF TaskInv
<1>4. /\ ServiceTypeOK'
      /\ holders' \in [Clients -> SUBSET (Pids \cup {Parent})]
      /\ listeners' \subseteq Pids \cup {Parent}
      /\ \A c \in Clients : holders'[c] = IF c \in {cfd} THEN holders[c] \ {Parent} ELSE holders[c]
      /\ \A c \in Clients : holders'[c] # {} <=> conn'[c] \in Served
    <2>1. {cfd} \in SUBSET Clients
        BY <1>3
    <2> QED
        BY <1>1, <2>1, ClosesEffect
<1>5. \A p \in Pids : (Serving(p))' <=> Serving(p)
    BY <1>1 DEF Serving, childVars
<1>6. TypeOK'
    BY <1>1, <1>2, <1>4 DEF TypeOK, signalVars, childVars
<1>7. OwnConnectionOnly'
    <2>1. \A p \in Pids, c \in Clients : p \in holders'[c] <=> (Serving(p))' /\ task'[p] = c
        BY <1>1, <1>2, <1>4, <1>5, ForkAssumption DEF OwnConnectionOnly, childVars
    <2>2. \A c \in Clients : Parent \notin holders'[c]
        BY <1>2, <1>4 DEF OwnConnectionOnly
    <2> QED
        BY <1>1, <1>4, <2>1, <2>2 DEF OwnConnectionOnly
<1>8. TaskInv' /\ NoZombieForgotten'
    BY <1>1, <1>2, <1>5 DEF TaskInv, NoZombieForgotten, Zombies, signalVars, childVars
<1> QED
    BY <1>6, <1>7, <1>8 DEF IInv

-----------------------------------------------------------------------------
LEMMA HandlerInv == IInv /\ Handler => IInv'
<1> SUFFICES ASSUME IInv, Handler PROVE IInv'
    OBVIOUS
<1>1. TypeOK /\ OwnConnectionOnly /\ TaskInv /\ NoZombieForgotten
    BY DEF IInv
<1>2. /\ UNCHANGED <<serviceVars, parentVars, task, holders, listeners>>
      /\ sig' \in BOOLEAN /\ pending' \in BOOLEAN
    BY <1>1 DEF Handler, Deliver, Waitpid, WaitAgain, childVars, TypeOK
<1>3. /\ proc' \in [Pids -> Steps] /\ \A p \in Pids : (Serving(p))' <=> Serving(p)
    <2>1. CASE proc' = proc
        BY <1>1, <2>1 DEF TypeOK, Serving
    <2>2. CASE proc' # proc
        <3>1. PICK p \in Zombies : proc' = [proc EXCEPT ![p] = "none"]
            BY <2>2 DEF Handler, Deliver, Waitpid, childVars
        <3> QED
            BY <1>1, <3>1 DEF TypeOK, Serving, Steps, Zombies
    <2> QED
        BY <2>1, <2>2
<1>4. TypeOK'
    BY <1>1, <1>2, <1>3 DEF TypeOK, ServiceTypeOK, serviceVars, parentVars
<1>5. OwnConnectionOnly' /\ TaskInv'
    BY <1>1, <1>2, <1>3 DEF OwnConnectionOnly, TaskInv, serviceVars, parentVars
<1>6. NoZombieForgotten'
    BY <1>2 DEF Handler, Deliver, Waitpid, WaitAgain, NoZombieForgotten, Zombies, childVars
<1> QED
    BY <1>4, <1>5, <1>6 DEF IInv

-----------------------------------------------------------------------------
\* A child that closes S is left with the connection it serves, if it serves one.
LEMMA ChildClosesInv ==
    ASSUME IInv, NEW p \in Pids, NEW S \in SUBSET Clients, NEW l \in BOOLEAN,
           NEW s \in Steps, Closes(p, S, l), Becomes(p, s),
           UNCHANGED <<parentVars, sig, task>>, pending' \in BOOLEAN,
           Serving(p) => IF s \in {"start", "serve", "farewell"} THEN S = {} ELSE task[p] \in S,
           s \in {"start", "serve", "farewell"} => Serving(p),
           s = "zombie" => pending' = TRUE,
           s # "zombie" => pending' = pending
    PROVE  IInv'
<1>1. TypeOK /\ OwnConnectionOnly /\ TaskInv /\ NoZombieForgotten
    BY DEF IInv
<1>2. /\ ServiceTypeOK'
      /\ holders' \in [Clients -> SUBSET (Pids \cup {Parent})]
      /\ listeners' \subseteq Pids \cup {Parent}
      /\ \A c \in Clients : holders'[c] = IF c \in S THEN holders[c] \ {p} ELSE holders[c]
      /\ \A c \in Clients : holders'[c] # {} <=> conn'[c] \in Served
    BY ClosesEffect
<1>3. /\ proc' \in [Pids -> Steps] /\ proc'[p] = s
      /\ \A q \in Pids : q # p => proc'[q] = proc[q]
    BY <1>1 DEF Becomes, TypeOK
<1>4. /\ (Serving(p))' <=> s \in {"start", "serve", "farewell"}
      /\ \A q \in Pids : q # p => ((Serving(q))' <=> Serving(q))
    BY <1>3 DEF Serving
<1>5. TypeOK'
    BY <1>1, <1>2, <1>3 DEF TypeOK, parentVars
<1>6. OwnConnectionOnly'
    <2>1. ASSUME NEW q \in Pids, NEW c \in Clients
          PROVE  q \in holders'[c] <=> (Serving(q))' /\ task'[q] = c
        <3>1. q \in holders[c] <=> Serving(q) /\ task[q] = c
            BY <1>1 DEF OwnConnectionOnly
        <3>2. CASE q # p
            BY <1>2, <1>4, <3>1, <3>2
        <3>3. CASE q = p
            <4>1. CASE (Serving(p))'
                BY <1>2, <1>4, <3>1, <3>3, <4>1
            <4>2. CASE ~(Serving(p))'
                <5>1. p \in holders[c] => c \in S
                    BY <1>4, <3>1, <3>3, <4>2
                <5> QED
                    BY <1>2, <3>3, <4>2, <5>1
            <4> QED
                BY <4>1, <4>2
        <3> QED
            BY <3>2, <3>3
    <2>2. \A c \in Clients : Parent \in holders'[c] <=> pc' \in {"fork", "close"} /\ cfd' = c
        BY <1>1, <1>2, ForkAssumption DEF OwnConnectionOnly, parentVars
    <2> QED
        BY <1>2, <2>1, <2>2 DEF OwnConnectionOnly
<1>7. TaskInv'
    <2>1. pc = "fork" => cfd \in Clients /\ holders[cfd] = {Parent}
        BY <1>1 DEF TaskInv
    <2>2. pc = "fork" => holders'[cfd] = {Parent}
        BY <1>2, <2>1, ForkAssumption
    <2>3. \A q \in Pids : (Serving(q))' => Serving(q)
        BY <1>4
    <2> QED
        BY <1>1, <2>2, <2>3 DEF TaskInv, parentVars
<1>8. NoZombieForgotten'
    <2>1. CASE s = "zombie"
        BY <2>1 DEF NoZombieForgotten
    <2>2. CASE s # "zombie"
        <3>1. Zombies' \subseteq Zombies
            BY <1>3, <2>2 DEF Zombies
        <3> QED
            BY <1>1, <2>2, <3>1 DEF NoZombieForgotten, parentVars
    <2> QED
        BY <2>1, <2>2
<1> QED
    BY <1>5, <1>6, <1>7, <1>8 DEF IInv

\* A child at its work keeps the connections where they are.
LEMMA ChildServesInv ==
    ASSUME IInv, NEW p \in Pids, Serving(p), NEW s \in {"serve", "farewell"},
           proc' = [proc EXCEPT ![p] = s], ServiceTypeOK',
           \A c \in Clients : conn'[c] \in Served <=> conn[c] \in Served,
           UNCHANGED <<parentVars, signalVars, task, holders, listeners>>
    PROVE  IInv'
<1>1. TypeOK /\ OwnConnectionOnly /\ TaskInv /\ NoZombieForgotten
    BY DEF IInv
<1>2. proc' \in [Pids -> Steps] /\ \A q \in Pids : (Serving(q))' <=> Serving(q)
    BY <1>1 DEF TypeOK, Steps, Serving
<1>3. Zombies' \subseteq Zombies
    BY <1>1 DEF TypeOK, Zombies
<1>4. TypeOK'
    BY <1>1, <1>2 DEF TypeOK, parentVars, signalVars
<1>5. OwnConnectionOnly' /\ TaskInv'
    BY <1>1, <1>2 DEF OwnConnectionOnly, TaskInv, parentVars
<1>6. NoZombieForgotten'
    BY <1>1, <1>3 DEF NoZombieForgotten, parentVars, signalVars
<1> QED
    BY <1>4, <1>5, <1>6 DEF IInv

LEMMA ChildInv == ASSUME IInv, NEW p \in Pids, Child(p) PROVE IInv'
<1>1. TypeOK /\ OwnConnectionOnly /\ TaskInv /\ pending \in BOOLEAN
    BY DEF IInv, TypeOK
<1>2. Serving(p) => task[p] \in Clients
    BY <1>1 DEF TaskInv
<1>3. CASE CloseListener(p)
    <2>1. /\ Serving(p) /\ Becomes(p, "serve") /\ Closes(p, {}, TRUE)
          /\ UNCHANGED <<parentVars, sig, task>> /\ pending' = pending
        BY <1>3 DEF CloseListener, signalVars, Serving
    <2> QED
        BY <1>1, <2>1, ChildClosesInv DEF Steps
<1>4. CASE Serve(p)
    <2>1. /\ proc[p] = "serve" /\ Serving(p) /\ (Read(task[p]) \/ Write(task[p]))
          /\ UNCHANGED <<parentVars, signalVars, task, holders, listeners>>
        BY <1>4 DEF Serve, Serving
    <2>2. proc' = [proc EXCEPT ![p] = "farewell"] \/ proc' = [proc EXCEPT ![p] = "serve"]
        BY <1>1, <1>4, <2>1 DEF Serve, Becomes, TypeOK
    <2>3. ServiceTypeOK' /\ \A c \in Clients : conn'[c] \in Served <=> conn[c] \in Served
        <3>1. ServiceTypeOK /\ task[p] \in Clients
            BY <1>1, <1>2, <2>1 DEF TypeOK
        <3> QED
            BY <2>1, <3>1, HandleInfoType
    <2>4. CASE proc' = [proc EXCEPT ![p] = "farewell"]
        BY <2>1, <2>3, <2>4, ChildServesInv
    <2>5. CASE proc' = [proc EXCEPT ![p] = "serve"]
        BY <2>1, <2>3, <2>5, ChildServesInv
    <2> QED
        BY <2>2, <2>4, <2>5
<1>5. CASE Farewell(p)
    <2> DEFINE c == task[p]
    <2>1. /\ Serving(p) /\ proc' = [proc EXCEPT ![p] = "serve"] /\ c \in Clients
          /\ UNCHANGED <<conn, inbox, fin, gone, parentVars, signalVars, task, holders, listeners>>
        BY <1>2, <1>5 DEF Farewell, Serving, Becomes
    <2>2. reset' \in [Clients -> Resets]
        <3>1. reset' = reset \/ reset' = [reset EXCEPT ![c] = "due"]
            BY <1>5 DEF Farewell
        <3> QED
            BY <1>1, <3>1 DEF TypeOK, ServiceTypeOK, Resets
    <2>3. answers' \in [Clients -> 0..Outbox]
        <3>1. answers' = answers \/ (answers[c] < Outbox /\ answers' = [answers EXCEPT ![c] = @ + 1])
            BY <1>5 DEF Farewell, Room
        <3>2. answers \in [Clients -> 0..Outbox]
            BY <1>1 DEF TypeOK, ServiceTypeOK
        <3>3. answers[c] < Outbox => answers[c] + 1 \in 0..Outbox
            BY <2>1, <3>2, ServiceAssumption
        <3> QED
            BY <3>1, <3>2, <3>3
    <2>4. ServiceTypeOK'
        BY <1>1, <2>1, <2>2, <2>3 DEF TypeOK, ServiceTypeOK
    <2> QED
        BY <2>1, <2>4, ChildServesInv
<1>6. CASE CloseConnection(p)
    <2>1. /\ Serving(p) /\ Becomes(p, "exit") /\ Closes(p, {task[p]}, FALSE)
          /\ UNCHANGED <<parentVars, sig, task>> /\ pending' = pending
        BY <1>6 DEF CloseConnection, TaskDone, signalVars, Serving
    <2>2. {task[p]} \in SUBSET Clients
        BY <1>2, <2>1
    <2> QED
        BY <1>1, <2>1, <2>2, ChildClosesInv DEF Steps
<1>7. CASE Begin(p)
    <2>1. /\ proc[p] = "serve" /\ Serving(p) /\ proc' = proc
          /\ conn[task[p]] = "accepted" /\ \E s \in {"reading", "over"} : Stage(task[p], s)
          /\ UNCHANGED <<inbox, answers, fin, gone, reset, parentVars, signalVars, task, holders, listeners>>
        BY <1>7 DEF Begin, Serving, childVars
    <2>2. proc' = [proc EXCEPT ![p] = "serve"]
        BY <1>1, <2>1 DEF TypeOK
    <2>3. ServiceTypeOK' /\ \A c \in Clients : conn'[c] \in Served <=> conn[c] \in Served
        BY <1>1, <1>2, <2>1 DEF TypeOK, ServiceTypeOK, Stage, Stages, Served
    <2> QED
        BY <2>1, <2>2, <2>3, ChildServesInv
<1>8. CASE Exit(p) \/ Killed(p)
    <2>1. Ends(p)
        BY <1>8 DEF Exit, Killed
    <2>2. /\ Closes(p, Clients, TRUE) /\ UNCHANGED <<parentVars, sig, task>>
          /\ \/ Becomes(p, "none") /\ pending' = pending
             \/ Becomes(p, "zombie") /\ pending' = TRUE
        BY <2>1 DEF Ends
    <2>3. CASE Becomes(p, "none") /\ pending' = pending
        BY <1>1, <1>2, <2>2, <2>3, ChildClosesInv DEF Steps
    <2>4. CASE Becomes(p, "zombie") /\ pending' = TRUE
        BY <1>1, <1>2, <2>2, <2>4, ChildClosesInv DEF Steps
    <2> QED
        BY <2>2, <2>3, <2>4
<1> QED
    BY <1>3, <1>4, <1>5, <1>6, <1>7, <1>8 DEF Child

LEMMA ClientStepInv == ASSUME IInv, NEW c \in Clients, ClientStep(c) PROVE IInv'
<1>1. Client(c) /\ UNCHANGED <<parentVars, signalVars, childVars, holders, listeners>>
    BY DEF ClientStep, Around
<1>2. ServiceTypeOK' /\ \A d \in Clients : conn'[d] \in Served <=> conn[d] \in Served
    <2>1. ServiceTypeOK
        BY DEF IInv, TypeOK
    <2> QED
        BY <1>1, <2>1, ClientStepType
<1>3. TypeOK'
    BY <1>1, <1>2 DEF IInv, TypeOK, parentVars, signalVars, childVars
<1>4. OwnConnectionOnly'
    BY <1>1, <1>2 DEF IInv, OwnConnectionOnly, Serving, parentVars, childVars
<1>5. TaskInv' /\ NoZombieForgotten'
    BY <1>1 DEF IInv, TaskInv, NoZombieForgotten, Zombies, Serving,
                parentVars, signalVars, childVars
<1> QED
    BY <1>3, <1>4, <1>5 DEF IInv

LEMMA NextInv == IInv /\ [Next]_vars => IInv'
<1> SUFFICES ASSUME IInv, [Next]_vars PROVE IInv'
    OBVIOUS
<1>1. CASE ParentStep
    BY <1>1, AcceptInv, ForkInv, ForkErrorInv, ParentClosesInv DEF ParentStep
<1>2. CASE AcceptError \/ CloseError
    BY <1>2, ParentExitsInv DEF AcceptError, CloseError
<1>3. CASE Handler
    BY <1>3, HandlerInv
<1>4. ASSUME NEW p \in Pids, Child(p) PROVE IInv'
    BY <1>4, ChildInv
<1>5. ASSUME NEW c \in Clients, ClientStep(c) PROVE IInv'
    BY <1>5, ClientStepInv
<1>6. CASE UNCHANGED vars
    <2>1. UNCHANGED <<serviceVars, parentVars, signalVars, childVars, holders, listeners>>
        BY <1>6 DEF vars
    <2>2. TypeOK'
        BY <2>1 DEF IInv, TypeOK, ServiceTypeOK, serviceVars, parentVars, signalVars, childVars
    <2>3. OwnConnectionOnly' /\ TaskInv' /\ NoZombieForgotten'
        BY <2>1 DEF IInv, OwnConnectionOnly, TaskInv, NoZombieForgotten, Zombies, Serving,
                    serviceVars, parentVars, signalVars, childVars
    <2> QED
        BY <2>2, <2>3 DEF IInv
<1> QED
    BY <1>1, <1>2, <1>3, <1>4, <1>5, <1>6 DEF Next

LEMMA Invariance == Spec => []IInv
BY InitInv, NextInv, PTL DEF Spec

-----------------------------------------------------------------------------
\* Every variable of the forking servers keeps its type.
THEOREM TypeCorrect == Spec => []TypeOK
<1>1. IInv => TypeOK
    BY DEF IInv
<1> QED
    BY <1>1, Invariance, PTL

\* However many children end while SIGCHLD is pending or being handled, none
\* stays a zombie unnoticed by sig_handle.
THEOREM ZombiesNoticed == Spec => []NoZombieForgotten
<1>1. IInv => NoZombieForgotten
    BY DEF IInv
<1> QED
    BY <1>1, Invariance, PTL

\* Across fork, close, exit and SIGPIPE every process holds the connection it is
\* to serve, and no other.
THEOREM DescriptorsCorrect == Spec => []OwnConnectionOnly
<1>1. IInv => OwnConnectionOnly
    BY DEF IInv
<1> QED
    BY <1>1, Invariance, PTL
=============================================================================
