------------------------- MODULE SelectServerProofs -------------------------
(***************************************************************************)
(* Theorems about the select loop, for any FD_SETSIZE, descriptor limit    *)
(* and set of clients.                                                     *)
(***************************************************************************)
EXTENDS SelectServerProperties, FiniteSetTheorems, TcpServiceProofs, TLAPS

AtWork == pc \in {"select", "accept", "scan", "serve", "next"}

\* The three views of what is open agree.
TableInv ==
    /\ \A k \in Slots : cfds[k] \in Open /\ k <= max_index /\ cfds[k] <= maxfd
    /\ \A f \in Open : \E k \in Index : cfds[k] = f
    /\ \A j, k \in Slots : cfds[j] = cfds[k] => j = k
    /\ all_set = Open \cup {lfd}

\* A descriptor that fits no fd_set is never watched.
FitInv == \A f \in Open : f < FD_SETSIZE

\* Each connection between accept and close has its descriptor.
ClientInv ==
    /\ \A f \in Open : conn[client[f]] \in Served
    /\ \A f, g \in Open : client[f] = client[g] => f = g
    /\ \A c \in Clients : conn[c] \in Served => \E f \in Open : client[f] = c

\* While the server is in handle_info, slot i holds the descriptor it serves.
ServeInv == pc = "serve" => i \in Index /\ cfds[i] = cfd /\ cfd # -1

IInv ==
    /\ TypeOK
    /\ AtWork => TableInv /\ FitInv /\ ClientInv /\ ServeInv
    /\ pc # "too many"
    /\ Limit <= FD_SETSIZE => pc # "overflow"


-----------------------------------------------------------------------------
\* The numbers among the variables, and where they lie.
LEMMA NumberType ==
    ASSUME TypeOK
    PROVE  /\ cfds \in [Index -> Fd \cup {-1}] /\ max_index \in Index
           /\ maxfd \in Fd \cup {lfd} /\ i \in Nat /\ fd_num \in Int
           /\ cfd \in Fd \cup {-1, 0}
BY DEF TypeOK, ServiceTypeOK

LEMMA Ranges ==
    /\ \A k \in Index : k \in Nat /\ \A n \in Nat : n <= k => n \in Index
    /\ \A f \in Fd \cup {lfd} : f \in Nat
    /\ \A f \in Fd \cup {-1} : f \in Int /\ (~(f < 0) <=> f # -1)
    /\ Fd \subseteq Fd \cup {lfd} /\ -1 \notin Fd
BY SelectAssumption DEF Index, Fd

LEMMA InitInv == Init => IInv
<1> SUFFICES ASSUME Init PROVE IInv
    OBVIOUS
<1> USE SelectAssumption, ServiceAssumption DEF Init, ServiceInit
<1>1. Slots = {} /\ Open = {}
    BY DEF Slots, Open, Vacant
<1>2. TypeOK
    <2>1. inbox \in [Clients -> Seq(Message)]
        BY EmptySeq
    <2>2. cfds \in [Index -> Fd \cup {-1}] /\ max_index \in Index
        BY DEF Index, Vacant
    <2>3. ServiceTypeOK
        BY <2>1 DEF ServiceTypeOK, Stages, Resets
    <2>4. client \in [Fd -> Clients \cup {None}] /\ all_set \subseteq Fd \cup {lfd}
        OBVIOUS
    <2> QED
        BY <2>2, <2>3, <2>4 DEF TypeOK, ServiceTypeOK
<1>3. TableInv /\ FitInv /\ ClientInv /\ ServeInv
    BY <1>1 DEF TableInv, FitInv, ClientInv, ServeInv, Served
<1> QED
    BY <1>2, <1>3 DEF IInv

LEMMA ClientStepInv ==
    ASSUME IInv, NEW c \in Clients, ClientStep(c)
    PROVE  IInv'
<1>1. ServiceTypeOK' /\ \A d \in Clients : conn'[d] \in Served <=> conn[d] \in Served
    BY ClientStepType DEF IInv, TypeOK, ServiceTypeOK, ClientStep
<1>2. UNCHANGED <<pc, tableVars, localVars, client>>
    BY DEF ClientStep
<1>3. TypeOK'
    BY <1>1, <1>2 DEF IInv, TypeOK, ServiceTypeOK, tableVars, localVars
<1>4. Slots' = Slots /\ Open' = Open /\ AtWork' = AtWork
    BY <1>2 DEF Slots, Open, AtWork, tableVars
<1>5. AtWork => TableInv' /\ FitInv' /\ ServeInv'
    BY <1>2, <1>4 DEF IInv, TableInv, FitInv, ServeInv, tableVars, localVars
<1>6. AtWork => ClientInv'
    <2>1. \A f \in Open : client[f] \in Clients
        BY DEF IInv, TypeOK, ServiceTypeOK, Open
    <2> QED
        BY <1>1, <1>2, <1>4, <2>1 DEF IInv, ClientInv
<1> QED
    BY <1>2, <1>3, <1>4, <1>5, <1>6 DEF IInv

LEMMA SelectInv == IInv /\ Select => IInv'
<1> SUFFICES ASSUME IInv, Select PROVE IInv'
    OBVIOUS
<1> DEFINE ready == {f \in all_set : f <= maxfd /\ Ready(f)}
<1>1. /\ pc = "select" /\ rd_set' = ready /\ fd_num' = Cardinality(ready)
      /\ pc' \in {"accept", "scan"} /\ i' \in {i, 0}
      /\ UNCHANGED <<serviceVars, tableVars, cfd, client>>
    BY DEF Select
<1>2. Slots' = Slots /\ Open' = Open
    BY <1>1 DEF Slots, Open, tableVars
<1>3. fd_num' \in Int
    <2>1. IsFiniteSet(lfd..(Limit - 1))
        BY FS_Interval, SelectAssumption
    <2>2. ready \subseteq lfd..(Limit - 1)
        <3>1. ready \subseteq all_set
            OBVIOUS
        <3>2. all_set \subseteq Fd \cup {lfd}
            BY DEF IInv, TypeOK, ServiceTypeOK
        <3>3. Fd \cup {lfd} \subseteq lfd..(Limit - 1)
            BY SelectAssumption DEF Fd
        <3> HIDE DEF ready
        <3> QED
            BY <3>1, <3>2, <3>3
    <2>3. IsFiniteSet(ready)
        BY <2>1, <2>2, FS_Subset
    <2>4. Cardinality(ready) \in Nat
        BY <2>3, FS_CardinalityType
    <2> QED
        BY <1>1, <2>4
<1>4. TypeOK'
    <2>1. rd_set' \subseteq all_set
        BY <1>1
    <2>2. rd_set' \subseteq Fd \cup {lfd} /\ i' \in Nat
        BY <1>1, <2>1 DEF IInv, TypeOK, ServiceTypeOK
    <2>3. pc' \in {"accept", "scan"} /\ UNCHANGED <<serviceVars, tableVars, cfd, client>>
        BY <1>1
    <2> QED
        BY <1>3, <2>2, <2>3 DEF IInv, TypeOK, ServiceTypeOK, serviceVars, tableVars
<1>5. TableInv /\ FitInv /\ ClientInv
    BY <1>1 DEF IInv, AtWork
<1>6. TableInv' /\ FitInv'
    BY <1>1, <1>2, <1>5 DEF TableInv, FitInv, tableVars
<1>7. ClientInv' /\ ServeInv'
    BY <1>1, <1>2, <1>5 DEF ClientInv, ServeInv, serviceVars
<1> QED
    BY <1>1, <1>4, <1>6, <1>7 DEF IInv

LEMMA AcceptErrorInv == IInv /\ AcceptError => IInv'
BY DEF AcceptError, IInv, AtWork, TypeOK, ServiceTypeOK, serviceVars, tableVars

\* What accept does to the connections and the descriptors.
LEMMA AcceptedInv ==
    ASSUME IInv, AtWork, NEW c \in Clients, NEW f \in Fd, Accepted(c, f)
    PROVE  /\ f \notin Open /\ Open' = Open \cup {f}
           /\ conn' \in [Clients -> Stages] /\ client' \in [Fd -> Clients \cup {None}]
           /\ ClientInv'
<1>1. /\ conn[c] = "queued" /\ conn' = [conn EXCEPT ![c] = "accepted"]
      /\ f \notin Open /\ client' = [client EXCEPT ![f] = c]
    BY DEF Accepted, Stage
<1>2. /\ conn \in [Clients -> Stages] /\ client \in [Fd -> Clients \cup {None}]
      /\ ClientInv
    BY DEF IInv, TypeOK, ServiceTypeOK
<1>3. c # None
    BY SelectAssumption
<1>4. Open' = Open \cup {f}
    BY <1>1, <1>2, <1>3 DEF Open
<1>5. conn' \in [Clients -> Stages] /\ client' \in [Fd -> Clients \cup {None}]
    BY <1>1, <1>2 DEF Stages
<1>6. \A g \in Open : client[g] \in Clients /\ client[g] # c /\ client'[g] = client[g]
    BY <1>1, <1>2 DEF ClientInv, Open, Served
<1>7. client'[f] = c
    BY <1>1, <1>2
<1>8. ClientInv'
    <2>1. \A g \in Open' : conn'[client'[g]] \in Served
        BY <1>1, <1>2, <1>4, <1>6, <1>7 DEF ClientInv, Served
    <2>2. \A g, h \in Open' : client'[g] = client'[h] => g = h
        BY <1>2, <1>4, <1>6, <1>7 DEF ClientInv
    <2>3. \A d \in Clients : conn'[d] \in Served => \E g \in Open' : client'[g] = d
        BY <1>1, <1>2, <1>4, <1>6, <1>7 DEF ClientInv
    <2> QED
        BY <2>1, <2>2, <2>3 DEF ClientInv
<1> QED
    BY <1>1, <1>4, <1>5, <1>8

LEMMA OverflowInv == IInv /\ Overflow => IInv'
<1> SUFFICES ASSUME IInv, Overflow PROVE IInv'
    OBVIOUS
<1>1. PICK c \in Clients, f \in Fd : Accepted(c, f) /\ f >= FD_SETSIZE
    BY DEF Overflow
<1>2. AtWork /\ pc' = "overflow" /\ UNCHANGED <<tableVars, rd_set, i, fd_num>>
    BY DEF Overflow, AtWork
<1>3. conn' \in [Clients -> Stages] /\ client' \in [Fd -> Clients \cup {None}]
    BY <1>1, <1>2, AcceptedInv
<1>4. ~(Limit <= FD_SETSIZE)
    BY <1>1, SelectAssumption DEF Fd
<1>5. cfd' = f /\ UNCHANGED <<inbox, answers, fin, gone, reset>>
    BY <1>1 DEF Accepted
<1>6. TypeOK'
    BY <1>2, <1>3, <1>5 DEF IInv, TypeOK, ServiceTypeOK, tableVars
<1> QED
    BY <1>2, <1>4, <1>6 DEF IInv, AtWork

\* FD_SETSIZE slots would need as many descriptors between lfd and FD_SETSIZE.
LEMMA TableNotFull ==
    ASSUME IInv, AtWork
    PROVE  Slots # Index
<1> SUFFICES ASSUME Slots = Index PROVE FALSE
    OBVIOUS
<1> DEFINE T == (lfd + 1)..(FD_SETSIZE - 1)
<1>1. TableInv /\ FitInv /\ cfds \in [Index -> Fd \cup {-1}]
    BY DEF IInv, TypeOK, ServiceTypeOK
<1>2. \A k \in Index : cfds[k] \in Open /\ cfds[k] < FD_SETSIZE
    BY <1>1 DEF TableInv, FitInv
<1>3. \A k \in Index : cfds[k] \in T
    BY <1>2, SelectAssumption DEF Open, Fd
<1>4. cfds \in [Index -> T]
    BY <1>1, <1>3
<1>5. IsFiniteSet(Index) /\ Cardinality(Index) = FD_SETSIZE
    BY FS_Interval, SelectAssumption DEF Index
<1>6. IsFiniteSet(T) /\ Cardinality(T) < FD_SETSIZE
    <2>1. lfd + 1 \in Int /\ FD_SETSIZE - 1 \in Int
        BY SelectAssumption
    <2>2. /\ IsFiniteSet(T)
          /\ Cardinality(T) = IF lfd + 1 > FD_SETSIZE - 1 THEN 0
                              ELSE (FD_SETSIZE - 1) - (lfd + 1) + 1
        BY <2>1, FS_Interval
    <2> HIDE DEF T
    <2> QED
        BY <2>2, SelectAssumption
<1> HIDE DEF T
<1>7. \E j, k \in Index : j # k /\ cfds[j] = cfds[k]
    BY <1>4, <1>5, <1>6, FS_PigeonHole
<1> QED
    BY <1>1, <1>7 DEF TableInv

LEMMA AcceptInv == IInv /\ Accept => IInv'
<1> SUFFICES ASSUME IInv, Accept PROVE IInv'
    OBVIOUS
<1>1. PICK c \in Clients, f \in Fd :
        Accepted(c, f) /\ (f < FD_SETSIZE \/ Slots = Index) /\ Watch(f)
    BY DEF Accept
<1>2. AtWork /\ rd_set' = rd_set
    BY DEF Accept, AtWork
<1>3. Slots # Index
    BY <1>2, TableNotFull
<1>4. PICK k \in Index :
        FirstEmpty(k) /\ cfds' = [cfds EXCEPT ![k] = f] /\ max_index' = HighWater(k)
    BY <1>1, <1>3 DEF Watch
<1>5. /\ f < FD_SETSIZE /\ all_set' = all_set \cup {f}
      /\ maxfd' = IF f > maxfd THEN f ELSE maxfd
      /\ fd_num' = fd_num - 1
      /\ pc' \in {"select", "scan"} /\ i' \in {i, 0}
    BY <1>1, <1>3 DEF Watch
<1>6. /\ f \notin Open /\ Open' = Open \cup {f}
      /\ conn' \in [Clients -> Stages] /\ client' \in [Fd -> Clients \cup {None}]
      /\ ClientInv'
    BY <1>1, <1>2, AcceptedInv
<1>7. cfd' = f /\ UNCHANGED <<inbox, answers, fin, gone, reset>>
    BY <1>1 DEF Accepted
<1>8. TableInv /\ FitInv /\ TypeOK
    BY <1>2 DEF IInv
<1>9. max_index' \in Index /\ max_index' >= max_index /\ max_index' >= k
    <2>1. max_index \in Index /\ k \in Nat /\ max_index \in Nat
        BY <1>8, NumberType, Ranges
    <2> QED
        BY <1>4, <2>1 DEF HighWater
<1>10. maxfd' \in Fd \cup {lfd} /\ maxfd' >= maxfd /\ maxfd' >= f
    <2>1. maxfd \in Fd \cup {lfd} /\ maxfd \in Nat /\ f \in Nat
        BY <1>8, NumberType, Ranges
    <2> QED
        BY <1>5, <2>1
<1>11. TypeOK'
    <2>1. cfds' \in [Index -> Fd \cup {-1}]
        BY <1>4, <1>8 DEF TypeOK, ServiceTypeOK
    <2>2. ServiceTypeOK'
        BY <1>6, <1>7, <1>8 DEF TypeOK, ServiceTypeOK
    <2>3. all_set' \subseteq Fd \cup {lfd} /\ rd_set' \subseteq Fd \cup {lfd}
        BY <1>2, <1>5, <1>8 DEF TypeOK, ServiceTypeOK
    <2>4. i' \in Nat /\ cfd' \in Fd \cup {-1, 0} /\ fd_num' \in Int
        <3>1. i \in Nat /\ fd_num \in Int
            BY <1>8, NumberType
        <3> QED
            BY <1>5, <1>7, <3>1
    <2> QED
        BY <1>5, <1>6, <1>9, <1>10, <2>1, <2>2, <2>3, <2>4 DEF TypeOK, ServiceTypeOK
<1>12. FitInv'
    BY <1>5, <1>6, <1>8 DEF FitInv
<1>13. TableInv'
    <2>1. Slots' = Slots \cup {k} /\ k \notin Slots /\ cfds'[k] = f
        <3>1. cfds \in [Index -> Fd \cup {-1}] /\ f # -1
            BY <1>8, NumberType, Ranges
        <3> QED
            BY <1>4, <3>1 DEF Slots, FirstEmpty, Vacant
    <2>2. \A j \in Index : j # k => cfds'[j] = cfds[j]
        BY <1>4, <1>8 DEF TypeOK, ServiceTypeOK
    <2>3. Slots \subseteq Index
        BY DEF Slots
    <2>4. \A j \in Slots' : cfds'[j] \in Open'
        BY <1>6, <1>8, <2>1, <2>2, <2>3 DEF TableInv
    <2>5. \A j \in Slots' : j <= max_index' /\ cfds'[j] <= maxfd'
        <3> TAKE j \in Slots'
        <3>1. CASE j = k
            BY <1>9, <1>10, <2>1, <3>1
        <3>2. CASE j # k
            <4>1. j \in Slots /\ cfds'[j] = cfds[j] /\ j <= max_index /\ cfds[j] <= maxfd
                BY <1>8, <2>1, <2>2, <2>3, <3>2 DEF TableInv
            <4>2. /\ j \in Int /\ max_index \in Int /\ max_index' \in Int
                  /\ cfds[j] \in Int /\ maxfd \in Int /\ maxfd' \in Int
                BY <1>8, <1>9, <1>10, <2>3, <4>1, NumberType, Ranges
            <4> QED
                BY <1>9, <1>10, <4>1, <4>2
        <3> QED
            BY <3>1, <3>2
    <2>6. \A g \in Open' : \E j \in Index : cfds'[j] = g
        <3> TAKE g \in Open'
        <3>1. CASE g = f
            BY <2>1, <3>1
        <3>2. CASE g # f
            <4>1. PICK j \in Index : cfds[j] = g
                BY <1>6, <1>8, <3>2 DEF TableInv
            <4>2. j # k
                BY <1>4, <4>1, SelectAssumption DEF FirstEmpty, Vacant, Fd, Open
            <4> QED
                BY <2>2, <4>1, <4>2
        <3> QED
            BY <3>1, <3>2
    <2>7. \A j, l \in Slots' : cfds'[j] = cfds'[l] => j = l
        BY <1>6, <1>8, <2>1, <2>2, <2>3 DEF TableInv
    <2>8. all_set' = Open' \cup {lfd}
        BY <1>5, <1>6, <1>8 DEF TableInv
    <2> QED
        BY <2>4, <2>5, <2>6, <2>7, <2>8 DEF TableInv
<1> QED
    BY <1>5, <1>6, <1>11, <1>12, <1>13 DEF IInv, ServeInv

LEMMA ScanInv == IInv /\ Scan => IInv'
<1> SUFFICES ASSUME IInv, Scan PROVE IInv'
    OBVIOUS
<1>1. AtWork /\ TypeOK /\ TableInv /\ FitInv /\ ClientInv
    BY DEF Scan, AtWork, IInv
<1>2. UNCHANGED <<inbox, answers, fin, gone, reset, cfds, all_set, maxfd, max_index,
                  rd_set, fd_num, client>>
    BY DEF Scan, tableVars
<1>3. Slots' = Slots /\ Open' = Open
    BY <1>2 DEF Slots, Open
<1>4. TableInv' /\ FitInv'
    BY <1>1, <1>2, <1>3 DEF TableInv, FitInv
<1>5. i <= max_index => i \in Index /\ cfds[i] \in Fd \cup {-1}
    BY <1>1, NumberType, Ranges
<1>6. CASE i > max_index
    BY <1>1, <1>2, <1>3, <1>4, <1>6 DEF Scan, IInv, TypeOK, ServiceTypeOK, AtWork, ClientInv, ServeInv
<1>7. CASE ~(i > max_index) /\ ~(cfds[i] < 0) /\ cfds[i] \in all_set
    <2>1. i \in Index /\ i \in Slots /\ cfds[i] \in Open /\ client[cfds[i]] \in Clients
        <3>1. i \in Nat /\ max_index \in Nat
            BY <1>1, NumberType, Ranges
        <3>2. i \in Index /\ cfds[i] \in Fd \cup {-1} /\ cfds[i] # -1
            BY <1>5, <1>7, <3>1, Ranges
        <3>3. i \in Slots /\ cfds[i] \in Open
            BY <1>1, <3>2 DEF Slots, Vacant, TableInv
        <3> QED
            BY <1>1, <3>2, <3>3 DEF TypeOK, ServiceTypeOK, Open
    <2>2. /\ cfd' = cfds[i] /\ pc' = "serve" /\ i' = i
          /\ conn' = [conn EXCEPT ![client[cfds[i]]] = "reading"]
        BY <1>7 DEF Scan, Stage
    <2>3. conn[client[cfds[i]]] \in Served
        BY <1>1, <2>1 DEF ClientInv
    <2>4. conn' \in [Clients -> Stages] /\ \A d \in Clients : conn'[d] \in Served <=> conn[d] \in Served
        BY <1>1, <2>1, <2>2, <2>3 DEF TypeOK, ServiceTypeOK, Stages, Served
    <2>5. cfd' \in Fd /\ cfd' # -1
        BY <2>1, <2>2, SelectAssumption DEF Open, Fd
    <2>6. TypeOK'
        BY <1>1, <1>2, <2>2, <2>4, <2>5 DEF TypeOK, ServiceTypeOK
    <2>7. \A g \in Open : client[g] \in Clients
        BY <1>1 DEF TypeOK, ServiceTypeOK, Open
    <2>8. ClientInv'
        BY <1>1, <1>2, <1>3, <2>4, <2>7 DEF ClientInv
    <2>9. ServeInv'
        BY <1>2, <2>1, <2>2, <2>5 DEF ServeInv
    <2> QED
        BY <1>4, <2>2, <2>6, <2>8, <2>9 DEF IInv
<1>8. CASE ~(i > max_index) /\ (cfds[i] < 0 \/ cfds[i] \notin all_set)
    <2>1. i \in Nat /\ cfds[i] \in Fd \cup {-1}
        <3>1. i \in Nat /\ max_index \in Nat
            BY <1>1, NumberType, Ranges
        <3> QED
            BY <1>5, <1>8, <3>1
    <2>2. /\ cfd' = cfds[i] /\ pc' \in {"scan", "next"} /\ i' \in {i, i + 1}
          /\ conn' = conn
        BY <1>8 DEF Scan
    <2>3. TypeOK'
        <3>1. i' \in Nat /\ cfd' \in Fd \cup {-1, 0}
            BY <2>1, <2>2
        <3>2. pc' \in {"scan", "next"} /\ conn' = conn
            BY <2>2
        <3> QED
            BY <1>1, <1>2, <3>1, <3>2 DEF TypeOK, ServiceTypeOK
    <2>4. ClientInv'
        BY <1>1, <1>2, <1>3, <2>2 DEF ClientInv
    <2> QED
        BY <1>4, <2>2, <2>3, <2>4 DEF IInv, ServeInv
<1> QED
    BY <1>6, <1>7, <1>8

LEMMA HandleInfoInv == IInv /\ Serve => IInv'
<1> SUFFICES ASSUME IInv, Serve PROVE IInv'
    OBVIOUS
<1>1. /\ pc = "serve" /\ UNCHANGED <<pc, tableVars, localVars, client>>
      /\ Read(client[cfd]) \/ Write(client[cfd])
    BY DEF Serve
<1>2. TypeOK /\ TableInv /\ FitInv /\ ClientInv /\ ServeInv
    BY <1>1 DEF IInv, AtWork
<1>3. cfd \in Open
    BY <1>1, <1>2 DEF ServeInv, TableInv, Slots, Vacant
<1>4. client[cfd] \in Clients /\ \A f \in Open : client[f] \in Clients
    BY <1>2, <1>3 DEF TypeOK, ServiceTypeOK, Open
<1>5. ServiceTypeOK' /\ \A d \in Clients : conn'[d] \in Served <=> conn[d] \in Served
    <2>1. ServiceTypeOK
        BY <1>2 DEF TypeOK, ServiceTypeOK
    <2> QED
        BY <1>1, <1>4, <2>1, HandleInfoType
<1>6. Slots' = Slots /\ Open' = Open
    BY <1>1 DEF Slots, Open, tableVars
<1>7. TypeOK'
    BY <1>1, <1>2, <1>5 DEF TypeOK, ServiceTypeOK, tableVars, localVars
<1>8. TableInv' /\ FitInv' /\ ServeInv'
    BY <1>1, <1>2, <1>6 DEF TableInv, FitInv, ServeInv, tableVars, localVars
<1>9. ClientInv'
    BY <1>1, <1>2, <1>4, <1>5, <1>6 DEF ClientInv
<1> QED
    BY <1>1, <1>7, <1>8, <1>9 DEF IInv

LEMMA KilledInv == IInv /\ Killed => IInv'
BY DEF Killed, IInv, AtWork, TypeOK, ServiceTypeOK, serviceVars, tableVars, localVars

LEMMA NextSlotInv == IInv /\ NextSlot => IInv'
<1> SUFFICES ASSUME IInv, NextSlot PROVE IInv'
    OBVIOUS
<1>1. /\ AtWork /\ pc' \in {"select", "scan"} /\ i' \in {i, i + 1} /\ fd_num' = fd_num - 1
      /\ UNCHANGED <<serviceVars, tableVars, rd_set, cfd, client>>
    BY DEF NextSlot, AtWork
<1>2. TypeOK /\ TableInv /\ FitInv /\ ClientInv
    BY <1>1 DEF IInv
<1>3. Slots' = Slots /\ Open' = Open
    BY <1>1 DEF Slots, Open, tableVars
<1>4. i' \in Nat /\ fd_num' \in Int
    BY <1>1, <1>2, NumberType
<1>5. TypeOK'
    BY <1>1, <1>2, <1>4 DEF TypeOK, ServiceTypeOK, serviceVars, tableVars
<1>6. TableInv' /\ FitInv'
    BY <1>1, <1>2, <1>3 DEF TableInv, FitInv, tableVars
<1>7. ClientInv'
    BY <1>1, <1>2, <1>3 DEF ClientInv, serviceVars
<1> QED
    BY <1>1, <1>5, <1>6, <1>7 DEF IInv, ServeInv

LEMMA CloseInv == IInv /\ Close => IInv'
<1> SUFFICES ASSUME IInv, Close PROVE IInv'
    OBVIOUS
<1> DEFINE c == client[cfd]
<1>1. /\ pc = "serve" /\ pc' = "next" /\ conn[c] = "over" /\ Hangup(c)
      /\ client' = [client EXCEPT ![cfd] = None] /\ cfds' = [cfds EXCEPT ![i] = -1]
      /\ all_set' = all_set \ {cfd} /\ UNCHANGED <<maxfd, max_index, localVars>>
    BY DEF Close, Released, Emptied, Vacant
<1>2. TypeOK /\ TableInv /\ FitInv /\ ClientInv /\ ServeInv
    BY <1>1 DEF IInv, AtWork
<1>3. i \in Slots /\ cfds[i] = cfd /\ cfd \in Open
    BY <1>1, <1>2 DEF ServeInv, TableInv, Slots, Vacant
<1>4. c \in Clients /\ \A f \in Open : client[f] \in Clients
    BY <1>2, <1>3 DEF TypeOK, ServiceTypeOK, Open
<1>5. Open' = Open \ {cfd} /\ \A f \in Open' : client'[f] = client[f]
    BY <1>1, <1>2 DEF TypeOK, ServiceTypeOK, Open
<1>6. Slots' = Slots \ {i} /\ \A k \in Index : k # i => cfds'[k] = cfds[k]
    BY <1>1, <1>2 DEF TypeOK, ServiceTypeOK, Slots, Vacant
<1>7. /\ ServiceTypeOK' /\ conn'[c] \in {"away", "left"}
      /\ \A d \in Clients : d # c => conn'[d] = conn[d]
    <2>1. ServiceTypeOK /\ {c} \in SUBSET Clients
        BY <1>2, <1>4 DEF TypeOK
    <2>2. PICK s \in {"away", "left"} : Ended({c}, s)
        BY <1>1 DEF Hangup
    <2>3. s \in Stages
        BY DEF Stages
    <2> QED
        BY <1>4, <2>1, <2>2, <2>3, EndedType
<1>8. TypeOK'
    <2>1. cfds' \in [Index -> Fd \cup {-1}] /\ all_set' \subseteq Fd \cup {lfd}
        BY <1>1, <1>2 DEF TypeOK, ServiceTypeOK
    <2>2. client' \in [Fd -> Clients \cup {None}]
        BY <1>1, <1>2 DEF TypeOK, ServiceTypeOK
    <2> QED
        BY <1>1, <1>2, <1>7, <2>1, <2>2 DEF TypeOK, ServiceTypeOK, localVars
<1>9. TableInv'
    <2>1. \A k \in Slots' : k \in Slots /\ k # i /\ cfds'[k] = cfds[k]
        BY <1>6 DEF Slots
    <2>2. \A k \in Slots' : cfds'[k] \in Open' /\ k <= max_index' /\ cfds'[k] <= maxfd'
        BY <1>1, <1>2, <1>3, <1>5, <2>1 DEF TableInv
    <2>3. \A f \in Open' : \E k \in Index : cfds'[k] = f
        BY <1>2, <1>3, <1>5, <1>6 DEF TableInv
    <2>4. \A j, k \in Slots' : cfds'[j] = cfds'[k] => j = k
        BY <1>2, <2>1 DEF TableInv
    <2>5. all_set' = Open' \cup {lfd}
        <3>1. cfd # lfd
            BY <1>3, SelectAssumption DEF Open, Fd
        <3> QED
            BY <1>1, <1>2, <1>5, <3>1 DEF TableInv
    <2> QED
        BY <2>2, <2>3, <2>4, <2>5 DEF TableInv
<1>10. FitInv'
    BY <1>2, <1>5 DEF FitInv
<1>11. ClientInv'
    <2>1. conn'[c] \notin Served /\ \A d \in Clients : d # c => conn'[d] = conn[d]
        BY <1>7 DEF Served
    <2>2. \A f \in Open' : f \in Open /\ client[f] # c
        BY <1>2, <1>3, <1>5 DEF ClientInv
    <2>3. \A f \in Open' : conn'[client'[f]] \in Served
        BY <1>2, <1>4, <1>5, <2>1, <2>2 DEF ClientInv
    <2>4. \A f, g \in Open' : client'[f] = client'[g] => f = g
        BY <1>2, <1>5, <2>2 DEF ClientInv
    <2>5. \A d \in Clients : conn'[d] \in Served => \E f \in Open' : client'[f] = d
        <3> TAKE d \in Clients
        <3> HAVE conn'[d] \in Served
        <3>1. d # c /\ conn[d] \in Served
            BY <2>1
        <3>2. PICK f \in Open : client[f] = d
            BY <1>2, <3>1 DEF ClientInv
        <3> QED
            BY <1>5, <3>1, <3>2
    <2> QED
        BY <2>3, <2>4, <2>5 DEF ClientInv
<1> QED
    BY <1>1, <1>8, <1>9, <1>10, <1>11 DEF IInv, ServeInv

-----------------------------------------------------------------------------
LEMMA NextInv == IInv /\ [Next]_vars => IInv'
<1> SUFFICES ASSUME IInv, [Next]_vars PROVE IInv'
    OBVIOUS
<1>1. ASSUME NEW c \in Clients, ClientStep(c) PROVE IInv'
    BY <1>1, ClientStepInv
<1>2. CASE Server
    BY <1>2, SelectInv, AcceptErrorInv, AcceptInv, OverflowInv, ScanInv, HandleInfoInv,
       KilledInv, CloseInv, NextSlotInv DEF Server
<1>3. CASE UNCHANGED vars
    <2>1. UNCHANGED <<serviceVars, pc, tableVars, localVars, client>>
        BY <1>3 DEF vars
    <2>2. TypeOK'
        BY <2>1 DEF IInv, TypeOK, ServiceTypeOK, serviceVars, tableVars, localVars
    <2>3. Slots' = Slots /\ Open' = Open /\ AtWork' = AtWork
        BY <2>1 DEF Slots, Open, AtWork, tableVars
    <2>4. AtWork => TableInv' /\ FitInv' /\ ClientInv' /\ ServeInv'
        BY <2>1, <2>3 DEF IInv, TableInv, FitInv, ClientInv, ServeInv,
                          serviceVars, tableVars, localVars
    <2> QED
        BY <2>1, <2>2, <2>3, <2>4 DEF IInv
<1> QED
    BY <1>1, <1>2, <1>3 DEF Next

LEMMA Invariance == Spec => []IInv
<1> QED
    BY InitInv, NextInv, PTL DEF Spec

\* Every variable of the select server keeps its type.
THEOREM TypeCorrect == Spec => []TypeOK
<1>1. IInv => TypeOK
    BY DEF IInv
<1> QED
    BY <1>1, Invariance, PTL

\* The table, all_set, the two high-water marks and the open connections agree
\* at every turn of the loop, however many clients come and go.
THEOREM TableCorrect == Spec => []TableConsistent
<1>1. IInv => TableConsistent
    <2> SUFFICES ASSUME IInv, AtWork PROVE TableConsistent
        BY DEF TableConsistent, AtWork
    <2>1. TableInv
        BY DEF IInv
    <2>2. \A f \in Open : f # -1
        BY SelectAssumption DEF Open, Fd
    <2>3. {cfds[k] : k \in Slots} = Open
        <3>1. \A f \in Open : \E k \in Slots : cfds[k] = f
            BY <2>1, <2>2 DEF TableInv, Slots, Vacant
        <3> QED
            BY <2>1, <3>1 DEF TableInv
    <2> QED
        BY <2>1, <2>3 DEF TableConsistent, TableInv
<1> QED
    BY <1>1, Invariance, PTL

\* Every connection from accept to close has one descriptor, and one client
\* never has two.
THEOREM DescriptorsCorrect == Spec => []OneDescriptorEach
<1>1. IInv => OneDescriptorEach
    <2> SUFFICES ASSUME IInv, Running PROVE OneDescriptorEach
        BY DEF OneDescriptorEach
    <2>1. AtWork
        BY DEF IInv, TypeOK, ServiceTypeOK, Running, AtWork
    <2>2. ClientInv /\ client \in [Fd -> Clients \cup {None}]
        BY <2>1 DEF IInv, TypeOK, ServiceTypeOK
    <2>3. \A f \in Open : client[f] \in Clients
        BY <2>2 DEF Open
    <2> QED
        BY <2>2, <2>3 DEF OneDescriptorEach, ClientInv
<1> QED
    BY <1>1, Invariance, PTL

\* "too many clients!" is never reached, for any size of the table; and no
\* descriptor is put out of bounds into an fd_set as long as the limit on open
\* files is at most FD_SETSIZE.
THEOREM NeverFull == Spec => []NeverTooMany
<1>1. IInv => NeverTooMany
    BY DEF IInv, NeverTooMany
<1> QED
    BY <1>1, Invariance, PTL
=============================================================================
