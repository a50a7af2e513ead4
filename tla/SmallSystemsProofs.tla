------------------------- MODULE SmallSystemsProofs -------------------------
(***************************************************************************)
(* Theorems about systems that share nothing: the datagram echo, the       *)
(* AF_UNIX daemon, the programs that live by one signal, and the programs  *)
(* that wait for nobody: the walk, the options, the list of processes, the *)
(* copies and the replacement of dup2.                                     *)
(***************************************************************************)
EXTENDS UdpEchoProperties, UnixDaemonProperties, SignalProgramsProperties,
        SmallProgramsProperties, TLAPS, FiniteSetTheorems, SequenceTheorems,
        NaturalsInduction, WellFoundedInduction

(***************************************************************************)
(* The datagram echo, for any number of clients and a socket of any size.  *)
(* What the runs check is inductive as it stands.                          *)
(***************************************************************************)
IInv == TypeOK /\ OneUnderWay

LEMMA InitInv == Init => IInv
    BY UdpAssumption DEF Init, IInv, TypeOK, OneUnderWay, InQueue, InHand, InSocket

\* What the first of a queue is, and what comes after it.
LEMMA HeadAndTail ==
    ASSUME NEW S, NEW q \in Seq(S), q # <<>>
    PROVE  /\ Head(q) \in S /\ Head(q) = q[1] /\ Len(q) \in Nat \ {0}
           /\ Tail(q) \in Seq(S) /\ DOMAIN q = 1..Len(q) /\ DOMAIN Tail(q) = 1..(Len(q) - 1)
           /\ \A k \in DOMAIN Tail(q) : k + 1 \in DOMAIN q /\ Tail(q)[k] = q[k + 1]
    OBVIOUS

LEMMA RecvfromInv == IInv /\ Recvfrom => IInv'
<1> SUFFICES ASSUME IInv, Recvfrom PROVE IInv'
    OBVIOUS
<1> DEFINE d == Head(queue)
<1>1. /\ server = "recvfrom" /\ queue # <<>> /\ queue' = Tail(queue)
      /\ UNCHANGED <<at, socket>> /\ rd_buf' = d.from /\ len' = AddrLen
      /\ sa' \in {d.from, None} /\ server' \in {"recvfrom", "sendto"}
    BY DEF Recvfrom, SenderOf, Fresh, NewLen
<1>2. TypeOK /\ OneUnderWay
    BY DEF IInv
<1>3. /\ d \in [from : Clients, what : Request] /\ d = queue[1] /\ Len(queue) \in Nat \ {0}
      /\ DOMAIN queue = 1..Len(queue) /\ DOMAIN queue' = 1..(Len(queue) - 1)
      /\ \A k \in DOMAIN queue' : k + 1 \in DOMAIN queue /\ queue'[k] = queue[k + 1]
    <2>1. queue \in Seq([from : Clients, what : Request]) /\ queue # <<>> /\ queue' = Tail(queue)
        BY <1>1, <1>2 DEF TypeOK
    <2> QED
        BY <2>1, HeadAndTail
<1>4. TypeOK'
    <2>1. queue' \in Seq([from : Clients, what : Request]) /\ Len(queue') <= Room
        BY <1>1, <1>2, UdpAssumption DEF TypeOK
    <2> QED
        BY <1>1, <1>2, <1>3, <2>1 DEF TypeOK
<1>5. /\ InQueue(d.from) = {1}
      /\ \A c \in Clients : \A k \in InQueue(c)' : k \in Int /\ k # 0 /\ k + 1 \in InQueue(c)
    BY <1>2, <1>3 DEF OneUnderWay, InQueue
<1>6. ASSUME NEW c \in Clients
      PROVE  /\ \A j, k \in InQueue(c)' : j = k
             /\ InQueue(c)' # {} => InQueue(c) # {} /\ c # d.from
             /\ InHand(c)' => c = d.from /\ InQueue(c) # {} /\ InQueue(c)' = {}
             /\ InSocket(c)' = InSocket(c)
    <2>1. \A j, k \in InQueue(c) : j = k
        BY <1>2 DEF OneUnderWay
    <2>2. \A j, k \in InQueue(c)' : j = k
        BY <1>5, <2>1
    <2>3. c = d.from => InQueue(c) = {1} /\ InQueue(c)' = {}
        BY <1>5
    <2> QED
        BY <1>1, <1>5, <2>2, <2>3 DEF InHand, InSocket
<1>7. OneUnderWay'
    <2>1. ASSUME NEW c \in Clients
          PROVE  /\ InSocket(c)' => socket'[c] = <<c>>
                 /\ ~(InQueue(c)' # {} /\ InHand(c)')
                 /\ ~(InQueue(c)' # {} /\ InSocket(c)') /\ ~(InHand(c)' /\ InSocket(c)')
                 /\ at'[c] = "stdin" => InQueue(c)' = {} /\ ~InHand(c)' /\ ~InSocket(c)'
        BY <1>1, <1>2, <1>6 DEF OneUnderWay
    <2>2. server' = "sendto" => sa' \in {rd_buf', None}
        BY <1>1
    <2> QED
        BY <1>6, <2>1, <2>2 DEF OneUnderWay
<1> QED
    BY <1>4, <1>7 DEF IInv

LEMMA SendtoInv == IInv /\ Sendto => IInv'
<1> SUFFICES ASSUME IInv, Sendto PROVE IInv'
    OBVIOUS
<1>1. /\ server = "sendto" /\ server' = "recvfrom" /\ UNCHANGED <<sa, len, rd_buf, queue, at>>
      /\ socket' = socket \/ (sa # None /\ socket' = [socket EXCEPT ![sa] = Append(@, rd_buf)])
    BY DEF Sendto
<1>2. TypeOK /\ OneUnderWay
    BY DEF IInv
<1>3. \A c \in Clients : InQueue(c)' = InQueue(c) /\ ~InHand(c)'
    BY <1>1 DEF InQueue, InHand
<1>4. CASE socket' = socket
    BY <1>1, <1>2, <1>3, <1>4 DEF IInv, TypeOK, OneUnderWay, InSocket
<1>5. CASE sa # None /\ socket' = [socket EXCEPT ![sa] = Append(@, rd_buf)]
    <2>1. sa \in Clients /\ sa = rd_buf /\ InHand(sa)
        BY <1>1, <1>2, <1>5 DEF TypeOK, OneUnderWay, InHand
    <2>2. socket[sa] = <<>> /\ InQueue(sa) = {} /\ at[sa] # "stdin"
        BY <1>2, <2>1 DEF OneUnderWay, InSocket
    <2>3. /\ socket'[sa] = <<sa>> /\ <<sa>> \in Seq(Clients)
          /\ \A c \in Clients \ {sa} : socket'[c] = socket[c]
          /\ socket' \in [Clients -> Seq(Clients)]
        BY <1>2, <1>5, <2>1, <2>2 DEF TypeOK
    <2>4. TypeOK'
        BY <1>1, <1>2, <2>3 DEF TypeOK
    <2>5. OneUnderWay'
        BY <1>1, <1>2, <1>3, <2>2, <2>3 DEF OneUnderWay, InSocket
    <2> QED
        BY <2>4, <2>5 DEF IInv
<1> QED
    BY <1>1, <1>4, <1>5

\* The server ends, or comes back with nothing at hand.
LEMMA RebootInv == IInv /\ (Kill \/ Restart) => IInv'
<1> SUFFICES ASSUME IInv, Kill \/ Restart PROVE IInv'
    OBVIOUS
<1>1. CASE Kill
    <2>1. TypeOK'
        BY <1>1, UdpAssumption DEF IInv, TypeOK, Kill
    <2>2. \A c \in Clients : InQueue(c)' = {} /\ ~InHand(c)' /\ InSocket(c)' = InSocket(c)
        BY <1>1 DEF Kill, InQueue, InHand, InSocket
    <2> QED
        BY <1>1, <2>1, <2>2 DEF IInv, OneUnderWay, Kill
<1>2. CASE Restart
    BY <1>2 DEF IInv, TypeOK, OneUnderWay, Restart, InQueue, InHand, InSocket
<1> QED
    BY <1>1, <1>2

-----------------------------------------------------------------------------
LEMMA AskInv == ASSUME IInv, NEW c \in Clients, Ask(c) PROVE IInv'
<1>1. /\ at[c] = "stdin" /\ at' = [at EXCEPT ![c] = "recvfrom"]
      /\ UNCHANGED <<server, sa, len, rd_buf, socket>>
    BY DEF Ask, Goes, serverVars
<1>2. TypeOK /\ OneUnderWay
    BY DEF IInv
<1>3. at'[c] = "recvfrom" /\ \A o \in Clients \ {c} : at'[o] = at[o]
    BY <1>1, <1>2 DEF TypeOK
<1>4. InQueue(c) = {} /\ ~InHand(c) /\ ~InSocket(c)
    BY <1>1, <1>2 DEF OneUnderWay
<1>5. \A o \in Clients : InHand(o)' = InHand(o) /\ InSocket(o)' = InSocket(o)
    BY <1>1 DEF InHand, InSocket
<1>6. CASE UNCHANGED queue
    <2>1. \A o \in Clients : InQueue(o)' = InQueue(o)
        BY <1>6 DEF InQueue
    <2>2. TypeOK'
        BY <1>1, <1>2, <1>6 DEF TypeOK
    <2> QED
        BY <1>1, <1>2, <1>3, <1>5, <2>1, <2>2 DEF IInv, OneUnderWay
<1>7. CASE Len(queue) < Room /\ \E w \in Request : queue' = Append(queue, [from |-> c, what |-> w])
    <2>1. PICK w \in Request : queue' = Append(queue, [from |-> c, what |-> w])
        BY <1>7
    <2>2. /\ Len(queue') = Len(queue) + 1 /\ queue'[Len(queue) + 1] = [from |-> c, what |-> w]
          /\ DOMAIN queue = 1..Len(queue) /\ DOMAIN queue' = 1..(Len(queue) + 1)
          /\ \A k \in 1..Len(queue) : queue'[k] = queue[k]
          /\ queue' \in Seq([from : Clients, what : Request]) /\ Len(queue) \in Nat
        BY <1>2, <2>1 DEF TypeOK
    <2>3. TypeOK'
        BY <1>1, <1>2, <1>7, <2>2, UdpAssumption DEF TypeOK
    <2>4. /\ InQueue(c)' = {Len(queue) + 1}
          /\ \A o \in Clients \ {c} : InQueue(o)' = InQueue(o)
        BY <1>4, <2>2 DEF InQueue
    <2> QED
        BY <1>1, <1>2, <1>3, <1>4, <1>5, <2>3, <2>4 DEF IInv, OneUnderWay
<1> QED
    BY <1>6, <1>7 DEF Ask, Taken

\* A client reads its answer, or ends: its socket holds less.
LEMMA TakenInv ==
    ASSUME IInv, NEW c \in Clients, Answered(c) \/ Ends(c)
    PROVE  IInv'
<1>1. /\ UNCHANGED <<server, sa, len, rd_buf, queue>>
      /\ \/ at' = [at EXCEPT ![c] = "stdin"] /\ InSocket(c)
         \/ at' = [at EXCEPT ![c] = "ended"]
    BY DEF Answered, Ends, Goes, serverVars, InSocket
<1>2. TypeOK /\ OneUnderWay
    BY DEF IInv
<1>3. socket' = [socket EXCEPT ![c] = <<>>]
    <2>1. CASE Ends(c)
        BY <2>1 DEF Ends
    <2>2. CASE Answered(c)
        <3>1. socket[c] = <<c>> /\ Tail(<<c>>) = <<>>
            BY <1>2, <2>2 DEF Answered, OneUnderWay, InSocket
        <3> QED
            BY <2>2, <3>1 DEF Answered
    <2> QED
        BY <2>1, <2>2
<1>4. /\ \A o \in Clients : InQueue(o)' = InQueue(o) /\ InHand(o)' = InHand(o)
      /\ ~InSocket(c)' /\ \A o \in Clients \ {c} : socket'[o] = socket[o] /\ at'[o] = at[o]
    BY <1>1, <1>2, <1>3 DEF TypeOK, InQueue, InHand, InSocket
<1>5. TypeOK'
    <2>1. <<>> \in Seq(Clients)
        OBVIOUS
    <2>2. socket' \in [Clients -> Seq(Clients)]
        BY <1>2, <1>3, <2>1 DEF TypeOK
    <2>3. at' \in [Clients -> {"stdin", "recvfrom", "ended"}]
        BY <1>1, <1>2 DEF TypeOK
    <2> QED
        BY <1>1, <1>2, <2>2, <2>3 DEF TypeOK
<1>6. at'[c] = "stdin" => InQueue(c) = {} /\ ~InHand(c)
    BY <1>1, <1>2 DEF TypeOK, OneUnderWay
<1> QED
    BY <1>1, <1>2, <1>4, <1>5, <1>6 DEF IInv, OneUnderWay, InSocket

LEMMA NextInv == IInv /\ [Next]_vars => IInv'
<1> SUFFICES ASSUME IInv, [Next]_vars PROVE IInv'
    OBVIOUS
<1>1. CASE Server
    BY <1>1, RecvfromInv, SendtoInv DEF Server
<1>2. CASE Kill \/ Restart
    BY <1>2, RebootInv
<1>3. ASSUME NEW c \in Clients, Client(c) PROVE IInv'
    BY <1>3, AskInv, TakenInv DEF Client
<1>4. CASE UNCHANGED vars
    BY <1>4 DEF vars, serverVars, IInv, TypeOK, OneUnderWay, InQueue, InHand, InSocket
<1> QED
    BY <1>1, <1>2, <1>3, <1>4 DEF Next

LEMMA SpecInv == Spec => []IInv
    BY InitInv, NextInv, PTL DEF Spec

\* Every variable of the datagram echo keeps its type, and the socket its bound.
THEOREM TypeCorrect == Spec => []TypeOK
    BY SpecInv, PTL DEF IInv

\* However often the server is killed and restarted, and whoever leaves: a client
\* has one datagram or answer under way at most, and no answer goes astray.
THEOREM AnswersCorrect == Spec => []OneUnderWay
    BY SpecInv, PTL DEF IInv

-----------------------------------------------------------------------------
(***************************************************************************)
(* The AF_UNIX daemon, for any number of starts of the server and of the   *)
(* client, any backlog, any room in the sockets and any number of lines.   *)
(***************************************************************************)

DaemonTypes ==
    /\ file \in Daemons \cup {NoOne}
    /\ pc \in [Daemons -> {"new", "started", "ended"} \cup Bound]
    /\ cfd \in [Daemons -> Users \cup {NoOne}]
    /\ exit_flag \in [Daemons -> BOOLEAN]
    /\ backlog \in [Daemons -> Seq(Users)]
    /\ user \in [Users -> {"new", "typing", "leaving", "cut", "ended"}]
    /\ link \in [Users -> Daemons \cup {NoOne}]
    /\ hung \in [Users -> BOOLEAN]

\* Whom the daemon holds is its own client, one that has connected; it closes on
\* a client that has ended, or in order to stop.
HeldInv ==
    \A d \in Daemons :
        /\ pc[d] \in {"read", "close"} => cfd[d] \in Users
        /\ cfd[d] # NoOne => link[cfd[d]] = d /\ user[cfd[d]] # "new"
        /\ \A k \in DOMAIN backlog[d] : link[backlog[d][k]] = d /\ user[backlog[d][k]] # "new"
        /\ pc[d] = "close" => exit_flag[d] \/ user[cfd[d]] = "ended"
        /\ pc[d] \in {"stop", "remove"} => exit_flag[d]

LinkInv ==
    \A c \in Users :
        /\ user[c] = "new" => link[c] = NoOne /\ ~hung[c]
        /\ user[c] \in {"typing", "leaving", "cut"} => link[c] \in Daemons

DaemonInv == DaemonTypes /\ OneOwner /\ HeldInv /\ LinkInv /\ NobodyCutShort

LEMMA InitDaemon == DaemonInit => DaemonInv
<1> SUFFICES ASSUME DaemonInit PROVE DaemonInv
    OBVIOUS
<1> USE DEF DaemonInit
<1>1. DaemonTypes
    <2>1. <<>> \in Seq(Users)
        OBVIOUS
    <2> QED
        BY <2>1 DEF DaemonTypes
<1>2. OneOwner /\ LinkInv /\ NobodyCutShort
    BY DEF OneOwner, Bound, LinkInv, NobodyCutShort
<1>3. HeldInv
    BY DEF HeldInv
<1> QED
    BY <1>1, <1>2, <1>3 DEF DaemonInv

\* What a sequence is with an element more.
LEMMA Appended ==
    ASSUME NEW S, NEW q \in Seq(S), NEW e \in S
    PROVE  /\ Append(q, e) \in Seq(S) /\ Len(q) \in Nat /\ DOMAIN q = 1..Len(q)
           /\ Len(Append(q, e)) = Len(q) + 1 /\ DOMAIN Append(q, e) = 1..(Len(q) + 1)
           /\ Append(q, e)[Len(q) + 1] = e /\ \A k \in 1..Len(q) : Append(q, e)[k] = q[k]
    OBVIOUS

\* The moves that own, or give up, no file.
LEMMA SameOwner ==
    ASSUME DaemonTypes, OneOwner, NEW d \in Daemons, NEW l, Goto(d, l),
           file' = file, l \in Bound => pc[d] \in Bound
    PROVE  OneOwner'
BY DEF DaemonTypes, OneOwner, Goto

\* A daemon that moves outside the loop over its clients cuts off nobody.
LEMMA OutsideLoop ==
    ASSUME DaemonInv, NEW d \in Daemons,
           NEW l \in {"new", "started", "ended"} \cup Bound, Goto(d, l),
           UNCHANGED <<cfd, exit_flag, backlog, user, link, hung>>,
           file' \in Daemons \cup {NoOne}, OneOwner',
           pc[d] \notin {"read", "close", "ended"}, l \notin {"read", "close", "stop", "remove"}
    PROVE  DaemonInv'
<1>1. /\ DaemonTypes /\ pc'[d] = l /\ \A e \in Daemons : e # d => pc'[e] = pc[e]
      /\ DaemonTypes'
    BY DEF DaemonInv, DaemonTypes, Goto
<1>2. HeldInv'
    BY <1>1 DEF DaemonInv, HeldInv
<1>3. LinkInv'
    BY DEF DaemonInv, LinkInv
<1>4. NobodyCutShort'
    <2> SUFFICES ASSUME NEW c \in Users, user[c] \in {"typing", "leaving", "cut"}
                 PROVE  \/ hung[c] /\ (exit_flag[link[c]] \/ pc'[link[c]] = "ended")
                        \/ ~hung[c] /\ \/ cfd[link[c]] = c /\ pc'[link[c]] \in {"read", "close"}
                                       \/ \E k \in 1..Len(backlog[link[c]]) : backlog[link[c]][k] = c
        BY DEF NobodyCutShort
    <2>1. link[c] \in Daemons
        BY DEF DaemonInv, LinkInv
    <2> QED
        BY <1>1, <2>1 DEF DaemonInv, NobodyCutShort
<1> QED
    BY <1>1, <1>2, <1>3, <1>4 DEF DaemonInv

LEMMA StartDaemon == ASSUME DaemonInv, NEW d \in Daemons, Start(d) PROVE DaemonInv'
<1>1. PICK l \in {"started", "ended"} : Goto(d, l)
    BY DEF Start
<1>2. /\ pc[d] = "new" /\ file' = file /\ DaemonTypes /\ OneOwner
      /\ UNCHANGED <<cfd, exit_flag, backlog, user, link, hung>>
    BY DEF Start, clientVars, DaemonInv
<1>3. OneOwner'
    BY <1>1, <1>2, SameOwner DEF Bound
<1>4. file' \in Daemons \cup {NoOne}
    BY <1>2 DEF DaemonTypes
<1> QED
    BY <1>1, <1>2, <1>3, <1>4, OutsideLoop

\* bind makes the file, or finds one and ends the program: NoOne is no daemon.
LEMMA BindDaemon ==
    ASSUME DaemonInv, NEW d \in Daemons, Bind(d)
    PROVE  DaemonInv'
<1>1. /\ pc[d] = "started" /\ DaemonTypes /\ OneOwner
      /\ UNCHANGED <<cfd, exit_flag, backlog, user, link, hung>>
    BY DEF Bind, clientVars, DaemonInv
<1>2. CASE file = NoOne
    <2>1. file' = d /\ Goto(d, "bound")
        BY <1>2 DEF Bind, Unbound
    <2>2. \A e \in Daemons : e # NoOne
        BY DaemonAssumption
    <2>3. OneOwner'
        BY <1>1, <1>2, <2>1, <2>2 DEF DaemonTypes, OneOwner, Goto
    <2> QED
        BY <1>1, <2>1, <2>3, OutsideLoop DEF Bound
<1>3. CASE file # NoOne
    <2>1. file' = file /\ Goto(d, "ended")
        BY <1>3 DEF Bind, Unbound
    <2>2. OneOwner' /\ file' \in Daemons \cup {NoOne}
        BY <1>1, <2>1, SameOwner DEF Bound, DaemonTypes
    <2> QED
        BY <1>1, <2>1, <2>2, OutsideLoop
<1> QED
    BY <1>2, <1>3

LEMMA ListenDaemon == ASSUME DaemonInv, NEW d \in Daemons, Listen(d) PROVE DaemonInv'
<1>1. /\ pc[d] = "bound" /\ Goto(d, "accept") /\ file' = file /\ DaemonTypes /\ OneOwner
      /\ UNCHANGED <<cfd, exit_flag, backlog, user, link, hung>>
    BY DEF Listen, clientVars, DaemonInv
<1>2. OneOwner' /\ file' \in Daemons \cup {NoOne}
    BY <1>1, SameOwner DEF Bound, DaemonTypes
<1> QED
    BY <1>1, <1>2, OutsideLoop DEF Bound

\* The file that a daemon removes is its own, so that no other loses one.
LEMMA RemoveDaemon ==
    ASSUME DaemonInv, NEW d \in Daemons, RemoveFile(d)
    PROVE  DaemonInv'
<1>1. /\ pc[d] = "remove" /\ Goto(d, "ended") /\ file' = NoOne /\ DaemonTypes /\ OneOwner
      /\ UNCHANGED <<cfd, exit_flag, backlog, user, link, hung>>
    BY DEF RemoveFile, clientVars, DaemonInv
<1>2. \A e \in Daemons : e # d => pc[e] \notin Bound
    BY <1>1 DEF OneOwner, Bound
<1>3. OneOwner'
    BY <1>1, <1>2 DEF DaemonTypes, OneOwner, Goto, Bound
<1> QED
    BY <1>1, <1>3, OutsideLoop

LEMMA AcceptDaemon == ASSUME DaemonInv, NEW d \in Daemons, Accept(d) PROVE DaemonInv'
<1> DEFINE c0 == Head(backlog[d])
<1>1. /\ pc[d] = "accept" /\ backlog[d] # <<>> /\ Goto(d, "read") /\ file' = file
      /\ cfd' = [cfd EXCEPT ![d] = c0] /\ backlog' = [backlog EXCEPT ![d] = Tail(@)]
      /\ UNCHANGED <<exit_flag, user, link, hung>>
    BY DEF Accept, clientVars
<1>2. DaemonTypes /\ OneOwner /\ HeldInv /\ LinkInv /\ NobodyCutShort
    BY DEF DaemonInv
<1>3. backlog[d] \in Seq(Users) /\ backlog[d] # <<>>
    BY <1>1, <1>2 DEF DaemonTypes
<1>4. /\ c0 \in Users /\ c0 = backlog[d][1] /\ Len(backlog[d]) \in Nat \ {0}
      /\ Tail(backlog[d]) \in Seq(Users) /\ DOMAIN backlog[d] = 1..Len(backlog[d])
      /\ DOMAIN Tail(backlog[d]) = 1..(Len(backlog[d]) - 1)
      /\ \A k \in DOMAIN Tail(backlog[d]) :
             k + 1 \in DOMAIN backlog[d] /\ Tail(backlog[d])[k] = backlog[d][k + 1]
    BY <1>3, HeadAndTail
<1> HIDE DEF c0
<1>5. /\ pc'[d] = "read" /\ cfd'[d] = c0 /\ backlog'[d] = Tail(backlog[d])
      /\ \A e \in Daemons : e # d => pc'[e] = pc[e] /\ cfd'[e] = cfd[e] /\ backlog'[e] = backlog[e]
    BY <1>1, <1>2 DEF DaemonTypes, Goto
<1>6. UNCHANGED <<exit_flag, user, link, hung>>
    BY <1>1
<1>7. DaemonTypes'
    BY <1>1, <1>2, <1>4 DEF DaemonTypes, Goto, Bound
<1>8. OneOwner'
    BY <1>1, <1>2, SameOwner DEF Bound
<1>9. HeldInv'
    <2>1. link[c0] = d /\ user[c0] # "new"
        BY <1>2, <1>4 DEF HeldInv
    <2>2. \A k \in DOMAIN Tail(backlog[d]) :
              link[Tail(backlog[d])[k]] = d /\ user[Tail(backlog[d])[k]] # "new"
        BY <1>2, <1>4 DEF HeldInv
    <2> QED
        BY <1>1, <1>2, <1>4, <1>5, <2>1, <2>2 DEF HeldInv
<1>10. LinkInv'
    BY <1>1, <1>2 DEF LinkInv
<1>11. NobodyCutShort'
    <2> SUFFICES ASSUME NEW c \in Users, user[c] \in {"typing", "leaving", "cut"}
                 PROVE  \/ hung[c] /\ (exit_flag[link[c]] \/ pc'[link[c]] = "ended")
                        \/ ~hung[c] /\ \/ cfd'[link[c]] = c /\ pc'[link[c]] \in {"read", "close"}
                                       \/ \E k \in 1..Len(backlog'[link[c]]) : backlog'[link[c]][k] = c
        BY <1>6 DEF NobodyCutShort
    <2>1. link[c] \in Daemons
        BY <1>2 DEF LinkInv
    <2>2. \/ hung[c] /\ (exit_flag[link[c]] \/ pc[link[c]] = "ended")
          \/ ~hung[c] /\ \/ cfd[link[c]] = c /\ pc[link[c]] \in {"read", "close"}
                         \/ \E k \in 1..Len(backlog[link[c]]) : backlog[link[c]][k] = c
        BY <1>2 DEF NobodyCutShort
    <2>3. CASE link[c] # d
        BY <1>5, <2>1, <2>2, <2>3
    <2>4. CASE link[c] = d /\ hung[c]
        BY <1>1, <2>2, <2>4
    <2>5. CASE link[c] = d /\ ~hung[c]
        <3>1. PICK k \in 1..Len(backlog[d]) : backlog[d][k] = c
            BY <1>1, <2>2, <2>5
        <3>2. CASE k = 1
            BY <1>4, <1>5, <2>5, <3>1, <3>2
        <3>3. CASE k # 1
            <4>1. k - 1 \in DOMAIN Tail(backlog[d]) /\ (k - 1) + 1 = k
                BY <1>4, <3>3
            <4>2. Tail(backlog[d])[k - 1] = c
                BY <1>4, <3>1, <4>1
            <4>3. Len(Tail(backlog[d])) = Len(backlog[d]) - 1
                BY <1>3, <1>4
            <4> QED
                BY <1>4, <1>5, <2>5, <4>1, <4>2, <4>3
        <3> QED
            BY <3>2, <3>3
    <2> QED
        BY <2>3, <2>4, <2>5
<1> QED
    BY <1>7, <1>8, <1>9, <1>10, <1>11 DEF DaemonInv

\* read: the daemon stays in its loop, or stops.
LEMMA ReadDaemon ==
    ASSUME DaemonInv, NEW d \in Daemons, Read(d) \/ ReadEnd(d)
    PROVE  DaemonInv'
<1>1. DaemonTypes /\ OneOwner /\ HeldInv /\ LinkInv /\ NobodyCutShort
    BY DEF DaemonInv
<1>2. /\ pc[d] = "read" /\ UNCHANGED <<file, cfd, backlog, user, link, hung>>
      /\ \/ UNCHANGED <<exit_flag, pc>>
         \/ Goto(d, "close") /\ exit_flag' = [exit_flag EXCEPT ![d] = TRUE]
         \/ Goto(d, "close") /\ exit_flag' = exit_flag /\ user[cfd[d]] = "ended"
    <2>1. CASE Read(d)
        <3>1. PICK stop : IF stop THEN exit_flag' = [exit_flag EXCEPT ![d] = TRUE] /\ Goto(d, "close")
                          ELSE UNCHANGED <<exit_flag, pc>>
            BY <2>1, Zenon DEF Read
        <3> QED
            BY <2>1, <3>1 DEF Read, clientVars
    <2>2. CASE ReadEnd(d)
        BY <2>2 DEF ReadEnd, AtEnd, clientVars
    <2> QED
        BY <2>1, <2>2
<1>3. /\ DaemonTypes' /\ pc'[d] \in {"read", "close"} /\ \A e \in Daemons : e # d => pc'[e] = pc[e]
      /\ \A e \in Daemons : exit_flag[e] => exit_flag'[e]
      /\ pc'[d] = "close" => exit_flag'[d] \/ user[cfd[d]] = "ended"
    BY <1>1, <1>2 DEF DaemonTypes, Goto, Bound
<1>4. OneOwner'
    BY <1>1, <1>2, <1>3 DEF OneOwner, Bound
<1>5. HeldInv'
    BY <1>1, <1>2, <1>3 DEF HeldInv
<1>6. LinkInv'
    BY <1>1, <1>2 DEF LinkInv
<1>7. NobodyCutShort'
    <2> SUFFICES ASSUME NEW c \in Users, user[c] \in {"typing", "leaving", "cut"}
                 PROVE  \/ hung[c] /\ (exit_flag'[link[c]] \/ pc'[link[c]] = "ended")
                        \/ ~hung[c] /\ \/ cfd[link[c]] = c /\ pc'[link[c]] \in {"read", "close"}
                                       \/ \E k \in 1..Len(backlog[link[c]]) : backlog[link[c]][k] = c
        BY <1>2 DEF NobodyCutShort
    <2>1. link[c] \in Daemons
        BY <1>1 DEF LinkInv
    <2> QED
        BY <1>1, <1>2, <1>3, <2>1 DEF NobodyCutShort
<1> QED
    BY <1>3, <1>4, <1>5, <1>6, <1>7 DEF DaemonInv

\* close(cfd): its client has ended, or the daemon stops.
LEMMA CloseDaemon ==
    ASSUME DaemonInv, NEW d \in Daemons, Close(d)
    PROVE  DaemonInv'
<1> DEFINE c0 == cfd[d]
<1>1. DaemonTypes /\ OneOwner /\ HeldInv /\ LinkInv /\ NobodyCutShort
    BY DEF DaemonInv
<1>2. /\ pc[d] = "close" /\ hung' = [hung EXCEPT ![c0] = TRUE] /\ cfd' = [cfd EXCEPT ![d] = NoOne]
      /\ Goto(d, IF exit_flag[d] THEN "stop" ELSE "accept")
      /\ UNCHANGED <<file, exit_flag, backlog, user, link>>
    BY DEF Close, Loops, clientVars
<1>3. c0 \in Users /\ c0 # NoOne /\ link[c0] = d /\ user[c0] # "new" /\ (exit_flag[d] \/ user[c0] = "ended")
    BY <1>1, <1>2, DaemonAssumption DEF HeldInv
<1> HIDE DEF c0
<1>4. /\ pc'[d] = (IF exit_flag[d] THEN "stop" ELSE "accept") /\ cfd'[d] = NoOne /\ hung'[c0]
      /\ \A e \in Daemons : e # d => pc'[e] = pc[e] /\ cfd'[e] = cfd[e]
      /\ \A c \in Users : c # c0 => hung'[c] = hung[c]
    BY <1>1, <1>2, <1>3 DEF DaemonTypes, Goto
<1>5. DaemonTypes'
    BY <1>1, <1>2 DEF DaemonTypes, Goto, Bound
<1>6. OneOwner'
    BY <1>1, <1>2, SameOwner DEF Bound
<1>7. HeldInv'
    BY <1>1, <1>2, <1>4 DEF HeldInv
<1>8. LinkInv'
    BY <1>1, <1>2, <1>3, <1>4 DEF LinkInv
<1>9. NobodyCutShort'
    <2> SUFFICES ASSUME NEW c \in Users, user[c] \in {"typing", "leaving", "cut"}
                 PROVE  \/ hung'[c] /\ (exit_flag[link[c]] \/ pc'[link[c]] = "ended")
                        \/ ~hung'[c] /\ \/ cfd'[link[c]] = c /\ pc'[link[c]] \in {"read", "close"}
                                        \/ \E k \in 1..Len(backlog[link[c]]) : backlog[link[c]][k] = c
        BY <1>2 DEF NobodyCutShort
    <2>1. link[c] \in Daemons
        BY <1>1 DEF LinkInv
    <2>2. \/ hung[c] /\ (exit_flag[link[c]] \/ pc[link[c]] = "ended")
          \/ ~hung[c] /\ \/ cfd[link[c]] = c /\ pc[link[c]] \in {"read", "close"}
                         \/ \E k \in 1..Len(backlog[link[c]]) : backlog[link[c]][k] = c
        BY <1>1 DEF NobodyCutShort
    <2>3. CASE c = c0
        BY <1>3, <1>4, <2>3
    <2>4. CASE c # c0 /\ link[c] = d
        BY <1>2, <1>4, <2>2, <2>4 DEF c0
    <2>5. CASE c # c0 /\ link[c] # d
        BY <1>4, <2>1, <2>2, <2>5
    <2> QED
        BY <2>3, <2>4, <2>5
<1> QED
    BY <1>5, <1>6, <1>7, <1>8, <1>9 DEF DaemonInv

\* close(sfd), or the end of the process: who is cut off, is by a daemon that
\* stops or has died.
LEMMA CutOffDaemon ==
    ASSUME DaemonInv, NEW d \in Daemons,
           CloseListening(d) \/ Die(d)
    PROVE  DaemonInv'
<1>1. DaemonTypes /\ OneOwner /\ HeldInv /\ LinkInv /\ NobodyCutShort
    BY DEF DaemonInv
<1>2. /\ UNCHANGED <<file, exit_flag, user, link>> /\ backlog' = [backlog EXCEPT ![d] = <<>>]
      /\ hung' = [c \in Users |-> hung[c] \/ link[c] = d]
      /\ \/ pc[d] = "stop" /\ Goto(d, "remove") /\ cfd' = cfd
         \/ pc[d] # "new" /\ Goto(d, "ended") /\ cfd' = [cfd EXCEPT ![d] = NoOne]
    BY DEF CloseListening, Die, CutOff, clientVars
<1>3. /\ backlog'[d] = <<>> /\ pc'[d] \in {"remove", "ended"}
      /\ pc'[d] = "remove" => pc[d] = "stop" /\ cfd' = cfd /\ exit_flag[d]
      /\ pc'[d] = "ended" => cfd'[d] = NoOne
      /\ \A e \in Daemons : e # d => pc'[e] = pc[e] /\ cfd'[e] = cfd[e] /\ backlog'[e] = backlog[e]
      /\ \A c \in Users : hung'[c] = (hung[c] \/ link[c] = d)
    BY <1>1, <1>2 DEF DaemonTypes, Goto, HeldInv
<1>4. DaemonTypes'
    <2>1. <<>> \in Seq(Users)
        OBVIOUS
    <2> QED
        BY <1>1, <1>2, <2>1 DEF DaemonTypes, Goto, Bound
<1>5. OneOwner'
    BY <1>1, <1>2, SameOwner DEF Bound
<1>6. HeldInv'
    BY <1>1, <1>2, <1>3 DEF HeldInv
<1>7. LinkInv'
    BY <1>1, <1>2, <1>3, DaemonAssumption, ZenonT(30) DEF LinkInv
<1>8. NobodyCutShort'
    <2> SUFFICES ASSUME NEW c \in Users, user[c] \in {"typing", "leaving", "cut"}
                 PROVE  \/ hung'[c] /\ (exit_flag[link[c]] \/ pc'[link[c]] = "ended")
                        \/ ~hung'[c] /\ \/ cfd'[link[c]] = c /\ pc'[link[c]] \in {"read", "close"}
                                        \/ \E k \in 1..Len(backlog'[link[c]]) : backlog'[link[c]][k] = c
        BY <1>2 DEF NobodyCutShort
    <2>1. link[c] \in Daemons
        BY <1>1 DEF LinkInv
    <2>2. CASE link[c] = d
        BY <1>3, <2>2
    <2>3. CASE link[c] # d
        <3>1. \/ hung[c] /\ (exit_flag[link[c]] \/ pc[link[c]] = "ended")
              \/ ~hung[c] /\ \/ cfd[link[c]] = c /\ pc[link[c]] \in {"read", "close"}
                             \/ \E k \in 1..Len(backlog[link[c]]) : backlog[link[c]][k] = c
            BY <1>1 DEF NobodyCutShort
        <3> QED
            BY <1>3, <2>1, <2>3, <3>1
    <2> QED
        BY <2>2, <2>3
<1> QED
    BY <1>4, <1>5, <1>6, <1>7, <1>8 DEF DaemonInv

\* Whoever removes the file of a dead daemon takes it from none that lives.
LEMMA TidyDaemon == ASSUME DaemonInv, Tidy PROVE DaemonInv'
<1>1. /\ file \in Daemons /\ pc[file] = "ended" /\ file' = NoOne
      /\ UNCHANGED <<pc, cfd, exit_flag, backlog, user, link, hung>>
    BY DEF Tidy, DaemonInv, DaemonTypes, daemonVars, clientVars
<1>2. OneOwner'
    BY <1>1 DEF DaemonInv, OneOwner, Bound
<1>3. DaemonTypes' /\ LinkInv'
    BY <1>1 DEF DaemonInv, DaemonTypes, LinkInv
<1>4. HeldInv' /\ NobodyCutShort'
    BY <1>1 DEF DaemonInv, HeldInv, NobodyCutShort
<1> QED
    BY <1>2, <1>3, <1>4 DEF DaemonInv

LEMMA ConnectDaemon ==
    ASSUME DaemonInv, NEW c \in Users, Connect(c)
    PROVE  DaemonInv'
<1>1. DaemonTypes /\ OneOwner /\ HeldInv /\ LinkInv /\ NobodyCutShort
    BY DEF DaemonInv
<1>2. /\ user[c] = "new" /\ file \in Daemons /\ pc[file] \in {"accept", "read", "close", "stop"}
      /\ backlog' = [backlog EXCEPT ![file] = Append(@, c)]
      /\ link' = [link EXCEPT ![c] = file] /\ user' = [user EXCEPT ![c] = "typing"]
      /\ UNCHANGED <<file, pc, cfd, exit_flag, hung>>
    BY <1>1 DEF Connect, Listening, daemonVars, DaemonTypes
<1>3. backlog[file] \in Seq(Users)
    BY <1>1, <1>2 DEF DaemonTypes
<1>4. /\ Append(backlog[file], c) \in Seq(Users) /\ Len(backlog[file]) \in Nat
      /\ DOMAIN backlog[file] = 1..Len(backlog[file])
      /\ Len(Append(backlog[file], c)) = Len(backlog[file]) + 1
      /\ DOMAIN Append(backlog[file], c) = 1..(Len(backlog[file]) + 1)
      /\ Append(backlog[file], c)[Len(backlog[file]) + 1] = c
      /\ \A k \in 1..Len(backlog[file]) : Append(backlog[file], c)[k] = backlog[file][k]
    BY <1>3, Appended
<1>5. /\ backlog'[file] = Append(backlog[file], c) /\ link'[c] = file /\ user'[c] = "typing"
      /\ \A e \in Daemons : e # file => backlog'[e] = backlog[e]
      /\ \A b \in Users : b # c => link'[b] = link[b] /\ user'[b] = user[b]
    BY <1>1, <1>2 DEF DaemonTypes
<1>6. DaemonTypes'
    BY <1>1, <1>2, <1>4 DEF DaemonTypes
<1>7. OneOwner'
    BY <1>1, <1>2 DEF OneOwner
<1>8. HeldInv'
    <2> SUFFICES ASSUME NEW d \in Daemons
                 PROVE  /\ pc[d] \in {"read", "close"} => cfd[d] \in Users
                        /\ cfd[d] # NoOne => link'[cfd[d]] = d /\ user'[cfd[d]] # "new"
                        /\ \A k \in DOMAIN backlog'[d] :
                               link'[backlog'[d][k]] = d /\ user'[backlog'[d][k]] # "new"
                        /\ pc[d] = "close" => exit_flag[d] \/ user'[cfd[d]] = "ended"
                        /\ pc[d] \in {"stop", "remove"} => exit_flag[d]
        BY <1>2 DEF HeldInv
    <2>1. cfd[d] # NoOne => cfd[d] \in Users /\ cfd[d] # c
        BY <1>1, <1>2 DEF HeldInv, DaemonTypes
    <2>2. pc[d] = "close" => cfd[d] # NoOne
        BY <1>1, DaemonAssumption DEF HeldInv
    <2>3. \A k \in DOMAIN backlog[d] :
              backlog[d][k] \in Users /\ backlog[d][k] # c /\ link[backlog[d][k]] = d
              /\ user[backlog[d][k]] # "new"
        <3>1. backlog[d] \in Seq(Users)
            BY <1>1 DEF DaemonTypes
        <3>2. \A k \in DOMAIN backlog[d] : backlog[d][k] \in Users
            BY <3>1
        <3> QED
            BY <1>1, <1>2, <3>2 DEF HeldInv
    <2>4. \A k \in DOMAIN backlog'[d] : link'[backlog'[d][k]] = d /\ user'[backlog'[d][k]] # "new"
        <3>1. CASE d # file
            BY <1>5, <2>3, <3>1
        <3>2. CASE d = file
            <4>0. /\ backlog'[d] = Append(backlog[file], c)
                  /\ DOMAIN backlog'[d] = 1..(Len(backlog[file]) + 1)
                BY <1>4, <1>5, <3>2
            <4> SUFFICES ASSUME NEW k \in 1..(Len(backlog[file]) + 1)
                         PROVE  /\ link'[Append(backlog[file], c)[k]] = file
                                /\ user'[Append(backlog[file], c)[k]] # "new"
                BY <3>2, <4>0
            <4>1. CASE k = Len(backlog[file]) + 1
                BY <1>4, <1>5, <4>1
            <4>2. CASE k # Len(backlog[file]) + 1
                <5>1. k \in 1..Len(backlog[file])
                    BY <1>4, <4>2
                <5> QED
                    BY <1>4, <1>5, <2>3, <3>2, <5>1
            <4> QED
                BY <4>1, <4>2
        <3> QED
            BY <3>1, <3>2
    <2>5. cfd[d] # NoOne => link'[cfd[d]] = d /\ user'[cfd[d]] # "new" /\ user'[cfd[d]] = user[cfd[d]]
        BY <1>1, <1>5, <2>1 DEF HeldInv
    <2> QED
        BY <1>1, <2>2, <2>4, <2>5 DEF HeldInv
<1>9. LinkInv'
    BY <1>1, <1>2, <1>5 DEF LinkInv
<1>10. NobodyCutShort'
    <2> SUFFICES ASSUME NEW b \in Users, user'[b] \in {"typing", "leaving", "cut"}
                 PROVE  \/ hung[b] /\ (exit_flag[link'[b]] \/ pc[link'[b]] = "ended")
                        \/ ~hung[b] /\ \/ cfd[link'[b]] = b /\ pc[link'[b]] \in {"read", "close"}
                                       \/ \E k \in 1..Len(backlog'[link'[b]]) : backlog'[link'[b]][k] = b
        BY <1>2 DEF NobodyCutShort
    <2>1. CASE b = c
        <3>1. Len(backlog[file]) + 1 \in 1..Len(backlog'[file])
            BY <1>4, <1>5
        <3>2. backlog'[link'[c]][Len(backlog[file]) + 1] = c /\ link'[c] = file /\ ~hung[c]
            BY <1>1, <1>2, <1>4, <1>5 DEF LinkInv
        <3> QED
            BY <2>1, <3>1, <3>2
    <2>2. CASE b # c
        <3>1. link'[b] = link[b] /\ user[b] \in {"typing", "leaving", "cut"} /\ link[b] \in Daemons
            BY <1>1, <1>5, <2>2 DEF LinkInv
        <3>2. \A k \in 1..Len(backlog[link[b]]) : /\ k \in 1..Len(backlog'[link[b]])
                                                  /\ backlog'[link[b]][k] = backlog[link[b]][k]
            BY <1>4, <1>5, <3>1
        <3> QED
            BY <1>1, <3>1, <3>2 DEF NobodyCutShort
    <2> QED
        BY <2>1, <2>2
<1> QED
    BY <1>6, <1>7, <1>8, <1>9, <1>10 DEF DaemonInv

\* What a client does by itself moves it on, and nobody else.
LEMMA ClientDaemon ==
    ASSUME DaemonInv, NEW c \in Users,
           Refused(c) \/ Type(c) \/ Sigpipe(c) \/ Leave(c)
    PROVE  DaemonInv'
<1>1. DaemonTypes /\ OneOwner /\ HeldInv /\ LinkInv /\ NobodyCutShort
    BY DEF DaemonInv
<1>2. UNCHANGED <<file, pc, cfd, exit_flag, backlog, link, hung>>
    BY DEF Refused, Type, Sigpipe, Leave, daemonVars
<1>3. \/ user[c] = "new" /\ user' = [user EXCEPT ![c] = "ended"]
      \/ /\ user[c] \in {"typing", "leaving"}
         /\ \E u \in {"typing", "leaving", "cut", "ended"} : user' = [user EXCEPT ![c] = u]
    BY DEF Refused, Type, Sigpipe, Leave
<1>4. /\ \A b \in Users : user'[b] = user[b] \/ (b = c /\ user'[b] # "new")
      /\ \A b \in Users : user[b] = "ended" => user'[b] = "ended"
      /\ \A b \in Users : user'[b] \in {"typing", "leaving", "cut"}
                                => user[b] \in {"typing", "leaving", "cut"}
    BY <1>1, <1>3 DEF DaemonTypes
<1>5. DaemonTypes' /\ OneOwner'
    BY <1>1, <1>2, <1>3 DEF DaemonTypes, OneOwner
<1>6. HeldInv'
    <2> SUFFICES ASSUME NEW d \in Daemons
                 PROVE  /\ pc[d] \in {"read", "close"} => cfd[d] \in Users
                        /\ cfd[d] # NoOne => link[cfd[d]] = d /\ user'[cfd[d]] # "new"
                        /\ \A k \in DOMAIN backlog[d] :
                               link[backlog[d][k]] = d /\ user'[backlog[d][k]] # "new"
                        /\ pc[d] = "close" => exit_flag[d] \/ user'[cfd[d]] = "ended"
                        /\ pc[d] \in {"stop", "remove"} => exit_flag[d]
        BY <1>2 DEF HeldInv
    <2>1. cfd[d] # NoOne => cfd[d] \in Users
        BY <1>1 DEF DaemonTypes
    <2>2. \A k \in DOMAIN backlog[d] : backlog[d][k] \in Users
        <3>1. backlog[d] \in Seq(Users)
            BY <1>1 DEF DaemonTypes
        <3> QED
            BY <3>1
    <2> QED
        BY <1>1, <1>4, <2>1, <2>2 DEF HeldInv
<1>7. LinkInv'
    BY <1>1, <1>2, <1>4 DEF LinkInv
<1>8. NobodyCutShort'
    BY <1>1, <1>2, <1>4 DEF NobodyCutShort
<1> QED
    BY <1>5, <1>6, <1>7, <1>8 DEF DaemonInv

LEMMA NextDaemon == DaemonInv /\ [DaemonNext]_unixVars => DaemonInv'
<1> SUFFICES ASSUME DaemonInv, [DaemonNext]_unixVars PROVE DaemonInv'
    OBVIOUS
<1>1. CASE \E d \in Daemons : Start(d) \/ Run(d) \/ Die(d)
    BY <1>1, StartDaemon, BindDaemon, ListenDaemon, AcceptDaemon, ReadDaemon, CloseDaemon,
       CutOffDaemon, RemoveDaemon DEF Run
<1>2. CASE Tidy
    BY <1>2, TidyDaemon
<1>3. CASE \E c \in Users : User(c)
    BY <1>3, ConnectDaemon, ClientDaemon DEF User
<1>4. CASE UNCHANGED unixVars
    <2>1. UNCHANGED <<file, pc, cfd, exit_flag, backlog, user, link, hung>>
        BY <1>4 DEF unixVars, daemonVars, clientVars
    <2>2. DaemonTypes' /\ OneOwner' /\ LinkInv'
        BY <2>1 DEF DaemonInv, DaemonTypes, OneOwner, LinkInv
    <2>3. HeldInv' /\ NobodyCutShort'
        BY <2>1 DEF DaemonInv, HeldInv, NobodyCutShort
    <2> QED
        BY <2>2, <2>3 DEF DaemonInv
<1> QED
    BY <1>1, <1>2, <1>3, <1>4 DEF DaemonNext

\* However many daemons start and die, the socket file is that of the one that
\* has bound it, until its own remove: no two of them listen at once.
THEOREM OwnerCorrect == DaemonSpec => []OneOwner
<1>1. DaemonInv => OneOwner
    BY DEF DaemonInv
<1>2. DaemonInv /\ [DaemonNext]_unixVars => DaemonInv'
    BY NextDaemon
<1> QED
    BY <1>1, <1>2, InitDaemon, PTL DEF DaemonSpec

\* A daemon closes a connection before its client does only when it stops or
\* dies; every other connection is the one it reads, or waits in its backlog.
THEOREM ConnectionsKept == DaemonSpec => []NobodyCutShort
<1>1. DaemonInv => NobodyCutShort
    BY DEF DaemonInv
<1>2. DaemonInv /\ [DaemonNext]_unixVars => DaemonInv'
    BY NextDaemon
<1> QED
    BY <1>1, <1>2, InitDaemon, PTL DEF DaemonSpec

-----------------------------------------------------------------------------
(***************************************************************************)
(* The programs that live by one signal, for any number of children and of *)
(* stray signals.                                                          *)
(***************************************************************************)

\* create-zombie has no alarm to be killed by, and from before its fork on the
\* SIGCHLD of its child, and that of the shell of system, find the signal blocked.
MaskInv ==
    program = "create-zombie" =>
        /\ ~armed /\ kid \in [1..Num -> {"none", "running", "zombie", "reaped"}]
        /\ place \in {"fork", "look", "kill"} => blocked
        /\ place \in {"look", "kill"} => kid[1] \in {"running", "zombie"}

LEMMA InitMask == SignalInit => MaskInv
<1> SUFFICES ASSUME SignalInit PROVE MaskInv
    OBVIOUS
<1>1. kid = [k \in 1..Num |-> "none"] /\ ~armed
    BY DEF SignalInit, Kids
<1>2. program = "create-zombie" => place = "install"
    BY DEF SignalInit, Paced
<1> QED
    BY <1>1, <1>2 DEF MaskInv

LEMMA NextMask == MaskInv /\ [SignalNext]_signalVars => MaskInv'
<1> SUFFICES ASSUME MaskInv, [SignalNext]_signalVars, program' = "create-zombie"
             PROVE  MaskInv'
    BY DEF MaskInv
<1> USE DEF Step, clockVars, maskVars, kidVars, abortVars
<1>1. program = "create-zombie" /\ 1 \in 1..Num
    <2> SUFFICES program' = program
        BY SignalAssumption
    <2>1. CASE Tick \/ Stray \/ \E k \in Kids : KidEnds(k)
        BY <2>1 DEF Tick, Stray, Handle, KidEnds
    <2>2. CASE Install \/ Alarm \/ WriteLine \/ Test \/ Cancel
               \/ InputEnd
        BY <2>2 DEF Install, Alarm, WriteLine, Test, Cancel,
               InputEnd
    <2>3. CASE Block \/ Fork \/ Look \/ KillChild \/ Suspend
               \/ Wait \/ Fail
        BY <2>3 DEF Block, Fork, Look, KillChild, Suspend,
               Wait, Fail
    <2>4. CASE Query \/ Raise \/ Insist
        BY <2>4 DEF Query, Raise, Insist
    <2>5. CASE UNCHANGED signalVars
        BY <2>5 DEF signalVars
    <2> QED
        BY <2>1, <2>2, <2>3, <2>4, <2>5 DEF SignalNext, Proceed
<1>2. /\ ~armed /\ kid \in [1..Num -> {"none", "running", "zombie", "reaped"}]
      /\ place \in {"fork", "look", "kill"} => blocked
      /\ place \in {"look", "kill"} => kid[1] \in {"running", "zombie"}
    BY <1>1 DEF MaskInv
<1>3. CASE Block
    BY <1>1, <1>2, <1>3 DEF Block, Blocks, MaskInv
<1>4. CASE Fork
    BY <1>1, <1>2, <1>4 DEF Fork, MaskInv
<1>5. CASE Look
    <2>1. \/ place = "look" /\ place' = "kill"
          \/ place = "look again" /\ place' = "suspend"
        BY <1>5 DEF Look
    <2>2. /\ place = "look" => kid' = kid /\ blocked' = blocked /\ blocked
          /\ kid' = kid \/ kid' = Reaped(kid)
          /\ armed' = armed
        BY <1>1, <1>2, <1>5 DEF Look, Sigchld
    <2>3. Reaped(kid) \in [1..Num -> {"none", "running", "zombie", "reaped"}]
        BY <1>2 DEF Reaped, Kids
    <2> QED
        BY <1>2, <2>1, <2>2, <2>3 DEF MaskInv
<1>6. CASE KillChild \/ Suspend
    <2>1. /\ place' \in {"failed", "look again", "ended"} /\ armed' = armed
          /\ kid' = kid \/ kid' = Reaped(kid)
        BY <1>6 DEF KillChild, Suspend
    <2>2. Reaped(kid) \in [1..Num -> {"none", "running", "zombie", "reaped"}]
        BY <1>2 DEF Reaped, Kids
    <2> QED
        BY <1>2, <2>1, <2>2 DEF MaskInv
<1>7. CASE \E k \in Kids : KidEnds(k)
    <2>1. PICK k \in 1..Num : KidEnds(k)
        BY <1>7 DEF Kids
    <2>2. UNCHANGED <<place, blocked, armed>>
        BY <2>1 DEF KidEnds
    <2>3. CASE blocked /\ place \in {"fork", "look", "kill"}
        <3>1. kid' = [kid EXCEPT ![k] = "zombie"]
            BY <1>1, <2>1, <2>3 DEF KidEnds, Sigchld, Alive
        <3> QED
            BY <1>2, <2>2, <3>1 DEF MaskInv
    <2>4. CASE place \notin {"fork", "look", "kill"}
        <3>1. \E s \in {"zombie", "reaped"} : \/ kid' = [kid EXCEPT ![k] = s]
                                              \/ kid' = Reaped([kid EXCEPT ![k] = s])
            BY <2>1 DEF KidEnds, Sigchld
        <3>2. kid' \in [1..Num -> {"none", "running", "zombie", "reaped"}]
            BY <1>2, <3>1 DEF Reaped, Kids
        <3> QED
            BY <1>2, <2>2, <2>4, <3>2 DEF MaskInv
    <2> QED
        BY <1>2, <2>3, <2>4
<1>8. CASE Fail \/ UNCHANGED signalVars
    BY <1>1, <1>2, <1>8 DEF Fail, Paced, signalVars, MaskInv
<1>9. ~ \/ Install \/ Alarm \/ WriteLine \/ Test \/ Cancel
        \/ Wait \/ Query \/ Raise \/ Insist \/ InputEnd
        \/ Tick \/ Stray
    BY <1>1, <1>2 DEF Install, Alarm, WriteLine, Test, Cancel,
           Wait, Query, Raise, Insist, InputEnd, Tick,
           Stray, Paced
<1> QED
    BY <1>3, <1>4, <1>5, <1>6, <1>7, <1>8, <1>9 DEF SignalNext, Proceed

\* When create-zombie sends SIGKILL, nobody has waited for its child, whenever the
\* child and the shell of system ended: the pid is still the child's.
THEOREM KillAimed == SignalSpec => []KillHitsChild
<1>1. MaskInv => KillHitsChild
    BY DEF MaskInv, KillHitsChild
<1>2. MaskInv /\ [SignalNext]_signalVars => MaskInv'
    BY NextMask
<1>3. SignalInit => MaskInv
    BY InitMask
<1> QED
    BY <1>1, <1>2, <1>3, PTL DEF SignalSpec

-----------------------------------------------------------------------------
(***************************************************************************)
(* The programs that wait for nobody.  Each has an invariant that says what *)
(* it has done so far, which the other programs leave alone.  What they do *)
(* with data is proved from the least number that would refute it.         *)
(***************************************************************************)
LEMMA Least == ASSUME NEW T \in SUBSET Nat, T # {} PROVE \E x \in T : \A y \in T : x <= y
<1> DEFINE R == {ss \in Nat \X Nat : ss[1] < ss[2]}
<1>1. IsWellFoundedOn(R, Nat)
    BY NatLessThanWellFounded DEF OpToRel
<1>2. \E x \in T : \A y \in T : <<y, x>> \notin R
    <2> HIDE DEF R
    <2> QED
        BY <1>1, WFMin
<1>3. PICK x \in T : \A y \in T : <<y, x>> \notin R
    BY <1>2
<1>4. ASSUME NEW y \in T PROVE x <= y
    <2>1. <<y, x>> \notin R
        BY <1>3
    <2> QED
        BY <2>1
<1> QED
    BY <1>4

LEMMA Minimum ==
    ASSUME NEW T \in SUBSET Nat, T # {}
    PROVE  Min(T) \in T /\ \A y \in T : Min(T) <= y
BY Least DEF Min

-----------------------------------------------------------------------------
(***************************************************************************)
(* filetree, for any file system, path and length of a name.  What was     *)
(* shown is a set of paths; a directory whose call is under way is open,   *)
(* and any other has had all that is to be shown of it shown.              *)
(***************************************************************************)
\* The types of a walk.
Steps(T) == Seq(1..T.num)
Frames(T) == [path : Steps(T), size : Nat, left : SUBSET (1..T.num)]
WalkWorks(T) ==
    [file : Nat, dir : Nat, max_depth : Int, cur_depth : Int, lines : Seq(Steps(T) \X Int),
     size : Nat, fits : BOOLEAN, stack : Seq(Frames(T))]

LEMMA PathAppend ==
    ASSUME NEW T, NEW p \in Steps(T), NEW k \in 1..T.num
    PROVE  /\ Append(p, k) \in Steps(T) /\ Append(p, k) # <<>> /\ Len(Append(p, k)) = Len(p) + 1
           /\ Len(p) \in Nat /\ Append(p, k)[Len(p) + 1] = k
           /\ \A j \in 1..Len(p) : Append(p, k)[j] = p[j]
           /\ Last(Append(p, k)) = k /\ Front(Append(p, k)) = p
<1> DEFINE q == Append(p, k)
<1>1. /\ q \in Steps(T) /\ q # <<>> /\ Len(q) = Len(p) + 1 /\ Len(p) \in Nat /\ q[Len(p) + 1] = k
      /\ \A j \in 1..Len(p) : q[j] = p[j]
    BY AppendProperties DEF Steps
<1> HIDE DEF q
<1>2. Last(q) = k
    BY <1>1 DEF Last
<1>3. Front(q) = p
    <2>1. Front(q) = SubSeq(q, 1, Len(p))
        BY <1>1 DEF Front
    <2>2. \A i_ \in 1..Len(p) : q[i_] \in 1..T.num
        BY <1>1, ElementOfSeq DEF Steps
    <2>3. /\ SubSeq(q, 1, Len(p)) \in Seq(1..T.num)
          /\ Len(SubSeq(q, 1, Len(p))) = IF 1 <= Len(p) THEN Len(p) - 1 + 1 ELSE 0
          /\ \A i_ \in 1..(Len(p) - 1 + 1) : SubSeq(q, 1, Len(p))[i_] = q[1 + i_ - 1]
        BY <1>1, <2>2, SubSeqProperties
    <2>4. Len(SubSeq(q, 1, Len(p))) = Len(p) /\ \A i_ \in 1..Len(p) : SubSeq(q, 1, Len(p))[i_] = p[i_]
        BY <1>1, <2>3
    <2> QED
        BY <2>1, <2>3, <2>4, SeqEqual DEF Steps
<1> QED
    BY <1>1, <1>2, <1>3 DEF q

LEMMA Injective ==
    ASSUME NEW T, NEW p \in Steps(T), NEW q \in Steps(T), NEW j \in 1..T.num, NEW k \in 1..T.num,
           Append(p, j) = Append(q, k)
    PROVE  p = q /\ j = k
BY AppendInjective DEF Steps

-----------------------------------------------------------------------------
Inside(T, p) == Entries(T, Real(T, Here(p)))
Children(T, paths, p) == {k \in 1..T.num : Append(p, k) \in paths}

\* What is in the stack for a directory: the entries that were shown and those that
\* are left, which come after them.
OpenedRight(T, paths, p, left) ==
    /\ ~Fails(T, p) /\ IsDir(T, p) /\ left \subseteq Inside(T, p)
    /\ \/ left = {} /\ Children(T, paths, p) = Shown(T, p)
       \/ /\ left # {} /\ Children(T, paths, p) = Inside(T, p) \ left
          /\ \A e \in Inside(T, p) \ left : ~Fails(T, Append(p, e)) /\ \A l \in left : e < l

\* What was shown, the directories in the stack being open.
Visited(T, paths, open) ==
    /\ paths \subseteq Steps(T) \ {<<>>} /\ IsFiniteSet(paths)
    /\ open \subseteq {<<>>} \cup paths
    /\ \A p \in paths : Front(p) \in {<<>>} \cup paths
    /\ \A p \in {<<>>} \cup paths : p \in open \/ Children(T, paths, p) = Shown(T, p)

With(paths, q) == paths \cup {q}

\* A path that is not yet shown has no kids, and is a kid of one path only.
LEMMA NewPath ==
    ASSUME NEW T, NEW paths, NEW open, Visited(T, paths, open), NEW p \in open, NEW k \in 1..T.num,
           Append(p, k) \notin paths
    PROVE  /\ p \in Steps(T) /\ Append(p, k) \in Steps(T) /\ Append(p, k) \notin open
           /\ Children(T, With(paths, Append(p, k)), Append(p, k)) = {}
           /\ Children(T, With(paths, Append(p, k)), p) = Children(T, paths, p) \cup {k}
           /\ \A r \in Steps(T) : r # p => Children(T, With(paths, Append(p, k)), r) = Children(T, paths, r)
<1> DEFINE q == Append(p, k)
<1>1. p \in Steps(T) /\ paths \subseteq Steps(T) /\ open \subseteq {<<>>} \cup paths
    BY EmptySeq DEF Visited, Steps
<1>2. q \in Steps(T) /\ q # <<>>
    BY <1>1, PathAppend
<1>3. q \notin open
    BY <1>1, <1>2
<1>4. ASSUME NEW r \in Steps(T), NEW j \in 1..T.num PROVE Append(r, j) = q => r = p /\ j = k
    BY <1>1, Injective
<1>5. ASSUME NEW r \in Steps(T), r # p PROVE Children(T, With(paths, q), r) = Children(T, paths, r)
    BY <1>4, <1>5 DEF Children, With
<1>6. Children(T, With(paths, q), p) = Children(T, paths, p) \cup {k}
    BY <1>1, <1>4 DEF Children, With
<1>7. q # p
    BY <1>1, PathAppend
<1>8. Children(T, paths, q) = {}
    <2>1. ASSUME NEW j \in 1..T.num, Append(q, j) \in paths PROVE FALSE
        <3>1. Front(Append(q, j)) = q
            BY <1>2, PathAppend
        <3>2. Front(Append(q, j)) \in {<<>>} \cup paths
            BY <2>1 DEF Visited
        <3> QED
            BY <1>2, <3>1, <3>2
    <2> QED
        BY <1>7, <2>1 DEF Children
<1>9. Children(T, With(paths, q), q) = {}
    BY <1>2, <1>5, <1>7, <1>8
<1> QED
    BY <1>1, <1>2, <1>3, <1>5, <1>6, <1>9

\* The directory whose next entry is shown: the rest of it is left, or nothing if
\* that entry fails.
LEMMA TopTurn ==
    ASSUME NEW T, T.num \in Nat, NEW paths, NEW p, NEW left, OpenedRight(T, paths, p, left), left # {},
           NEW k \in left, \A l \in left : k <= l, NEW more,
           Children(T, more, p) = Children(T, paths, p) \cup {k}, NEW rest,
           rest = IF Fails(T, Append(p, k)) THEN {} ELSE left \ {k}
    PROVE  OpenedRight(T, more, p, rest)
<1>1. /\ ~Fails(T, p) /\ IsDir(T, p) /\ left \subseteq Inside(T, p) /\ Inside(T, p) \subseteq 1..T.num
      /\ Children(T, paths, p) = Inside(T, p) \ left
      /\ \A e \in Inside(T, p) \ left : ~Fails(T, Append(p, e)) /\ \A l \in left : e < l
    BY DEF OpenedRight, Inside, Entries
<1>2. Children(T, more, p) = {e \in Inside(T, p) : e \notin left \/ e = k}
    BY <1>1
<1>3. \A e \in Inside(T, p) : e \in left => e = k \/ k < e
    BY <1>1
<1>4. \A e \in Inside(T, p) : e \notin left => e < k
    BY <1>1
<1>5. Shown(T, p) = {e \in Inside(T, p) : \A d \in Inside(T, p) : d < e => ~Fails(T, Append(p, d))}
    BY <1>1 DEF Shown, Inside
<1>6. CASE Fails(T, Append(p, k))
    <2>1. ASSUME NEW e \in Inside(T, p) PROVE (e \notin left \/ e = k) <=> e \in Shown(T, p)
        <3>1. e \in Int /\ k \in Int
            BY <1>1
        <3>2. CASE e \notin left \/ e = k
            <4>1. ASSUME NEW d \in Inside(T, p), d < e PROVE ~Fails(T, Append(p, d))
                <5>1. d \in Int
                    BY <1>1
                <5>2. d \notin left
                    BY <1>3, <1>4, <3>1, <3>2, <4>1, <5>1
                <5> QED
                    BY <1>1, <5>2
            <4> QED
                BY <1>5, <3>2, <4>1
        <3>3. CASE e \in left /\ e # k
            <4>1. k < e /\ k \in Inside(T, p)
                BY <1>1, <1>3, <3>3
            <4> QED
                BY <1>5, <1>6, <3>3, <4>1
        <3> QED
            BY <3>2, <3>3
    <2>2. Children(T, more, p) = Shown(T, p)
        BY <1>2, <1>5, <2>1
    <2> QED
        BY <1>1, <1>6, <2>2 DEF OpenedRight
<1>7. CASE ~Fails(T, Append(p, k)) /\ left = {k}
    <2>1. \A e \in Inside(T, p) : ~Fails(T, Append(p, e))
        BY <1>1, <1>7
    <2>2. Children(T, more, p) = Inside(T, p) /\ Shown(T, p) = Inside(T, p)
        BY <1>2, <1>5, <1>7, <2>1
    <2>3. rest = {}
        BY <1>7
    <2> QED
        BY <1>1, <2>2, <2>3 DEF OpenedRight
<1>8. CASE ~Fails(T, Append(p, k)) /\ left # {k}
    <2>1. rest = left \ {k} /\ rest # {} /\ rest \subseteq Inside(T, p)
        BY <1>1, <1>8
    <2>2. Children(T, more, p) = Inside(T, p) \ rest
        BY <1>1, <1>2, <2>1
    <2>3. ASSUME NEW e \in Inside(T, p) \ rest, NEW l \in rest PROVE ~Fails(T, Append(p, e)) /\ e < l
        <3>1. e \in Int /\ k \in Int /\ l \in Int /\ k < l
            BY <1>1, <1>3, <2>1
        <3> QED
            BY <1>1, <1>4, <1>8, <2>1, <3>1
    <2> QED
        BY <1>1, <2>1, <2>2, <2>3 DEF OpenedRight
<1> QED
    BY <1>6, <1>7, <1>8

LEMMA VisitedTurn ==
    ASSUME NEW T, NEW paths, NEW open, Visited(T, paths, open), NEW p \in open, NEW k \in 1..T.num,
           NEW q, q = Append(p, k), q \notin paths, NEW opened, opened = open \/ opened = open \cup {q},
           q \in opened \/ Shown(T, q) = {}
    PROVE  Visited(T, With(paths, q), opened)
<1> DEFINE more == With(paths, q)
<1>1. /\ p \in Steps(T) /\ q \in Steps(T) /\ q # <<>> /\ Front(q) = p
      /\ Children(T, more, q) = {} /\ \A r \in Steps(T) : r # p => Children(T, more, r) = Children(T, paths, r)
    <2>1. Append(p, k) \notin paths /\ more = With(paths, Append(p, k))
        OBVIOUS
    <2>2. /\ p \in Steps(T) /\ Append(p, k) \in Steps(T) /\ Append(p, k) \notin open
          /\ Children(T, With(paths, Append(p, k)), Append(p, k)) = {}
          /\ \A r \in Steps(T) : r # p => Children(T, With(paths, Append(p, k)), r) = Children(T, paths, r)
        BY <2>1, NewPath
    <2>3. Append(p, k) # <<>> /\ Front(Append(p, k)) = p
        BY <2>2, PathAppend
    <2> QED
        BY <2>2, <2>3
<1>2. IsFiniteSet(more)
    BY FS_AddElement DEF Visited, With
<1>3. more \subseteq Steps(T) \ {<<>>} /\ opened \subseteq {<<>>} \cup more
    BY <1>1 DEF Visited, With
<1>4. \A r \in more : Front(r) \in {<<>>} \cup more
    BY <1>1 DEF Visited, With
<1>5. ASSUME NEW r \in {<<>>} \cup more PROVE r \in opened \/ Children(T, more, r) = Shown(T, r)
    <2>1. CASE r = q
        BY <1>1, <2>1
    <2>2. CASE r # q
        <3>1. r \in Steps(T) /\ r \in {<<>>} \cup paths
            BY <2>2, EmptySeq DEF Visited, Steps, With
        <3>2. r \in open \/ Children(T, paths, r) = Shown(T, r)
            BY <3>1 DEF Visited
        <3>3. r \notin open => r # p
            OBVIOUS
        <3> HIDE DEF more
        <3> QED
            BY <1>1, <3>1, <3>2, <3>3
    <2> QED
        BY <2>1, <2>2
<1> QED
    BY <1>2, <1>3, <1>4, <1>5 DEF Visited

LEMMA VisitedReturn ==
    ASSUME NEW T, NEW paths, NEW open, Visited(T, paths, open), NEW p \in open, OpenedRight(T, paths, p, {}),
           NEW fewer, fewer \subseteq open, open \subseteq fewer \cup {p}
    PROVE  Visited(T, paths, fewer)
BY DEF Visited, OpenedRight

-----------------------------------------------------------------------------
\* One line for each path, and each path counted as what it is.
Counted(T, paths, fi, dir, n) ==
    /\ IsFiniteSet(paths) /\ n = Cardinality(paths)
    /\ fi = Cardinality({p \in paths : Exists(T, p) /\ ~IsDir(T, p)})
    /\ dir = 1 + Cardinality({p \in paths : Exists(T, p) /\ IsDir(T, p)})

LEMMA CountedTurn ==
    ASSUME NEW T, NEW paths, NEW fi, NEW dir, NEW n, Counted(T, paths, fi, dir, n), NEW q, q \notin paths
    PROVE  Counted(T, With(paths, q), IF Exists(T, q) /\ ~IsDir(T, q) THEN fi + 1 ELSE fi,
                   IF Exists(T, q) /\ IsDir(T, q) THEN dir + 1 ELSE dir, n + 1)
<1> DEFINE more == With(paths, q)
           F(s) == {p \in s : Exists(T, p) /\ ~IsDir(T, p)}
           D(s) == {p \in s : Exists(T, p) /\ IsDir(T, p)}
<1>1. IsFiniteSet(paths) /\ IsFiniteSet(F(paths)) /\ IsFiniteSet(D(paths))
    <2>1. IsFiniteSet(paths)
        BY DEF Counted
    <2>2. F(paths) \in SUBSET paths /\ D(paths) \in SUBSET paths
        OBVIOUS
    <2> HIDE DEF F, D
    <2> QED
        BY <2>1, <2>2, FS_Subset
<1>2. IsFiniteSet(more) /\ Cardinality(more) = Cardinality(paths) + 1
    BY <1>1, FS_AddElement DEF With
<1>3. F(more) = IF Exists(T, q) /\ ~IsDir(T, q) THEN F(paths) \cup {q} ELSE F(paths)
    BY DEF With
<1>4. D(more) = IF Exists(T, q) /\ IsDir(T, q) THEN D(paths) \cup {q} ELSE D(paths)
    BY DEF With
<1>5. q \notin F(paths) /\ q \notin D(paths)
    OBVIOUS
<1>6. n = Cardinality(paths) /\ fi = Cardinality(F(paths)) /\ dir = 1 + Cardinality(D(paths))
    BY DEF Counted
<1> HIDE DEF F, D, more
<1>7. Cardinality(F(more)) = IF Exists(T, q) /\ ~IsDir(T, q) THEN Cardinality(F(paths)) + 1 ELSE Cardinality(F(paths))
    BY <1>1, <1>3, <1>5, FS_AddElement
<1>8. Cardinality(D(more)) = IF Exists(T, q) /\ IsDir(T, q) THEN Cardinality(D(paths)) + 1 ELSE Cardinality(D(paths))
    BY <1>1, <1>4, <1>5, FS_AddElement
<1>9. Cardinality(D(paths)) \in Nat
    BY <1>1, FS_CardinalityType
<1>10. 1 + Cardinality(D(more)) = IF Exists(T, q) /\ IsDir(T, q) THEN dir + 1 ELSE dir
    BY <1>6, <1>8, <1>9
<1> QED
    BY <1>2, <1>6, <1>7, <1>10 DEF Counted, F, D, more

-----------------------------------------------------------------------------
\* The directories on the way down, the last of the path included.
Dirs(T, p) == {j \in 1..Len(p) : TypeDir(T, p[j])}

LEMMA DirsAppend ==
    ASSUME NEW T, NEW p \in Steps(T), NEW k \in 1..T.num
    PROVE  /\ Cardinality(Dirs(T, p)) \in Nat
           /\ Above(T, Append(p, k)) = Cardinality(Dirs(T, p))
           /\ Cardinality(Dirs(T, Append(p, k))) = Cardinality(Dirs(T, p)) + IF TypeDir(T, k) THEN 1 ELSE 0
<1> DEFINE q == Append(p, k)  n == Len(p)
<1>1. n \in Nat /\ Len(q) = n + 1 /\ q[n + 1] = k /\ \A j \in 1..n : q[j] = p[j]
    BY PathAppend
<1> HIDE DEF q, n
<1>2. Dirs(T, p) = {j \in 1..n : TypeDir(T, p[j])}
    BY DEF Dirs, n
<1>3. {j \in 1..(Len(q) - 1) : TypeDir(T, q[j])} = Dirs(T, p)
    BY <1>1, <1>2
<1>4. Dirs(T, q) = IF TypeDir(T, k) THEN Dirs(T, p) \cup {n + 1} ELSE Dirs(T, p)
    <2>1. \A j : j \in 1..(n + 1) <=> j \in 1..n \/ j = n + 1
        BY <1>1
    <2>2. Dirs(T, q) = {j \in 1..(n + 1) : TypeDir(T, q[j])}
        BY <1>1 DEF Dirs
    <2> QED
        BY <1>1, <1>2, <2>1, <2>2
<1>5. n + 1 \notin Dirs(T, p)
    BY <1>1, <1>2
<1>6. IsFiniteSet(Dirs(T, p))
    <2>1. IsFiniteSet(1..n)
        BY <1>1, FS_Interval
    <2>2. Dirs(T, p) \in SUBSET (1..n)
        BY <1>2
    <2> QED
        BY <2>1, <2>2, FS_Subset
<1>7. Cardinality(Dirs(T, p)) \in Nat
    BY <1>6, FS_CardinalityType
<1>8. Above(T, q) = Cardinality(Dirs(T, p))
    BY <1>3 DEF Above
<1>9. Cardinality(Dirs(T, q)) = Cardinality(Dirs(T, p)) + IF TypeDir(T, k) THEN 1 ELSE 0
    BY <1>4, <1>5, <1>6, <1>7, FS_AddElement
<1> QED
    BY <1>7, <1>8, <1>9 DEF q

LineSeqs(T) == Seq(Steps(T) \X Int)
LeakedAll(T, lines) == Cardinality(Leaked(T, lines, Len(lines) + 1))
Due(T, lines, q, cur) == cur = Above(T, q) + LeakedAll(T, lines)
Deeper(T, q, cur) == IF TypeDir(T, Last(q)) THEN cur + 1 ELSE cur
Best(max, deep) == IF deep > max THEN deep ELSE max
Put(lines, q, cur) == Append(lines, <<q, cur>>)

\* Each line is indented by its depth and by what had leaked, and the greatest depth
\* is kept.
Indented(T, lines, max) ==
    /\ \A n \in DOMAIN lines :
           lines[n][2] = Above(T, lines[n][1]) + Cardinality(Leaked(T, lines, n))
    /\ max \in {0} \cup {Depth(T, lines[n]) : n \in DOMAIN lines}
    /\ \A d \in {0} \cup {Depth(T, lines[n]) : n \in DOMAIN lines} : d <= max

LEMMA LineAppend ==
    ASSUME NEW T, NEW lines \in LineSeqs(T), NEW q \in Steps(T), NEW cur \in Int
    PROVE  LET more == Put(lines, q, cur)
           IN  /\ more \in LineSeqs(T) /\ Len(lines) \in Nat /\ Len(more) = Len(lines) + 1
               /\ DOMAIN lines = 1..Len(lines) /\ DOMAIN more = 1..(Len(lines) + 1)
               /\ \A n \in 1..Len(lines) : more[n] = lines[n]
               /\ more[Len(lines) + 1][1] = q /\ more[Len(lines) + 1][2] = cur
               /\ Paths(more) = With(Paths(lines), q)
<1> DEFINE more == Put(lines, q, cur)  m == Len(lines)
<1>1. <<q, cur>> \in Steps(T) \X Int
    OBVIOUS
<1>2. /\ more \in LineSeqs(T) /\ m \in Nat /\ Len(more) = m + 1
      /\ DOMAIN lines = 1..m /\ DOMAIN more = 1..(m + 1)
      /\ \A n \in 1..m : more[n] = lines[n]
      /\ more[m + 1] = <<q, cur>>
    <2>1. /\ more \in LineSeqs(T) /\ Len(more) = m + 1
          /\ \A n \in 1..m : more[n] = lines[n]
          /\ more[m + 1] = <<q, cur>>
        BY <1>1, AppendProperties DEF LineSeqs, Put
    <2>2. m \in Nat /\ DOMAIN lines = 1..m
        BY LenProperties DEF LineSeqs
    <2>3. DOMAIN more = 1..Len(more)
        BY <2>1, LenProperties DEF LineSeqs
    <2> QED
        BY <2>1, <2>2, <2>3
<1> HIDE DEF more, m
<1>3. Paths(more) = With(Paths(lines), q)
    <2>1. \A n : n \in 1..(m + 1) <=> n \in 1..m \/ n = m + 1
        BY <1>2
    <2>2. more[m + 1][1] = q
        BY <1>2
    <2>3. Paths(more) = {more[n][1] : n \in 1..(m + 1)} /\ Paths(lines) = {lines[n][1] : n \in 1..m}
        BY <1>2 DEF Paths
    <2> QED
        BY <1>2, <2>1, <2>2, <2>3 DEF With
<1>4. more[m + 1][1] = q /\ more[m + 1][2] = cur
    BY <1>2
<1> QED
    BY <1>2, <1>3, <1>4 DEF more, m

LEMMA LeakedIs ==
    ASSUME NEW T, NEW lines, NEW n
    PROVE  Leaked(T, lines, n)
               = {j \in 1..(n - 1) : TypeDir(T, Last(lines[j][1])) /\ Fails(T, lines[j][1])}
BY DEF Leaked

LEMMA LeakedFinite ==
    ASSUME NEW T, NEW lines, NEW n \in Nat
    PROVE  IsFiniteSet(Leaked(T, lines, n)) /\ Cardinality(Leaked(T, lines, n)) \in Nat
<1>1. IsFiniteSet(1..(n - 1))
    BY FS_Interval
<1>2. Leaked(T, lines, n) \in SUBSET (1..(n - 1))
    BY DEF Leaked
<1> QED
    BY <1>1, <1>2, FS_Subset, FS_CardinalityType

LEMMA IndentedTurn ==
    ASSUME NEW T, NEW lines \in LineSeqs(T), NEW q \in Steps(T), NEW cur \in Int, NEW max \in Int, Indented(T, lines, max),
           Due(T, lines, q, cur)
    PROVE  LET more == Put(lines, q, cur)
           IN  /\ Indented(T, more, Best(max, Deeper(T, q, cur)))
               /\ LeakedAll(T, more) = LeakedAll(T, lines) + IF TypeDir(T, Last(q)) /\ Fails(T, q) THEN 1 ELSE 0
<1> DEFINE more == Put(lines, q, cur)  m == Len(lines)  
           deep == Deeper(T, q, cur)  best == Best(max, deep)
<1>1. /\ more \in LineSeqs(T) /\ m \in Nat /\ Len(more) = m + 1
      /\ DOMAIN lines = 1..m /\ DOMAIN more = 1..(m + 1)
      /\ \A n \in 1..m : more[n] = lines[n]
      /\ more[m + 1][1] = q /\ more[m + 1][2] = cur
    BY LineAppend
<1> HIDE DEF more, m
<1>2. ASSUME NEW n \in 1..(m + 1) PROVE Leaked(T, more, n) = Leaked(T, lines, n)
    <2>1. \A j \in 1..(n - 1) : more[j] = lines[j]
        BY <1>1
    <2> QED
        BY <2>1 DEF Leaked
<1>3. ASSUME NEW n \in 1..(m + 1) PROVE more[n][2] = Above(T, more[n][1]) + Cardinality(Leaked(T, more, n))
    <2>1. CASE n \in 1..m
        BY <1>1, <1>2, <2>1 DEF Indented
    <2>2. CASE n = m + 1
        <3>1. more[n][1] = q /\ more[n][2] = cur
            BY <1>1, <2>2
        <3>2. cur = Above(T, q) + Cardinality(Leaked(T, lines, m + 1))
            BY DEF LeakedAll, Due, m
        <3> QED
            BY <1>2, <2>2, <3>1, <3>2
    <2> QED
        BY <1>1, <2>1, <2>2
<1> DEFINE A == {0} \cup {Depth(T, lines[n]) : n \in 1..m}  B == {0} \cup {Depth(T, more[n]) : n \in 1..(m + 1)}
<1>4. B = A \cup {deep}
    <2>1. \A n : n \in 1..(m + 1) <=> n \in 1..m \/ n = m + 1
        BY <1>1
    <2>2. Depth(T, more[m + 1]) = deep
        <3>1. more[m + 1][1] = q /\ more[m + 1][2] = cur
            BY <1>1
        <3> QED
            BY <3>1 DEF Depth, Deeper
    <2>3. \A n \in 1..m : Depth(T, more[n]) = Depth(T, lines[n])
        BY <1>1
    <2> QED
        BY <2>1, <2>2, <2>3
<1>5. max \in A /\ \A d \in A : d <= max
    BY <1>1 DEF Indented
<1>10. deep \in Int
    BY DEF Deeper
<1> HIDE DEF A, B, deep, best
<1>6. best \in B /\ \A d \in B : d <= best
    <2>1. ASSUME NEW d \in A PROVE d <= best
        <3>1. d <= max
            BY <1>5
        <3>2. d \in Int
            <4>1. \A n \in 1..m : lines[n][2] \in Int
                BY <1>1, ElementOfSeq DEF LineSeqs, m
            <4> QED
                BY <4>1 DEF A, Depth
        <3> QED
            BY <1>10, <3>1, <3>2 DEF Best, best
    <2>2. best \in A \cup {deep} /\ deep <= best
        BY <1>5, <1>10 DEF Best, best
    <2> QED
        BY <1>4, <2>1, <2>2
<1>7. Indented(T, more, best)
    BY <1>1, <1>3, <1>6 DEF Indented, B, best
<1>8. LeakedAll(T, more) = LeakedAll(T, lines) + IF TypeDir(T, Last(q)) /\ Fails(T, q) THEN 1 ELSE 0
    <2> DEFINE L == Leaked(T, lines, m + 1)  M == Leaked(T, more, m + 2)
    <2>1. M = IF TypeDir(T, Last(q)) /\ Fails(T, q) THEN L \cup {m + 1} ELSE L
        <3>1. \A n : n \in 1..(m + 2 - 1) <=> n \in 1..(m + 1 - 1) \/ n = m + 1
            BY <1>1
        <3>2. more[m + 1][1] = q /\ \A n \in 1..(m + 1 - 1) : more[n] = lines[n]
            BY <1>1
        <3>3. \A n : n \in M <=> n \in 1..(m + 2 - 1) /\ TypeDir(T, Last(more[n][1])) /\ Fails(T, more[n][1])
            BY <1>1, LeakedIs
        <3>4. \A n : n \in L <=> n \in 1..(m + 1 - 1) /\ TypeDir(T, Last(lines[n][1])) /\ Fails(T, lines[n][1])
            BY <1>1, LeakedIs
        <3> HIDE DEF M, L
        <3> QED
            BY <3>1, <3>2, <3>3, <3>4
    <2>2. m + 1 \notin L
        BY <1>1 DEF Leaked
    <2>3. IsFiniteSet(L) /\ Cardinality(L) \in Nat
        BY <1>1, LeakedFinite
    <2>4. LeakedAll(T, more) = Cardinality(M) /\ LeakedAll(T, lines) = Cardinality(L)
        <3>1. Len(more) + 1 = m + 2
            BY <1>1
        <3> QED
            BY <3>1 DEF LeakedAll, m
    <2>5. Cardinality(L \cup {m + 1}) = Cardinality(L) + 1
        BY <2>2, <2>3, FS_AddElement
    <2> HIDE DEF L, M
    <2> QED
        BY <2>1, <2>3, <2>4, <2>5
<1> QED
    BY <1>7, <1>8 DEF more, best, deep

-----------------------------------------------------------------------------
OpenPaths(stack) == {stack[n].path : n \in DOMAIN stack}

Push(T, stack, q, size) == Append(stack, [path |-> q, size |-> size, left |-> Inside(T, q)])

\* The frames are the directories on the way to the last of them.
Chain(stack) ==
    /\ \A n \in 1..Len(stack) : Len(stack[n].path) = n - 1
    /\ \A n \in 1..Len(stack) : n # 1 => Front(stack[n].path) = stack[n - 1].path

Framed(T, paths, stack) ==
    Chain(stack) /\ \A n \in 1..Len(stack) : OpenedRight(T, paths, stack[n].path, stack[n].left)

LEMMA FrontIs ==
    ASSUME NEW S, NEW s \in Seq(S), s # <<>>
    PROVE  /\ Front(s) \in Seq(S) /\ Len(s) \in Nat \ {0} /\ Len(Front(s)) = Len(s) - 1
           /\ \A n \in 1..(Len(s) - 1) : Front(s)[n] = s[n]
<1>1. Len(s) \in Nat \ {0} /\ \A n \in 1..(Len(s) - 1) : s[n] \in S
    BY EmptySeq, ElementOfSeq
<1> DEFINE m == Len(s) - 1
<1>2. m \in Nat /\ 1 \in Int /\ m \in Int
    BY <1>1
<1> HIDE DEF m
<1>3. /\ SubSeq(s, 1, m) \in Seq(S) /\ Len(SubSeq(s, 1, m)) = IF 1 <= m THEN m - 1 + 1 ELSE 0
      /\ \A n \in 1..(m - 1 + 1) : SubSeq(s, 1, m)[n] = s[1 + n - 1]
    BY <1>1, <1>2, SubSeqProperties DEF m
<1>4. Len(SubSeq(s, 1, m)) = m /\ \A n \in 1..m : SubSeq(s, 1, m)[n] = s[n]
    BY <1>2, <1>3
<1> QED
    BY <1>1, <1>3, <1>4 DEF Front, m

LEMMA SameChildren ==
    ASSUME NEW T, NEW paths, NEW more, NEW p, NEW left, OpenedRight(T, paths, p, left),
           Children(T, more, p) = Children(T, paths, p)
    PROVE  OpenedRight(T, more, p, left)
BY DEF OpenedRight

\* The stack once the top directory has shown its next entry k.
TopLeft(stack, rest) == [stack EXCEPT ![Len(stack)] = [stack[Len(stack)] EXCEPT !.left = rest]]

LEMMA StackLeft ==
    ASSUME NEW T, NEW stack \in Seq(Frames(T)), stack # <<>>, NEW rest \in SUBSET (1..T.num)
    PROVE  LET next == TopLeft(stack, rest)  n == Len(stack)
           IN  /\ next \in Seq(Frames(T)) /\ n \in Nat \ {0} /\ Len(next) = n /\ DOMAIN next = 1..n
               /\ DOMAIN stack = 1..n /\ stack[n] \in Frames(T)
               /\ next[n] \in Frames(T) /\ next[n].left = rest
               /\ \A j \in 1..n : next[j].path = stack[j].path /\ next[j].size = stack[j].size
               /\ \A j \in 1..(n - 1) : next[j] = stack[j]
<1> DEFINE n == Len(stack)  f == [stack[n] EXCEPT !.left = rest]  next == [stack EXCEPT ![n] = f]
<1>1. n \in Nat \ {0} /\ n \in 1..n /\ DOMAIN stack = 1..n /\ stack[n] \in Frames(T)
    <2>1. n \in Nat \ {0} /\ DOMAIN stack = 1..n
        BY EmptySeq, LenProperties
    <2>2. n \in 1..n
        BY <2>1
    <2> QED
        BY <2>1, <2>2, ElementOfSeq
<1>2. f \in Frames(T) /\ f = [path |-> stack[n].path, size |-> stack[n].size, left |-> rest]
    BY <1>1 DEF Frames
<1> HIDE DEF f
<1>3. /\ next \in Seq(Frames(T)) /\ Len(next) = n
      /\ \A j \in 1..n : next[j] = IF j = n THEN f ELSE stack[j]
    BY <1>1, <1>2, ExceptSeq
<1> HIDE DEF next, n
<1>4. DOMAIN next = 1..n
    BY <1>3, LenProperties
<1>5. \A j \in 1..(n - 1) : j \in 1..n /\ j # n
    BY <1>1
<1>6. next[n] \in Frames(T) /\ next[n].left = rest /\ \A j \in 1..n : next[j].path = stack[j].path /\ next[j].size = stack[j].size
    BY <1>1, <1>2, <1>3
<1> QED
    BY <1>1, <1>3, <1>4, <1>5, <1>6 DEF TopLeft, next, f, n

LEMMA Apart ==
    ASSUME NEW stack, Chain(stack), Len(stack) \in Nat, NEW j \in 1..Len(stack), NEW n \in 1..Len(stack), j # n
    PROVE  stack[j].path # stack[n].path
<1> DEFINE p == stack[j].path  q == stack[n].path
<1>1. Len(p) = j - 1 /\ Len(q) = n - 1
    BY DEF Chain
<1> HIDE DEF p, q
<1>2. p # q
    BY <1>1
<1> QED
    BY <1>2 DEF p, q

\* k is the next entry of the top directory p, which leaves it rest.
NextOf(T, stack, p, k, rest) ==
    LET left == stack[Len(stack)].left
    IN  /\ k \in left /\ \A l \in left : k <= l
        /\ p = stack[Len(stack)].path
        /\ rest = IF Fails(T, Append(p, k)) THEN {} ELSE left \ {k}

LEMMA StackTurn ==
    ASSUME NEW T, T.num \in Nat, NEW paths, NEW stack \in Seq(Frames(T)), stack # <<>>,
           Visited(T, paths, OpenPaths(stack)), Framed(T, paths, stack),
           NEW p, NEW k, NEW rest, NextOf(T, stack, p, k, rest)
    PROVE  /\ k \in 1..T.num /\ p \in OpenPaths(stack) /\ p \in Steps(T) /\ Append(p, k) \notin paths
           /\ rest \in SUBSET (1..T.num)
           /\ Framed(T, With(paths, Append(p, k)), TopLeft(stack, rest))
           /\ OpenPaths(TopLeft(stack, rest)) = OpenPaths(stack)
<1> DEFINE n == Len(stack)  left == stack[n].left  next == TopLeft(stack, rest)  more == With(paths, Append(p, k))
<1>1. /\ n \in Nat \ {0} /\ n \in 1..n /\ DOMAIN stack = 1..n /\ stack[n] \in Frames(T)
    <2>1. n \in Nat \ {0} /\ DOMAIN stack = 1..n
        BY EmptySeq, LenProperties
    <2>2. n \in 1..n
        BY <2>1
    <2> QED
        BY <2>1, <2>2, ElementOfSeq
<1>2. k \in 1..T.num /\ p \in OpenPaths(stack) /\ p \in Steps(T) /\ rest \in SUBSET (1..T.num)
    BY <1>1 DEF OpenPaths, Frames, NextOf
<1>3. OpenedRight(T, paths, p, left) /\ p = stack[n].path /\ k \in left
    BY <1>1 DEF Framed, NextOf
<1>4. Append(p, k) \notin paths
    BY <1>2, <1>3 DEF OpenedRight, Children
<1>5. /\ next \in Seq(Frames(T)) /\ Len(next) = n /\ DOMAIN next = 1..n
      /\ next[n].left = rest
      /\ \A j \in 1..n : next[j].path = stack[j].path /\ next[j].size = stack[j].size
      /\ \A j \in 1..(n - 1) : next[j] = stack[j]
    BY <1>2, StackLeft
<1> HIDE DEF next
<1>6. OpenPaths(next) = OpenPaths(stack)
    BY <1>1, <1>5 DEF OpenPaths
<1>7. Chain(next)
    <2>1. \A j \in 1..n : j # 1 => j - 1 \in 1..n
        BY <1>1
    <2> QED
        BY <1>5, <2>1 DEF Chain, Framed
<1>8. /\ Children(T, more, p) = Children(T, paths, p) \cup {k}
      /\ \A r \in Steps(T) : r # p => Children(T, more, r) = Children(T, paths, r)
    BY <1>2, <1>4, NewPath
<1> HIDE DEF more
<1>9. OpenedRight(T, more, p, rest)
    <2>1. left # {} /\ (\A l \in left : k <= l) /\ rest = IF Fails(T, Append(p, k)) THEN {} ELSE left \ {k}
        BY <1>3 DEF NextOf
    <2> HIDE DEF left
    <2> QED
        BY <1>3, <1>8, <2>1, TopTurn
<1>10. ASSUME NEW j \in 1..n PROVE OpenedRight(T, more, next[j].path, next[j].left)
    <2>1. CASE j = n
        BY <1>3, <1>5, <1>9, <2>1
    <2>2. CASE j # n
        <3>1. j \in 1..(n - 1) /\ stack[j] \in Frames(T)
            <4>1. stack[j] \in Frames(T)
                BY ElementOfSeq
            <4> HIDE DEF n
            <4> QED
                BY <1>1, <2>2, <4>1
        <3>4. next[j] = stack[j]
            BY <1>5, <3>1
        <3>2. stack[j].path \in Steps(T) /\ stack[j].path # p
            <4>1. stack[j].path # stack[n].path
                <5>1. Chain(stack)
                    BY DEF Framed
                <5> QED
                    BY <1>1, <2>2, <5>1, Apart
            <4> QED
                BY <1>3, <3>1, <4>1 DEF Frames
        <3>3. OpenedRight(T, paths, stack[j].path, stack[j].left)
            BY DEF Framed
        <3> QED
            BY <1>8, <3>2, <3>3, <3>4, SameChildren
    <2> QED
        BY <2>1, <2>2
<1> QED
    BY <1>2, <1>4, <1>5, <1>6, <1>7, <1>10 DEF Framed, next, more

Below(stack, q, k) == q = Append(stack[Len(stack)].path, k)

LEMMA StackPush ==
    ASSUME NEW T, NEW more, NEW stack \in Seq(Frames(T)), stack # <<>>, Framed(T, more, stack),
           NEW k \in 1..T.num, NEW q, Below(stack, q, k),
           ~Fails(T, q), IsDir(T, q), Children(T, more, q) = {}, NEW size \in Nat
    PROVE  LET f == [path |-> q, size |-> size, left |-> Inside(T, q)]
               next == Push(T, stack, q, size)
               n == Len(stack)
           IN  /\ next \in Seq(Frames(T)) /\ Len(next) = n + 1 /\ DOMAIN next = 1..(n + 1) /\ DOMAIN stack = 1..n
               /\ n \in Nat /\ next[n + 1] = f /\ \A j \in 1..n : next[j] = stack[j]
               /\ Framed(T, more, next) /\ OpenPaths(next) = OpenPaths(stack) \cup {q}
<1> DEFINE f == [path |-> q, size |-> size, left |-> Inside(T, q)]  next == Push(T, stack, q, size)  n == Len(stack)
<1>1. n \in Nat \ {0} /\ n \in 1..n /\ DOMAIN stack = 1..n /\ stack[n] \in Frames(T)
    <2>1. n \in Nat \ {0} /\ DOMAIN stack = 1..n
        BY EmptySeq, LenProperties
    <2>2. n \in 1..n
        BY <2>1
    <2> QED
        BY <2>1, <2>2, ElementOfSeq
<1>2. q \in Steps(T) /\ Len(q) = Len(stack[n].path) + 1 /\ Front(q) = stack[n].path
    <2>1. stack[n].path \in Steps(T)
        BY <1>1 DEF Frames
    <2>2. q = Append(stack[n].path, k)
        BY DEF Below
    <2> QED
        BY <2>1, <2>2, PathAppend
<1>3. f \in Frames(T)
    BY <1>2 DEF Frames, Inside, Entries
<1> HIDE DEF f
<1>4. /\ next \in Seq(Frames(T)) /\ Len(next) = n + 1 /\ next[n + 1] = f
      /\ \A j \in 1..n : next[j] = stack[j]
    BY <1>3, AppendProperties DEF Push, f
<1> HIDE DEF next, n
<1>5. DOMAIN next = 1..(n + 1)
    BY <1>4, LenProperties
<1>6. \A j : j \in 1..(n + 1) <=> j \in 1..n \/ j = n + 1
    BY <1>1
<1>7. f.path = q /\ f.left = Inside(T, q)
    BY DEF f
<1>8. OpenPaths(next) = OpenPaths(stack) \cup {q}
    BY <1>1, <1>4, <1>5, <1>6, <1>7 DEF OpenPaths
<1>9. Chain(stack) /\ \A j \in 1..n : OpenedRight(T, more, stack[j].path, stack[j].left)
    BY DEF Framed, n
<1>10. Chain(next)
    <2>1. ASSUME NEW j \in 1..(n + 1) PROVE Len(next[j].path) = j - 1 /\ (j # 1 => Front(next[j].path) = next[j - 1].path)
        <3>1. CASE j \in 1..n
            <4>1. j # 1 => j - 1 \in 1..n
                BY <1>1
            <4>2. Len(stack[j].path) = j - 1 /\ (j # 1 => Front(stack[j].path) = stack[j - 1].path)
                BY <1>9, <3>1 DEF Chain, n
            <4> QED
                BY <1>4, <3>1, <4>1, <4>2
        <3>2. CASE j = n + 1
            <4>1. Len(stack[n].path) = n - 1
                BY <1>1, <1>9 DEF Chain, n
            <4>2. Len(q) = n /\ n + 1 - 1 = n
                BY <1>1, <1>2, <4>1
            <4>3. next[j].path = q /\ (j # 1 => next[j - 1] = stack[n])
                BY <1>1, <1>4, <1>7, <3>2
            <4>4. Len(q) = j - 1
                BY <1>1, <3>2, <4>2
            <4> QED
                BY <1>2, <4>3, <4>4
        <3> QED
            BY <1>6, <3>1, <3>2
    <2> QED
        BY <1>4, <2>1 DEF Chain
<1>11. OpenedRight(T, more, q, Inside(T, q))
    <2>1. Inside(T, q) = {} => Shown(T, q) = {}
        BY DEF Shown, Inside
    <2> QED
        BY <2>1 DEF OpenedRight
<1>12. Framed(T, more, next)
    BY <1>4, <1>6, <1>7, <1>9, <1>10, <1>11 DEF Framed
<1> QED
    BY <1>1, <1>4, <1>5, <1>8, <1>12 DEF next, f, n

LEMMA StackPop ==
    ASSUME NEW T, NEW paths, NEW stack \in Seq(Frames(T)), stack # <<>>, Framed(T, paths, stack)
    PROVE  LET next == Front(stack)  n == Len(stack)
           IN  /\ next \in Seq(Frames(T)) /\ n \in Nat \ {0} /\ Len(next) = n - 1 /\ DOMAIN next = 1..(n - 1) /\ DOMAIN stack = 1..n
               /\ \A j \in 1..(n - 1) : next[j] = stack[j]
               /\ Framed(T, paths, next)
               /\ OpenPaths(next) \subseteq OpenPaths(stack)
               /\ OpenPaths(stack) \subseteq OpenPaths(next) \cup {stack[n].path}
               /\ n # 1 => next[n - 1].path = Front(stack[n].path)
<1> DEFINE next == Front(stack)  n == Len(stack)
<1>1. /\ next \in Seq(Frames(T)) /\ n \in Nat \ {0} /\ Len(next) = n - 1
      /\ \A j \in 1..(n - 1) : next[j] = stack[j]
    BY FrontIs
<1>2. DOMAIN stack = 1..n /\ DOMAIN next = 1..Len(next)
    BY <1>1, LenProperties
<1> HIDE DEF next, n
<1>3. \A j : j \in 1..n <=> j \in 1..(n - 1) \/ j = n
    BY <1>1
<1>4. OpenPaths(next) \subseteq OpenPaths(stack) /\ OpenPaths(stack) \subseteq OpenPaths(next) \cup {stack[n].path}
    BY <1>1, <1>2, <1>3 DEF OpenPaths
<1>5. Chain(stack) /\ \A j \in 1..n : OpenedRight(T, paths, stack[j].path, stack[j].left)
    BY DEF Framed, n
<1>6. Chain(next)
    <2>1. ASSUME NEW j \in 1..(n - 1) PROVE Len(next[j].path) = j - 1 /\ (j # 1 => Front(next[j].path) = next[j - 1].path)
        <3>1. (j # 1 => j - 1 \in 1..(n - 1)) /\ j \in 1..n
            BY <1>1
        <3>2. Len(stack[j].path) = j - 1 /\ (j # 1 => Front(stack[j].path) = stack[j - 1].path)
            BY <1>5, <3>1 DEF Chain, n
        <3> QED
            BY <1>1, <3>1, <3>2
    <2> QED
        BY <1>1, <2>1 DEF Chain
<1>7. Framed(T, paths, next)
    BY <1>1, <1>3, <1>5, <1>6 DEF Framed
<1>8. n # 1 => next[n - 1].path = Front(stack[n].path)
    <2>1. n # 1 => n - 1 \in 1..(n - 1) /\ n \in 1..n
        BY <1>1
    <2> QED
        BY <1>1, <1>5, <2>1 DEF Chain, n
<1> QED
    BY <1>1, <1>2, <1>4, <1>7, <1>8 DEF next, n

-----------------------------------------------------------------------------
(* The operators of the walk, on a state given by its parts. *)

St(fi, di, max, cur, lines, size, fits, stack) ==
    [file |-> fi, dir |-> di, max_depth |-> max, cur_depth |-> cur, lines |-> lines,
     size |-> size, fits |-> fits, stack |-> stack]

Fit(fits, n, size) == fits /\ n < size
GrownTo(n, size) == IF n + NAME_MAX + 2 > size THEN n + n + NAME_MAX + 2 ELSE size

LEMMA StIs ==
    ASSUME NEW T, NEW st \in WalkWorks(T)
    PROVE  st = St(st.file, st.dir, st.max_depth, st.cur_depth, st.lines, st.size, st.fits, st.stack)
BY DEF WalkWorks, St

LEMMA StLeft ==
    ASSUME NEW fi, NEW di, NEW max, NEW cur, NEW lines, NEW size, NEW fits, NEW stack, NEW left
    PROVE  LeftByTop(St(fi, di, max, cur, lines, size, fits, stack), left)
               = St(fi, di, max, cur, lines, size, fits, TopLeft(stack, left))
BY DEF LeftByTop, St, TopLeft

LEMMA StListed ==
    ASSUME NEW fi, NEW di, NEW max, NEW cur, NEW lines, NEW size, NEW fits, NEW stack, NEW T, NEW q
    PROVE  LET deep == Deeper(T, q, cur)
           IN  Listed(T, q, St(fi, di, max, cur, lines, size, fits, stack))
               = St(fi, di, Best(max, deep), deep, Put(lines, q, cur), size, fits, stack)
<1> DEFINE st == St(fi, di, max, cur, lines, size, fits, stack)
           deep == Deeper(T, q, cur)
           best == Best(max, deep)
           more == Put(lines, q, cur)
<1>1. st.lines = lines /\ st.cur_depth = cur /\ st.max_depth = max
    BY DEF St
<1>2. Listed(T, q, st) = [st EXCEPT !.lines = more, !.cur_depth = deep, !.max_depth = best]
    <2> HIDE DEF st
    <2> QED
        BY <1>1 DEF Listed, Put, Deeper, Best
<1> HIDE DEF more, deep, best
<1>3. [st EXCEPT !.lines = more, !.cur_depth = deep, !.max_depth = best]
          = St(fi, di, best, deep, more, size, fits, stack)
    <2>1. [st EXCEPT !.lines = more, !.cur_depth = deep, !.max_depth = best]
              = [[[st EXCEPT !.lines = more] EXCEPT !.cur_depth = deep] EXCEPT !.max_depth = best]
        <3> HIDE DEF st
        <3> QED
            OBVIOUS
    <2>2. [st EXCEPT !.lines = more] = St(fi, di, max, cur, more, size, fits, stack)
        BY DEF St
    <2>3. [St(fi, di, max, cur, more, size, fits, stack) EXCEPT !.cur_depth = deep]
              = St(fi, di, max, deep, more, size, fits, stack)
        BY DEF St
    <2>4. [St(fi, di, max, deep, more, size, fits, stack) EXCEPT !.max_depth = best]
              = St(fi, di, best, deep, more, size, fits, stack)
        BY DEF St
    <2> HIDE DEF st
    <2> QED
        BY <2>1, <2>2, <2>3, <2>4
<1> QED
    BY <1>2, <1>3 DEF more, deep, best

LEMMA StWritten ==
    ASSUME NEW fi, NEW di, NEW max, NEW cur, NEW lines, NEW size, NEW fits, NEW stack, NEW n
    PROVE  Written(St(fi, di, max, cur, lines, size, fits, stack), n)
               = St(fi, di, max, cur, lines, size, Fit(fits, n, size), stack)
BY DEF Written, St, Fit

LEMMA StPopped ==
    ASSUME NEW fi, NEW di, NEW max, NEW cur, NEW lines, NEW size, NEW fits, NEW stack, NEW next
    PROVE  [St(fi, di, max, cur, lines, size, fits, stack) EXCEPT !.stack = next]
               = St(fi, di, max, cur, lines, size, fits, next)
BY DEF St

LEMMA StGrown ==
    ASSUME NEW fi, NEW di, NEW max, NEW cur, NEW lines, NEW size, NEW fits, NEW stack, NEW n
    PROVE  Grown(St(fi, di, max, cur, lines, size, fits, stack), n)
               = St(fi, di, max, cur, lines, GrownTo(n, size), fits, stack)
BY DEF Grown, St, GrownTo

LEMMA StShown ==
    ASSUME NEW fi, NEW di, NEW max, NEW cur, NEW lines, NEW size, NEW fits, NEW stack,
           NEW T, NEW q, NEW n, NEW end
    PROVE  LET grown == GrownTo(n, size)
               fit == Fit(fits, end, grown)
           IN  ShowTree(T, q, n, end, St(fi, di, max, cur, lines, size, fits, stack)) =
               IF ~Exists(T, q)
               THEN St(fi, di, max, cur, lines, size, fits, IF stack = <<>> THEN stack ELSE TopLeft(stack, {}))
               ELSE IF ~IsDir(T, q) THEN St(fi + 1, di, max, cur, lines, size, fits, stack)
               ELSE IF Kind(T, q) = "locked"
               THEN St(fi, di + 1, max, cur, lines, grown, fit, IF stack = <<>> THEN stack ELSE TopLeft(stack, {}))
               ELSE St(fi, di + 1, max, cur, lines, grown, fit,
                       Push(T, stack, q, end))
<1> DEFINE st == St(fi, di, max, cur, lines, size, fits, stack)
           grown == GrownTo(n, size)
           fit == Fit(fits, end, grown)
           open == [Written(Grown(st, n), end) EXCEPT !.dir = @ + 1]
<1>1. Written(Grown(st, n), end) = St(fi, di, max, cur, lines, grown, fit, stack)
    BY StGrown, StWritten
<1>2. open = St(fi, di + 1, max, cur, lines, grown, fit, stack)
    <2> HIDE DEF st, grown, fit
    <2> QED
        BY <1>1 DEF St
<1>3. ShowTree(T, q, n, end, st) =
        IF ~Exists(T, q) THEN Broken(st)
        ELSE IF ~IsDir(T, q) THEN [st EXCEPT !.file = @ + 1]
        ELSE IF Kind(T, q) = "locked" THEN Broken(open)
        ELSE [open EXCEPT !.stack = Push(T, @, q, end)]
    BY DEF ShowTree, Inside, Push
<1> HIDE DEF open, grown, fit
<1>4. Broken(st) = St(fi, di, max, cur, lines, size, fits, IF stack = <<>> THEN stack ELSE TopLeft(stack, {}))
    <2>1. st.stack = stack
        BY DEF St
    <2> QED
        BY <2>1, StLeft DEF Broken
<1>5. Broken(open) = St(fi, di + 1, max, cur, lines, grown, fit, IF stack = <<>> THEN stack ELSE TopLeft(stack, {}))
    <2>1. open.stack = stack
        BY <1>2 DEF St
    <2> QED
        BY <1>2, <2>1, StLeft DEF Broken
<1>6. [st EXCEPT !.file = @ + 1] = St(fi + 1, di, max, cur, lines, size, fits, stack)
    BY DEF St
<1>7. [open EXCEPT !.stack = Push(T, @, q, end)]
        = St(fi, di + 1, max, cur, lines, grown, fit, Push(T, stack, q, end))
    <2> DEFINE new == Push(T, stack, q, end)
    <2>1. open.stack = stack
        BY <1>2 DEF St
    <2>2. [open EXCEPT !.stack = Push(T, @, q, end)]
            = [open EXCEPT !.stack = new]
        BY <2>1
    <2> HIDE DEF new
    <2>3. [open EXCEPT !.stack = new] = St(fi, di + 1, max, cur, lines, grown, fit, new)
        BY <1>2 DEF St
    <2> QED
        BY <2>2, <2>3 DEF new
<1> HIDE DEF st
<1>8. ShowTree(T, q, n, end, st) =
               IF ~Exists(T, q)
               THEN St(fi, di, max, cur, lines, size, fits, IF stack = <<>> THEN stack ELSE TopLeft(stack, {}))
               ELSE IF ~IsDir(T, q) THEN St(fi + 1, di, max, cur, lines, size, fits, stack)
               ELSE IF Kind(T, q) = "locked"
               THEN St(fi, di + 1, max, cur, lines, grown, fit, IF stack = <<>> THEN stack ELSE TopLeft(stack, {}))
               ELSE St(fi, di + 1, max, cur, lines, grown, fit,
                       Push(T, stack, q, end))
    BY <1>3, <1>4, <1>5, <1>6, <1>7
<1> QED
    BY <1>8 DEF st, grown, fit

LEMMA LeftTwice ==
    ASSUME NEW T, NEW stack \in Seq(Frames(T)), stack # <<>>, NEW left \in SUBSET (1..T.num)
    PROVE  TopLeft(stack, left) # <<>> /\ TopLeft(TopLeft(stack, left), {}) = TopLeft(stack, {})
<1> DEFINE n == Len(stack)  a == TopLeft(stack, left)  b == TopLeft(a, {})  c == TopLeft(stack, {})
<1>1. /\ a \in Seq(Frames(T)) /\ n \in Nat \ {0} /\ Len(a) = n
      /\ a[n].path = stack[n].path /\ a[n].size = stack[n].size
      /\ \A j \in 1..(n - 1) : a[j] = stack[j]
    BY StackLeft
<1>0. {} \in SUBSET (1..T.num)
    OBVIOUS
<1>2. /\ c \in Seq(Frames(T)) /\ Len(c) = n
      /\ c[n] \in Frames(T) /\ c[n].path = stack[n].path /\ c[n].size = stack[n].size /\ c[n].left = {}
      /\ \A j \in 1..(n - 1) : c[j] = stack[j]
    BY <1>0, StackLeft
<1> HIDE DEF a, n
<1>3. a # <<>>
    BY <1>1, EmptySeq
<1>4. /\ b \in Seq(Frames(T)) /\ Len(b) = n
      /\ b[n] \in Frames(T) /\ b[n].path = a[n].path /\ b[n].size = a[n].size /\ b[n].left = {}
      /\ \A j \in 1..(n - 1) : b[j] = a[j]
    BY <1>0, <1>1, <1>3, StackLeft, SMTT(30)
<1> HIDE DEF b, c
<1>5. \A j \in 1..n : j \in 1..(n - 1) \/ j = n
    BY <1>1
<1>6. b[n] = c[n] /\ \A j \in 1..(n - 1) : b[j] = c[j]
    <2>1. \A f, g \in Frames(T) : f.path = g.path /\ f.size = g.size /\ f.left = g.left => f = g
        BY DEF Frames
    <2> QED
        BY <1>1, <1>2, <1>4, <2>1
<1>7. b = c
    BY <1>2, <1>4, <1>5, <1>6, SeqEqual
<1> QED
    BY <1>3, <1>7 DEF a, b, c

\* The path q of the next entry k of the directory on top, and what is left of it.
NextPath(T, stack, q, k, left) ==
    LET n == Len(stack)
    IN  /\ k = Min(stack[n].left) /\ q = Append(stack[n].path, k)
        /\ left = stack[n].left \ {k} /\ stack[n].left \in SUBSET (1..T.num)

\* What NextEntry makes of the walk, in the four cases of show_tree.
LEMMA NextEntryIs ==
    ASSUME NEW T, NEW st \in WalkWorks(T), st.stack # <<>>, NEW k, NEW q, NEW left,
           NextPath(T, st.stack, q, k, left)
    PROVE  LET deep == Deeper(T, q, st.cur_depth)
               best == Best(st.max_depth, deep)
               more == Put(st.lines, q, st.cur_depth)
               long == st.stack[Len(st.stack)].size + NAME_MAX
               grown == GrownTo(long, st.size)
               fit == Fit(st.fits, long, st.size)
               fit2 == Fit(fit, long + 1, grown)
           IN  NextEntry(T, st) =
                   IF ~Exists(T, q)
                   THEN St(st.file, st.dir, best, deep, more, st.size, fit, TopLeft(st.stack, {}))
                   ELSE IF ~IsDir(T, q)
                   THEN St(st.file + 1, st.dir, best, deep, more, st.size, fit, TopLeft(st.stack, left))
                   ELSE IF Kind(T, q) = "locked"
                   THEN St(st.file, st.dir + 1, best, deep, more, grown, fit2, TopLeft(st.stack, {}))
                   ELSE St(st.file, st.dir + 1, best, deep, more, grown, fit2,
                           Push(T, TopLeft(st.stack, left), q, long + 1))
<1> DEFINE n == Len(st.stack)
           deep == Deeper(T, q, st.cur_depth)
           best == Best(st.max_depth, deep)
           more == Put(st.lines, q, st.cur_depth)
           long == st.stack[n].size + NAME_MAX
           grown == GrownTo(long, st.size)
           fit == Fit(st.fits, long, st.size)
           fit2 == Fit(fit, long + 1, grown)
           kept == TopLeft(st.stack, left)
           cut == TopLeft(st.stack, {})
           walked == St(st.file, st.dir, best, deep, more, st.size, fit, kept)
<1>1. /\ left \in SUBSET (1..T.num) /\ st.stack \in Seq(Frames(T))
      /\ k = Min(st.stack[n].left) /\ q = Append(st.stack[n].path, k) /\ left = st.stack[n].left \ {k}
    BY DEF NextPath, WalkWorks
<1>2. NextEntry(T, st) = ShowTree(T, q, long, long + 1, walked)
    <2>1. Top(st) = st.stack[n]
        BY DEF Top, Last
    <2>2. NextEntry(T, st) = ShowTree(T, q, long, long + 1, Written(Listed(T, q, LeftByTop(st, left)), long))
        BY <1>1, <2>1 DEF NextEntry
    <2>3. LeftByTop(st, left)
              = St(st.file, st.dir, st.max_depth, st.cur_depth, st.lines, st.size, st.fits, kept)
        BY StIs, StLeft
    <2>4. Listed(T, q, LeftByTop(st, left))
              = St(st.file, st.dir, best, deep, more, st.size, st.fits, kept)
        BY <2>3, StListed
    <2> HIDE DEF deep, best, more, long, kept
    <2>5. Written(Listed(T, q, LeftByTop(st, left)), long) = walked
        BY <2>4, StWritten
    <2> QED
        BY <2>2, <2>5
<1>3. kept # <<>> /\ TopLeft(kept, {}) = cut
    BY <1>1, LeftTwice
<1> HIDE DEF n, deep, best, more, long, fit, kept, cut, grown, fit2
<1>4. ShowTree(T, q, long, long + 1, walked) =
          IF ~Exists(T, q)
          THEN St(st.file, st.dir, best, deep, more, st.size, fit, IF kept = <<>> THEN kept ELSE TopLeft(kept, {}))
          ELSE IF ~IsDir(T, q) THEN St(st.file + 1, st.dir, best, deep, more, st.size, fit, kept)
          ELSE IF Kind(T, q) = "locked"
          THEN St(st.file, st.dir + 1, best, deep, more, grown, fit2,
                  IF kept = <<>> THEN kept ELSE TopLeft(kept, {}))
          ELSE St(st.file, st.dir + 1, best, deep, more, grown, fit2, Push(T, kept, q, long + 1))
    BY StShown DEF grown, fit2
<1> HIDE DEF walked
<1>5. NextEntry(T, st) =
                   IF ~Exists(T, q)
                   THEN St(st.file, st.dir, best, deep, more, st.size, fit, cut)
                   ELSE IF ~IsDir(T, q)
                   THEN St(st.file + 1, st.dir, best, deep, more, st.size, fit, kept)
                   ELSE IF Kind(T, q) = "locked"
                   THEN St(st.file, st.dir + 1, best, deep, more, grown, fit2, cut)
                   ELSE St(st.file, st.dir + 1, best, deep, more, grown, fit2, Push(T, kept, q, long + 1))
    BY <1>2, <1>3, <1>4
<1> QED
    BY <1>5 DEF n, deep, best, more, long, grown, fit, fit2, kept, cut

-----------------------------------------------------------------------------
(* The walk from one turn to the next. *)

\* The directory on top, its next entry, and what is left of it after that one.
Turns(T, stack, p, k, q, rest) == NextOf(T, stack, p, k, rest) /\ q = Append(p, k)

\* What the walk is to be from one turn to the next, the buffer having room for one
\* more name after each open directory.
RoomLeft(stack, size, fits) == fits /\ \A n \in 1..Len(stack) : stack[n].size + NAME_MAX < size
Levelled(T, stack, lines, cur) ==
    stack # <<>> => cur = Cardinality(Dirs(T, stack[Len(stack)].path)) + LeakedAll(T, lines)
Typed(T, fi, di, max, cur, lines, size, fits, stack) ==
    /\ fi \in Nat /\ di \in Nat /\ max \in Int /\ cur \in Int /\ lines \in LineSeqs(T) /\ size \in Nat
    /\ fits \in BOOLEAN /\ stack \in Seq(Frames(T))
Good(T, fi, di, max, cur, lines, size, fits, stack) ==
    /\ Typed(T, fi, di, max, cur, lines, size, fits, stack)
    /\ Visited(T, Paths(lines), OpenPaths(stack)) /\ Framed(T, Paths(lines), stack)
    /\ Counted(T, Paths(lines), fi, di, Len(lines)) /\ Indented(T, lines, max)
    /\ Levelled(T, stack, lines, cur) /\ RoomLeft(stack, size, fits)
WalkOk(T, st) ==
    /\ st \in WalkWorks(T)
    /\ Good(T, st.file, st.dir, st.max_depth, st.cur_depth, st.lines, st.size, st.fits, st.stack)

LEMMA GoodSt ==
    ASSUME NEW T, NEW fi, NEW di, NEW max, NEW cur, NEW lines, NEW size, NEW fits, NEW stack,
           Good(T, fi, di, max, cur, lines, size, fits, stack)
    PROVE  WalkOk(T, St(fi, di, max, cur, lines, size, fits, stack))
<1> DEFINE st == St(fi, di, max, cur, lines, size, fits, stack)
<1>1. /\ st.file = fi /\ st.dir = di /\ st.max_depth = max /\ st.cur_depth = cur /\ st.lines = lines
      /\ st.size = size /\ st.fits = fits /\ st.stack = stack
    BY DEF St
<1>2. st \in WalkWorks(T)
    BY DEF St, Good, Typed, WalkWorks, LineSeqs
<1> HIDE DEF st
<1> QED
    BY <1>1, <1>2 DEF WalkOk, st

\* What a turn does to the paths that were shown, and to the directories that are open.
LEMMA TurnPaths ==
    ASSUME NEW T, T.num \in Nat, NEW paths, NEW stack \in Seq(Frames(T)), stack # <<>>,
           Visited(T, paths, OpenPaths(stack)), Framed(T, paths, stack),
           NEW p, NEW k, NEW q, NEW rest, Turns(T, stack, p, k, q, rest)
    PROVE  /\ k \in 1..T.num /\ p \in Steps(T) /\ q \in Steps(T) /\ q \notin paths /\ q # <<>> /\ Last(q) = k
           /\ rest \in SUBSET (1..T.num)
           /\ Framed(T, With(paths, q), TopLeft(stack, rest))
           /\ OpenPaths(TopLeft(stack, rest)) = OpenPaths(stack)
           /\ Children(T, With(paths, q), q) = {}
           /\ Shown(T, q) = {} => Visited(T, With(paths, q), OpenPaths(stack))
           /\ Visited(T, With(paths, q), With(OpenPaths(stack), q))
<1>1. NextOf(T, stack, p, k, rest) /\ q = Append(p, k)
    BY DEF Turns
<1>2. /\ k \in 1..T.num /\ p \in OpenPaths(stack) /\ p \in Steps(T) /\ q \notin paths
      /\ rest \in SUBSET (1..T.num)
      /\ Framed(T, With(paths, q), TopLeft(stack, rest))
      /\ OpenPaths(TopLeft(stack, rest)) = OpenPaths(stack)
    BY <1>1, StackTurn
<1>3. q \in Steps(T) /\ q # <<>> /\ Last(q) = k
    <2>1. k \in 1..T.num /\ p \in Steps(T)
        BY <1>2
    <2>2. Append(p, k) \in Steps(T) /\ Append(p, k) # <<>> /\ Last(Append(p, k)) = k
        BY <2>1, PathAppend
    <2> QED
        BY <1>1, <2>2
<1>4. Children(T, With(paths, q), q) = {}
    BY <1>1, <1>2, NewPath
<1>5. Shown(T, q) = {} => Visited(T, With(paths, q), OpenPaths(stack))
    BY <1>1, <1>2, VisitedTurn
<1>6. Visited(T, With(paths, q), With(OpenPaths(stack), q))
    BY <1>1, <1>2, VisitedTurn DEF With
<1> QED
    BY <1>2, <1>3, <1>4, <1>5, <1>6

LEMMA TurnDirs ==
    ASSUME NEW T, T.num \in Nat, NEW stack, NEW p \in Steps(T), NEW k \in 1..T.num, NEW q, NEW rest,
           Turns(T, stack, p, k, q, rest)
    PROVE  /\ Cardinality(Dirs(T, p)) \in Nat /\ Above(T, q) = Cardinality(Dirs(T, p))
           /\ Cardinality(Dirs(T, q)) = Cardinality(Dirs(T, p)) + IF TypeDir(T, k) THEN 1 ELSE 0
<1>1. q = Append(p, k)
    BY DEF Turns
<1> QED
    BY <1>1, DirsAppend

\* What TopLeft leaves as it was.
SameSizes(T, stack, next) ==
    LET n == Len(stack)
    IN  /\ next \in Seq(Frames(T)) /\ n \in Nat \ {0} /\ Len(next) = n /\ stack[n] \in Frames(T)
        /\ \A j \in 1..n : next[j].size = stack[j].size

LEMMA SizesKept ==
    ASSUME NEW T, NEW stack \in Seq(Frames(T)), stack # <<>>, NEW rest \in SUBSET (1..T.num)
    PROVE  SameSizes(T, stack, TopLeft(stack, rest))
<1> DEFINE next == TopLeft(stack, rest)  n == Len(stack)
<1>1. next \in Seq(Frames(T)) /\ n \in Nat \ {0} /\ Len(next) = n /\ stack[n] \in Frames(T)
    BY StackLeft
<1>2. \A j \in 1..n : next[j].path = stack[j].path /\ next[j].size = stack[j].size
    BY StackLeft
<1> HIDE DEF next
<1> QED
    BY <1>1, <1>2 DEF SameSizes, next

\* The buffer holds the name of the next entry, and has room for one more if that is
\* a directory.
RoomAfter(stack, rest, size, fits) ==
    LET long == stack[Len(stack)].size + NAME_MAX
        grown == GrownTo(long, size)
        fit == Fit(fits, long, size)
        kept == TopLeft(stack, rest)
    IN  /\ long \in Nat /\ grown \in Nat /\ size <= grown /\ long + 1 + NAME_MAX < grown
        /\ fit \in BOOLEAN /\ Fit(fit, long + 1, grown) \in BOOLEAN /\ Fit(fit, long + 1, grown)
        /\ RoomLeft(kept, size, fit) /\ RoomLeft(kept, grown, Fit(fit, long + 1, grown))

LEMMA RoomTurn ==
    ASSUME NEW T, NEW stack \in Seq(Frames(T)), stack # <<>>, NEW size \in Nat, NEW fits \in BOOLEAN,
           RoomLeft(stack, size, fits), NEW rest \in SUBSET (1..T.num)
    PROVE  RoomAfter(stack, rest, size, fits)
<1> DEFINE n == Len(stack)
           long == stack[n].size + NAME_MAX
           grown == GrownTo(long, size)
           fit == Fit(fits, long, size)
           kept == TopLeft(stack, rest)
<1>1. /\ kept \in Seq(Frames(T)) /\ n \in Nat \ {0} /\ Len(kept) = n
      /\ stack[n] \in Frames(T)
      /\ \A j \in 1..n : kept[j].size = stack[j].size
    <2>1. SameSizes(T, stack, kept)
        BY SizesKept
    <2> HIDE DEF kept
    <2> QED
        BY <2>1 DEF SameSizes
<1>2. stack[n].size \in Nat /\ NAME_MAX \in Nat
    BY <1>1, FileTreeAssumption DEF Frames
<1>3. fits /\ \A j \in 1..n : stack[j].size + NAME_MAX < size
    BY DEF RoomLeft
<1>4. \A j \in 1..n : stack[j].size \in Nat
    <2> SUFFICES ASSUME NEW j \in 1..n PROVE stack[j].size \in Nat
        OBVIOUS
    <2>1. stack[j] \in Frames(T)
        BY ElementOfSeq
    <2> QED
        BY <2>1 DEF Frames
<1> HIDE DEF kept
<1>5. long \in Nat /\ long < size
    BY <1>1, <1>2, <1>3
<1> HIDE DEF n, long
<1>6. grown \in Nat /\ size <= grown /\ long + 1 + NAME_MAX < grown
    BY <1>2, <1>5 DEF GrownTo
<1> HIDE DEF grown
<1>7. fit /\ fit \in BOOLEAN /\ Fit(fit, long + 1, grown) /\ Fit(fit, long + 1, grown) \in BOOLEAN
    BY <1>2, <1>3, <1>5, <1>6 DEF Fit
<1> HIDE DEF fit
<1>8. \A j \in 1..n : kept[j].size + NAME_MAX < size /\ kept[j].size + NAME_MAX < grown
    <2> SUFFICES ASSUME NEW j \in 1..n PROVE kept[j].size + NAME_MAX < size /\ kept[j].size + NAME_MAX < grown
        OBVIOUS
    <2>1. kept[j].size = stack[j].size /\ stack[j].size \in Nat /\ stack[j].size + NAME_MAX < size
        BY <1>1, <1>3, <1>4
    <2> QED
        BY <1>2, <1>6, <2>1
<1> QED
    BY <1>1, <1>5, <1>6, <1>7, <1>8 DEF RoomAfter, RoomLeft, n, long, grown, fit, kept

\* An entry that d_type calls a directory is not taken for a file.
LEMMA FileType ==
    ASSUME NEW T, NEW q, q # <<>>, Exists(T, q), ~IsDir(T, q)
    PROVE  ~TypeDir(T, Last(q))
<1>1. Kind(T, q) = "file"
    BY DEF Exists, IsDir
<1>2. Here(q) = Last(q)
    BY DEF Here
<1> DEFINE k == Last(q)
<1> HIDE DEF k
<1>3. Kind(T, q) = T.kind[Real(T, k)]
    BY <1>2 DEF Kind, k
<1>4. T.kind[k] # "link" => Real(T, k) = k
    BY DEF Real
<1>5. CASE T.kind[k] = "link"
    BY <1>5 DEF TypeDir, k
<1>6. CASE T.kind[k] # "link"
    <2>1. T.kind[k] = "file"
        BY <1>1, <1>3, <1>4, <1>6
    <2> QED
        BY <2>1 DEF TypeDir, k
<1> QED
    BY <1>5, <1>6

\* What a turn does, whatever the entry is, to all that does not depend on whether it
\* is entered.
LEMMA EveryTurn ==
    ASSUME NEW T, T.num \in Nat, NEW fi, NEW di, NEW max, NEW cur, NEW lines, NEW size, NEW fits, NEW stack,
           Good(T, fi, di, max, cur, lines, size, fits, stack), stack # <<>>,
           NEW p, NEW k, NEW q, NEW rest, Turns(T, stack, p, k, q, rest)
    PROVE  LET deep == Deeper(T, q, cur)
               best == Best(max, deep)
               more == Put(lines, q, cur)
               kept == TopLeft(stack, rest)
           IN  /\ deep \in Int /\ best \in Int /\ more \in LineSeqs(T) /\ Paths(more) = With(Paths(lines), q)
               /\ Counted(T, Paths(more), IF Exists(T, q) /\ ~IsDir(T, q) THEN fi + 1 ELSE fi,
                          IF Exists(T, q) /\ IsDir(T, q) THEN di + 1 ELSE di, Len(more))
               /\ Indented(T, more, best)
               /\ kept \in Seq(Frames(T)) /\ kept # <<>> /\ kept[Len(kept)].path = p
               /\ Framed(T, Paths(more), kept) /\ OpenPaths(kept) = OpenPaths(stack)
               /\ Cardinality(Dirs(T, p)) \in Nat /\ LeakedAll(T, more) \in Nat
               /\ deep = Cardinality(Dirs(T, q)) + LeakedAll(T, lines)
               /\ Cardinality(Dirs(T, q)) = Cardinality(Dirs(T, p)) + IF TypeDir(T, k) THEN 1 ELSE 0
               /\ LeakedAll(T, more) = LeakedAll(T, lines) + IF TypeDir(T, k) /\ Fails(T, q) THEN 1 ELSE 0
<1> DEFINE deep == Deeper(T, q, cur)
           best == Best(max, deep)
           more == Put(lines, q, cur)
           kept == TopLeft(stack, rest)
           paths == Paths(lines)
           n == Len(stack)
<1>1. /\ fi \in Nat /\ di \in Nat /\ max \in Int /\ cur \in Int /\ lines \in LineSeqs(T) /\ size \in Nat
      /\ fits \in BOOLEAN /\ stack \in Seq(Frames(T))
    BY DEF Good, Typed
<1>2. /\ Visited(T, paths, OpenPaths(stack)) /\ Framed(T, paths, stack)
      /\ Counted(T, paths, fi, di, Len(lines)) /\ Indented(T, lines, max)
      /\ Levelled(T, stack, lines, cur)
    BY DEF Good
<1>3. /\ k \in 1..T.num /\ p \in Steps(T) /\ q \in Steps(T) /\ q \notin paths /\ q # <<>> /\ Last(q) = k
      /\ rest \in SUBSET (1..T.num)
      /\ Framed(T, With(paths, q), kept)
      /\ OpenPaths(kept) = OpenPaths(stack)
      /\ Cardinality(Dirs(T, p)) \in Nat /\ Above(T, q) = Cardinality(Dirs(T, p))
      /\ Cardinality(Dirs(T, q)) = Cardinality(Dirs(T, p)) + IF TypeDir(T, k) THEN 1 ELSE 0
    <2>1. /\ k \in 1..T.num /\ p \in Steps(T) /\ q \in Steps(T) /\ q \notin paths /\ q # <<>> /\ Last(q) = k
          /\ rest \in SUBSET (1..T.num)
          /\ Framed(T, With(paths, q), kept)
          /\ OpenPaths(kept) = OpenPaths(stack)
        BY <1>1, <1>2, TurnPaths
    <2>2. /\ Cardinality(Dirs(T, p)) \in Nat /\ Above(T, q) = Cardinality(Dirs(T, p))
          /\ Cardinality(Dirs(T, q)) = Cardinality(Dirs(T, p)) + IF TypeDir(T, k) THEN 1 ELSE 0
        BY <2>1, TurnDirs
    <2> QED
        BY <2>1, <2>2
<1>4. p = stack[n].path
    BY DEF Turns, NextOf
<1>5. cur = Above(T, q) + LeakedAll(T, lines)
    BY <1>2, <1>3, <1>4 DEF Levelled
<1>6. more \in LineSeqs(T) /\ Paths(more) = With(paths, q) /\ Len(more) = Len(lines) + 1 /\ Len(lines) \in Nat
    BY <1>1, <1>3, LineAppend
<1>7. Due(T, lines, q, cur)
    BY <1>5 DEF Due
<1>8. /\ Indented(T, more, best)
      /\ LeakedAll(T, more) = LeakedAll(T, lines) + IF TypeDir(T, Last(q)) /\ Fails(T, q) THEN 1 ELSE 0
    BY <1>1, <1>2, <1>3, <1>7, IndentedTurn
<1>9. Counted(T, With(paths, q), IF Exists(T, q) /\ ~IsDir(T, q) THEN fi + 1 ELSE fi,
              IF Exists(T, q) /\ IsDir(T, q) THEN di + 1 ELSE di, Len(lines) + 1)
    BY <1>2, <1>3, CountedTurn
<1>10. LeakedAll(T, lines) \in Nat /\ LeakedAll(T, more) \in Nat
    <2>1. Len(lines) + 1 \in Nat /\ Len(more) + 1 \in Nat
        BY <1>6
    <2> QED
        BY <2>1, LeakedFinite DEF LeakedAll
<1>11. kept \in Seq(Frames(T)) /\ n \in Nat \ {0} /\ Len(kept) = n /\ kept[n].path = stack[n].path
    BY <1>1, <1>3, StackLeft
<1>12. kept # <<>>
    BY <1>11, EmptySeq
<1>13. deep = IF TypeDir(T, k) THEN cur + 1 ELSE cur
    BY <1>3 DEF Deeper
<1> HIDE DEF deep, more, kept, paths, n
<1>14. deep \in Int /\ deep = Cardinality(Dirs(T, q)) + LeakedAll(T, lines)
    BY <1>1, <1>3, <1>5, <1>10, <1>13
<1>15. best \in Int
    BY <1>1, <1>14 DEF Best
<1>16. LeakedAll(T, more) = LeakedAll(T, lines) + IF TypeDir(T, k) /\ Fails(T, q) THEN 1 ELSE 0
    BY <1>3, <1>8
<1>17. kept[Len(kept)].path = p
    BY <1>4, <1>11
<1>18. Counted(T, Paths(more), IF Exists(T, q) /\ ~IsDir(T, q) THEN fi + 1 ELSE fi,
               IF Exists(T, q) /\ IsDir(T, q) THEN di + 1 ELSE di, Len(more))
    BY <1>6, <1>9
<1>19. Framed(T, Paths(more), kept)
    BY <1>3, <1>6
<1> HIDE DEF best
<1> QED
    BY <1>3, <1>6, <1>8, <1>10, <1>11, <1>12, <1>14, <1>15, <1>16, <1>17, <1>18, <1>19
       DEF deep, best, more, kept, paths

\* An entry that fails, or that is no directory.
LEMMA StayTurn ==
    ASSUME NEW T, T.num \in Nat, NEW fi, NEW di, NEW max, NEW cur, NEW lines, NEW size, NEW fits, NEW stack,
           Good(T, fi, di, max, cur, lines, size, fits, stack), stack # <<>>,
           NEW p, NEW k, NEW q, NEW rest, Turns(T, stack, p, k, q, rest), Fails(T, q) \/ ~IsDir(T, q),
           NEW size2 \in Nat, NEW fits2 \in BOOLEAN, RoomLeft(TopLeft(stack, rest), size2, fits2),
           NEW fi2, fi2 = IF Exists(T, q) /\ ~IsDir(T, q) THEN fi + 1 ELSE fi,
           NEW di2, di2 = IF Exists(T, q) /\ IsDir(T, q) THEN di + 1 ELSE di
    PROVE  Good(T, fi2, di2, Best(max, Deeper(T, q, cur)), Deeper(T, q, cur), Put(lines, q, cur),
                size2, fits2, TopLeft(stack, rest))
<1> DEFINE deep == Deeper(T, q, cur)
           best == Best(max, deep)
           more == Put(lines, q, cur)
           kept == TopLeft(stack, rest)
           paths == Paths(lines)
<1>1. /\ fi \in Nat /\ di \in Nat /\ max \in Int /\ cur \in Int /\ lines \in LineSeqs(T) /\ size \in Nat
      /\ fits \in BOOLEAN /\ stack \in Seq(Frames(T))
    BY DEF Good, Typed
<1>2. Visited(T, paths, OpenPaths(stack)) /\ Framed(T, paths, stack)
    BY DEF Good
<1>3. /\ deep \in Int /\ best \in Int /\ more \in LineSeqs(T) /\ Paths(more) = With(paths, q)
      /\ Counted(T, Paths(more), fi2, di2, Len(more))
      /\ Indented(T, more, best)
      /\ kept \in Seq(Frames(T)) /\ kept # <<>> /\ kept[Len(kept)].path = p
      /\ Framed(T, Paths(more), kept) /\ OpenPaths(kept) = OpenPaths(stack)
      /\ Cardinality(Dirs(T, p)) \in Nat
      /\ deep = Cardinality(Dirs(T, q)) + LeakedAll(T, lines)
      /\ Cardinality(Dirs(T, q)) = Cardinality(Dirs(T, p)) + IF TypeDir(T, k) THEN 1 ELSE 0
      /\ LeakedAll(T, more) = LeakedAll(T, lines) + IF TypeDir(T, k) /\ Fails(T, q) THEN 1 ELSE 0
    BY EveryTurn
<1>4. q # <<>> /\ Last(q) = k /\ (Shown(T, q) = {} => Visited(T, With(paths, q), OpenPaths(stack)))
    BY <1>1, <1>2, TurnPaths
<1>5. Shown(T, q) = {}
    BY DEF Shown
<1>6. Visited(T, Paths(more), OpenPaths(kept))
    BY <1>3, <1>4, <1>5
<1>7. LeakedAll(T, lines) \in Nat
    <2>1. Len(lines) + 1 \in Nat
        BY <1>1, LenProperties DEF LineSeqs
    <2> QED
        BY <2>1, LeakedFinite DEF LeakedAll
<1>8. TypeDir(T, k) => Fails(T, q)
    BY <1>4, FileType DEF Fails
<1> HIDE DEF deep, best, more, kept, paths
<1>9. deep = Cardinality(Dirs(T, p)) + LeakedAll(T, more)
    BY <1>3, <1>7, <1>8
<1>10. Levelled(T, kept, more, deep)
    BY <1>3, <1>9 DEF Levelled
<1>11. fi2 \in Nat /\ di2 \in Nat
    BY <1>1
<1>12. Typed(T, fi2, di2, best, deep, more, size2, fits2, kept)
    BY <1>3, <1>11 DEF Typed
<1>13. RoomLeft(kept, size2, fits2)
    BY DEF kept
<1>14. Good(T, fi2, di2, best, deep, more, size2, fits2, kept)
    BY <1>3, <1>6, <1>10, <1>12, <1>13 DEF Good
<1> QED
    BY <1>14 DEF deep, best, more, kept

\* A directory that can be opened.
LEMMA EnterTurn ==
    ASSUME NEW T, T.num \in Nat, NEW fi, NEW di, NEW max, NEW cur, NEW lines, NEW size, NEW fits, NEW stack,
           Good(T, fi, di, max, cur, lines, size, fits, stack), stack # <<>>,
           NEW p, NEW k, NEW q, NEW rest, Turns(T, stack, p, k, q, rest), ~Fails(T, q), IsDir(T, q),
           NEW size2 \in Nat, NEW fits2 \in BOOLEAN, RoomLeft(TopLeft(stack, rest), size2, fits2),
           NEW end \in Nat, end + NAME_MAX < size2
    PROVE  Good(T, fi, di + 1, Best(max, Deeper(T, q, cur)), Deeper(T, q, cur), Put(lines, q, cur),
                size2, fits2, Push(T, TopLeft(stack, rest), q, end))
<1> DEFINE deep == Deeper(T, q, cur)
           best == Best(max, deep)
           more == Put(lines, q, cur)
           kept == TopLeft(stack, rest)
           paths == Paths(lines)
           next == Push(T, kept, q, end)
           n == Len(kept)
           f == [path |-> q, size |-> end, left |-> Inside(T, q)]
<1>1. /\ fi \in Nat /\ di \in Nat /\ max \in Int /\ cur \in Int /\ lines \in LineSeqs(T) /\ size \in Nat
      /\ fits \in BOOLEAN /\ stack \in Seq(Frames(T))
    BY DEF Good, Typed
<1>2. Visited(T, paths, OpenPaths(stack)) /\ Framed(T, paths, stack)
    BY DEF Good
<1>0. Exists(T, q)
    BY DEF Fails
<1>3. /\ deep \in Int /\ best \in Int /\ more \in LineSeqs(T) /\ Paths(more) = With(paths, q)
      /\ Counted(T, Paths(more), IF Exists(T, q) /\ ~IsDir(T, q) THEN fi + 1 ELSE fi,
                          IF Exists(T, q) /\ IsDir(T, q) THEN di + 1 ELSE di, Len(more))
      /\ Indented(T, more, best)
      /\ kept \in Seq(Frames(T)) /\ kept # <<>> /\ kept[Len(kept)].path = p
      /\ Framed(T, Paths(more), kept) /\ OpenPaths(kept) = OpenPaths(stack)
      /\ deep = Cardinality(Dirs(T, q)) + LeakedAll(T, lines)
      /\ LeakedAll(T, more) = LeakedAll(T, lines) + IF TypeDir(T, k) /\ Fails(T, q) THEN 1 ELSE 0
    BY EveryTurn
<1>4. /\ k \in 1..T.num /\ q \in Steps(T) /\ Children(T, With(paths, q), q) = {}
      /\ Visited(T, With(paths, q), With(OpenPaths(stack), q))
    BY <1>1, <1>2, TurnPaths
<1>5. Below(kept, q, k)
    BY <1>3 DEF Turns, Below
<1>6. /\ next \in Seq(Frames(T)) /\ Len(next) = n + 1 /\ n \in Nat /\ next[n + 1] = f
      /\ \A j \in 1..n : next[j] = kept[j]
      /\ Framed(T, Paths(more), next) /\ OpenPaths(next) = OpenPaths(kept) \cup {q}
    <2> HIDE DEF kept, more
    <2>1. Children(T, Paths(more), q) = {}
        BY <1>3, <1>4
    <2> QED
        BY <1>3, <1>4, <1>5, <2>1, StackPush
<1>7. f.path = q /\ f.size = end
    OBVIOUS
<1>8. Counted(T, Paths(more), fi, di + 1, Len(more))
    BY <1>0, <1>3
<1>9. RoomLeft(kept, size2, fits2)
    BY DEF kept
<1>10. LeakedAll(T, lines) \in Nat
    <2>1. Len(lines) + 1 \in Nat
        BY <1>1, LenProperties DEF LineSeqs
    <2> QED
        BY <2>1, LeakedFinite DEF LeakedAll
<1> HIDE DEF deep, best, more, kept, paths, next, n, f
<1>11. Visited(T, Paths(more), OpenPaths(next))
    BY <1>3, <1>4, <1>6 DEF With
<1>12. next # <<>>
    BY <1>6, EmptySeq
<1>13. LeakedAll(T, more) = LeakedAll(T, lines)
    BY <1>3, <1>10
<1>14. Levelled(T, next, more, deep)
    BY <1>3, <1>6, <1>7, <1>13 DEF Levelled
<1>15. RoomLeft(next, size2, fits2)
    <2>1. \A j \in 1..n : kept[j].size + NAME_MAX < size2
        BY <1>9 DEF RoomLeft, n
    <2>2. \A j \in 1..(n + 1) : j \in 1..n \/ j = n + 1
        BY <1>6
    <2>3. \A j \in 1..(n + 1) : next[j].size + NAME_MAX < size2
        BY <1>6, <1>7, <2>1, <2>2
    <2> QED
        BY <1>6, <1>9, <2>3 DEF RoomLeft
<1>16. Typed(T, fi, di + 1, best, deep, more, size2, fits2, next)
    BY <1>1, <1>3, <1>6 DEF Typed
<1>17. Good(T, fi, di + 1, best, deep, more, size2, fits2, next)
    BY <1>3, <1>6, <1>8, <1>11, <1>14, <1>15, <1>16 DEF Good
<1> QED
    BY <1>17 DEF deep, best, more, kept, next

LEMMA TurnOk ==
    ASSUME NEW T, T.num \in Nat, NEW st, WalkOk(T, st), st.stack # <<>>, Top(st).left # {}
    PROVE  WalkOk(T, NextEntry(T, st))
<1> DEFINE stack == st.stack
           n == Len(stack)
           p == stack[n].path
           k == Min(stack[n].left)
           q == Append(p, k)
           left == stack[n].left \ {k}
           rest == IF Fails(T, q) THEN {} ELSE left
           kept == TopLeft(stack, rest)
           deep == Deeper(T, q, st.cur_depth)
           best == Best(st.max_depth, deep)
           more == Put(st.lines, q, st.cur_depth)
           long == stack[n].size + NAME_MAX
           grown == GrownTo(long, st.size)
           fit == Fit(st.fits, long, st.size)
           fit2 == Fit(fit, long + 1, grown)
           fi2 == IF Exists(T, q) /\ ~IsDir(T, q) THEN st.file + 1 ELSE st.file
           di2 == IF Exists(T, q) /\ IsDir(T, q) THEN st.dir + 1 ELSE st.dir
<1>1. st \in WalkWorks(T) /\ stack \in Seq(Frames(T)) /\ st.size \in Nat /\ st.fits \in BOOLEAN
    BY DEF WalkOk, WalkWorks
<1>2. Good(T, st.file, st.dir, st.max_depth, st.cur_depth, st.lines, st.size, st.fits, stack)
    BY DEF WalkOk
<1>3. stack[n] \in Frames(T) /\ n \in Nat \ {0}
    <2>1. n \in Nat \ {0}
        BY <1>1, EmptySeq
    <2>2. n \in 1..n
        BY <2>1
    <2> QED
        BY <1>1, <2>1, <2>2, ElementOfSeq
<1>4. stack[n].left \in SUBSET (1..T.num) /\ stack[n].left # {} /\ stack[n].left \in SUBSET Nat
    BY <1>3 DEF Frames, Top, Last
<1>5. k \in stack[n].left /\ \A l \in stack[n].left : k <= l
    BY <1>4, Minimum
<1>6. NextPath(T, stack, q, k, left)
    BY <1>4 DEF NextPath
<1>7. Turns(T, stack, p, k, q, rest)
    BY <1>5 DEF Turns, NextOf
<1>8. rest \in SUBSET (1..T.num)
    BY <1>4
<1>9. (Fails(T, q) => rest = {}) /\ (~Fails(T, q) => rest = left)
    OBVIOUS
<1> HIDE DEF q, k, p, left, rest, stack
<1>10. /\ long \in Nat /\ grown \in Nat /\ st.size <= grown /\ long + 1 + NAME_MAX < grown
       /\ fit \in BOOLEAN /\ fit2 \in BOOLEAN
       /\ RoomLeft(kept, st.size, fit) /\ RoomLeft(kept, grown, fit2)
    <2>1. RoomLeft(stack, st.size, st.fits)
        BY <1>2 DEF Good
    <2>2. stack # <<>>
        BY DEF stack
    <2> QED
        <3>1. RoomAfter(stack, rest, st.size, st.fits)
            BY <1>1, <1>8, <2>1, <2>2, RoomTurn
        <3> QED
            BY <3>1 DEF RoomAfter
<1>11. NextEntry(T, st) =
                   IF ~Exists(T, q)
                   THEN St(st.file, st.dir, best, deep, more, st.size, fit, TopLeft(stack, {}))
                   ELSE IF ~IsDir(T, q)
                   THEN St(st.file + 1, st.dir, best, deep, more, st.size, fit, TopLeft(stack, left))
                   ELSE IF Kind(T, q) = "locked"
                   THEN St(st.file, st.dir + 1, best, deep, more, grown, fit2, TopLeft(stack, {}))
                   ELSE St(st.file, st.dir + 1, best, deep, more, grown, fit2,
                           Push(T, TopLeft(stack, left), q, long + 1))
    BY <1>1, <1>6, NextEntryIs DEF stack
<1>12. Fails(T, q) \/ ~IsDir(T, q) =>
           \A size2 \in Nat, fits2 \in BOOLEAN :
               RoomLeft(kept, size2, fits2) => Good(T, fi2, di2, best, deep, more, size2, fits2, kept)
    <2> SUFFICES ASSUME Fails(T, q) \/ ~IsDir(T, q), NEW size2 \in Nat, NEW fits2 \in BOOLEAN, RoomLeft(kept, size2, fits2)
                 PROVE  Good(T, fi2, di2, best, deep, more, size2, fits2, kept)
        OBVIOUS
    <2>1. stack # <<>>
        BY DEF stack
    <2> QED
        BY <1>2, <1>7, <2>1, StayTurn
<1>13. ~Fails(T, q) /\ IsDir(T, q) =>
           Good(T, st.file, st.dir + 1, best, deep, more, grown, fit2, Push(T, kept, q, long + 1))
    <2> SUFFICES ASSUME ~Fails(T, q), IsDir(T, q)
                 PROVE  Good(T, st.file, st.dir + 1, best, deep, more, grown, fit2, Push(T, kept, q, long + 1))
        OBVIOUS
    <2>1. stack # <<>>
        BY DEF stack
    <2>2. long + 1 \in Nat
        BY <1>10
    <2> HIDE DEF grown, fit2, long
    <2> QED
        BY <1>2, <1>7, <1>10, <2>1, <2>2, EnterTurn
<1> HIDE DEF n, deep, best, more, long, grown, fit, fit2
<1>14. IsDir(T, q) <=> Kind(T, q) \in {"dir", "locked"}
    BY DEF IsDir
<1>15. Fails(T, q) <=> ~Exists(T, q) \/ Kind(T, q) = "locked"
    BY DEF Fails
<1>16. CASE ~Exists(T, q)
    <2>1. NextEntry(T, st) = St(fi2, di2, best, deep, more, st.size, fit, kept)
        BY <1>9, <1>11, <1>15, <1>16
    <2>2. Good(T, fi2, di2, best, deep, more, st.size, fit, kept)
        BY <1>1, <1>10, <1>12, <1>15, <1>16
    <2> QED
        BY <2>1, <2>2, GoodSt
<1>17. CASE Exists(T, q) /\ ~IsDir(T, q)
    <2>1. NextEntry(T, st) = St(fi2, di2, best, deep, more, st.size, fit, kept)
        BY <1>9, <1>11, <1>14, <1>15, <1>17
    <2>2. Good(T, fi2, di2, best, deep, more, st.size, fit, kept)
        BY <1>1, <1>10, <1>12, <1>17
    <2> QED
        BY <2>1, <2>2, GoodSt
<1>18. CASE Exists(T, q) /\ IsDir(T, q) /\ Kind(T, q) = "locked"
    <2>1. NextEntry(T, st) = St(fi2, di2, best, deep, more, grown, fit2, kept)
        BY <1>9, <1>11, <1>15, <1>18
    <2>2. Good(T, fi2, di2, best, deep, more, grown, fit2, kept)
        BY <1>10, <1>12, <1>15, <1>18
    <2> QED
        BY <2>1, <2>2, GoodSt
<1>19. CASE Exists(T, q) /\ IsDir(T, q) /\ Kind(T, q) # "locked"
    <2>1. NextEntry(T, st) = St(st.file, st.dir + 1, best, deep, more, grown, fit2, Push(T, kept, q, long + 1))
        BY <1>9, <1>11, <1>15, <1>19
    <2>2. Good(T, st.file, st.dir + 1, best, deep, more, grown, fit2, Push(T, kept, q, long + 1))
        BY <1>13, <1>15, <1>19
    <2> QED
        BY <2>1, <2>2, GoodSt
<1> QED
    BY <1>16, <1>17, <1>18, <1>19

LEMMA PathParts ==
    ASSUME NEW T, NEW p \in Steps(T), p # <<>>
    PROVE  Front(p) \in Steps(T) /\ Last(p) \in 1..T.num /\ p = Append(Front(p), Last(p))
<1> DEFINE r == Front(p)  k == Last(p)
<1>1. r \in Steps(T) /\ Len(p) \in Nat \ {0} /\ Len(r) = Len(p) - 1 /\ \A j \in 1..(Len(p) - 1) : r[j] = p[j]
    BY FrontIs DEF Steps
<1>2. Len(p) \in 1..Len(p) /\ k = p[Len(p)]
    BY <1>1 DEF Last
<1>3. k \in 1..T.num
    BY <1>2, ElementOfSeq DEF Steps
<1> HIDE DEF r, k
<1>4. /\ Append(r, k) \in Steps(T) /\ Len(Append(r, k)) = Len(p)
      /\ Append(r, k)[Len(p)] = k /\ \A j \in 1..(Len(p) - 1) : Append(r, k)[j] = r[j]
    BY <1>1, <1>3, PathAppend
<1>5. \A j \in 1..Len(p) : j \in 1..(Len(p) - 1) \/ j = Len(p)
    BY <1>1
<1>6. \A j \in 1..Len(p) : Append(r, k)[j] = p[j]
    BY <1>1, <1>2, <1>4, <1>5
<1>7. Append(r, k) = p
    BY <1>4, <1>6, SeqEqual DEF Steps
<1> QED
    BY <1>1, <1>3, <1>7 DEF r, k

\* The return of the call for the directory on top, which takes cur_depth back.
LEMMA ReturnOk ==
    ASSUME NEW T, T.num \in Nat, NEW st, WalkOk(T, st), st.stack # <<>>, Top(st).left = {}
    PROVE  WalkOk(T, Returned(T, st))
<1> DEFINE stack == st.stack
           n == Len(stack)
           p == stack[n].path
           next == Front(stack)
           cur == IF p # <<>> /\ TypeDir(T, Last(p)) THEN st.cur_depth - 1 ELSE st.cur_depth
           paths == Paths(st.lines)
<1>1. st \in WalkWorks(T) /\ stack \in Seq(Frames(T))
    BY DEF WalkOk, WalkWorks
<1>2. Good(T, st.file, st.dir, st.max_depth, st.cur_depth, st.lines, st.size, st.fits, stack)
    BY DEF WalkOk
<1>3. Returned(T, st)
          = St(st.file, st.dir, st.max_depth, cur, st.lines, st.size, st.fits, next)
    <2>1. Returned(T, st) = [st EXCEPT !.stack = next, !.cur_depth = cur]
        <3>1. Top(st).path = p
            BY DEF Top, Last
        <3> HIDE DEF p, next
        <3> QED
            BY <3>1 DEF Returned, next
    <2> HIDE DEF next, cur
    <2>2. [st EXCEPT !.stack = next, !.cur_depth = cur] = [[st EXCEPT !.stack = next] EXCEPT !.cur_depth = cur]
        OBVIOUS
    <2>3. [st EXCEPT !.stack = next]
              = St(st.file, st.dir, st.max_depth, st.cur_depth, st.lines, st.size, st.fits, next)
        BY <1>1, StIs, StPopped
    <2>4. [St(st.file, st.dir, st.max_depth, st.cur_depth, st.lines, st.size, st.fits, next) EXCEPT !.cur_depth = cur]
              = St(st.file, st.dir, st.max_depth, cur, st.lines, st.size, st.fits, next)
        BY DEF St
    <2> QED
        BY <2>1, <2>2, <2>3, <2>4
<1>4. stack # <<>> /\ stack[n].left = {}
    BY DEF Top, Last
<1> HIDE DEF stack
<1>5. /\ Visited(T, paths, OpenPaths(stack)) /\ Framed(T, paths, stack)
      /\ Counted(T, paths, st.file, st.dir, Len(st.lines)) /\ Indented(T, st.lines, st.max_depth)
      /\ Levelled(T, stack, st.lines, st.cur_depth) /\ RoomLeft(stack, st.size, st.fits)
    BY <1>2 DEF Good
<1>6. /\ next \in Seq(Frames(T)) /\ n \in Nat \ {0} /\ Len(next) = n - 1 /\ DOMAIN stack = 1..n
      /\ \A j \in 1..(n - 1) : next[j] = stack[j]
      /\ Framed(T, paths, next)
      /\ OpenPaths(next) \subseteq OpenPaths(stack)
      /\ OpenPaths(stack) \subseteq OpenPaths(next) \cup {p}
      /\ n # 1 => next[n - 1].path = Front(p)
    BY <1>1, <1>4, <1>5, StackPop
<1>7. n \in 1..n
    BY <1>6
<1>8. OpenedRight(T, paths, p, {}) /\ p \in OpenPaths(stack) /\ p \in Steps(T) /\ Len(p) = n - 1
    <2>1. OpenedRight(T, paths, stack[n].path, stack[n].left) /\ Len(p) = n - 1
        BY <1>5, <1>7 DEF Framed, Chain
    <2>2. p \in OpenPaths(stack)
        BY <1>6, <1>7 DEF OpenPaths
    <2>3. stack[n] \in Frames(T)
        BY <1>1, <1>7, ElementOfSeq
    <2>4. p \in Steps(T)
        BY <2>3 DEF Frames
    <2> QED
        BY <1>4, <2>1, <2>2, <2>4
<1>9. Visited(T, paths, OpenPaths(next))
    BY <1>5, <1>6, <1>8, VisitedReturn
<1>10. /\ st.file \in Nat /\ st.dir \in Nat /\ st.max_depth \in Int /\ st.cur_depth \in Int /\ st.lines \in LineSeqs(T)
       /\ st.size \in Nat /\ st.fits \in BOOLEAN
    BY <1>2 DEF Good, Typed
<1> HIDE DEF n, next, p, paths
<1>11. RoomLeft(next, st.size, st.fits)
    <2>1. \A j \in 1..(n - 1) : j \in 1..n
        BY <1>6
    <2>2. st.fits /\ \A j \in 1..n : stack[j].size + NAME_MAX < st.size
        BY <1>5 DEF RoomLeft, n
    <2>3. \A j \in 1..(n - 1) : next[j].size + NAME_MAX < st.size
        BY <1>6, <2>1, <2>2
    <2> QED
        BY <1>6, <2>2, <2>3 DEF RoomLeft
<1>12. Levelled(T, next, st.lines, cur)
    <2>1. CASE n = 1
        <3>1. next = <<>>
            BY <1>6, <2>1, EmptySeq
        <3> QED
            BY <3>1 DEF Levelled
    <2>2. CASE n # 1
        <3> DEFINE r == Front(p)  k == Last(p)
        <3>1. p # <<>>
            BY <1>6, <1>8, <2>2, EmptySeq
        <3>2. r \in Steps(T) /\ k \in 1..T.num /\ p = Append(r, k)
            BY <1>8, <3>1, PathParts
        <3> HIDE DEF r, k
        <3>3. /\ Cardinality(Dirs(T, r)) \in Nat
              /\ Cardinality(Dirs(T, p)) = Cardinality(Dirs(T, r)) + IF TypeDir(T, k) THEN 1 ELSE 0
            BY <3>2, DirsAppend
        <3>4. st.cur_depth = Cardinality(Dirs(T, p)) + LeakedAll(T, st.lines)
            BY <1>4, <1>5 DEF Levelled, p, n
        <3>5. LeakedAll(T, st.lines) \in Nat
            <4>1. Len(st.lines) + 1 \in Nat
                BY <1>10, LenProperties DEF LineSeqs
            <4> QED
                BY <4>1, LeakedFinite DEF LeakedAll
        <3>6. cur = IF TypeDir(T, k) THEN st.cur_depth - 1 ELSE st.cur_depth
            BY <3>1 DEF k
        <3>7. cur = Cardinality(Dirs(T, r)) + LeakedAll(T, st.lines)
            <4> HIDE DEF cur
            <4> QED
                BY <1>10, <3>3, <3>4, <3>5, <3>6
        <3>8. next[Len(next)].path = r
            BY <1>6, <2>2 DEF r
        <3> QED
            BY <3>7, <3>8 DEF Levelled
    <2> QED
        BY <2>1, <2>2
<1>13. cur \in Int
    BY <1>10
<1> HIDE DEF cur
<1>14. Typed(T, st.file, st.dir, st.max_depth, cur, st.lines, st.size, st.fits, next)
    BY <1>6, <1>10, <1>13 DEF Typed
<1>15. Good(T, st.file, st.dir, st.max_depth, cur, st.lines, st.size, st.fits, next)
    BY <1>5, <1>6, <1>9, <1>11, <1>12, <1>14 DEF Good, paths
<1> QED
    BY <1>3, <1>15, GoodSt DEF cur, next, p

LEMMA TreeIs == ASSUME NEW T, IsTree(T) PROVE T.num \in Nat /\ T.kind[0] # "link"
BY Zenon DEF IsTree

\* A walk that is given a directory starts with that open, and nothing shown.
LEMMA StartOk ==
    ASSUME NEW T, IsTree(T), T.kind[0] = "dir", NEW length \in Nat \ {0}, NEW slash \in BOOLEAN
    PROVE  WalkOk(T, Walk(T, length, slash))
<1> DEFINE end == IF slash THEN length ELSE length + 1
           size == length + 1
           grown == GrownTo(length, size)
           fit == Fit(TRUE, end, grown)
           f == [path |-> <<>>, size |-> end, left |-> Inside(T, <<>>)]
           stack == Push(T, <<>>, <<>>, end)
           none == Paths(<<>>)
<1>1. /\ end \in Nat /\ size \in Nat /\ grown \in Nat /\ fit /\ fit \in BOOLEAN /\ end + NAME_MAX < grown
    <2>1. NAME_MAX \in Nat
        BY FileTreeAssumption
    <2> QED
        BY <2>1 DEF GrownTo, Fit
<1>2. Kind(T, <<>>) = "dir"
    <2>1. Here(<<>>) = 0
        BY DEF Here
    <2>2. Real(T, 0) = 0
        BY TreeIs DEF Real
    <2> QED
        BY <2>1, <2>2 DEF Kind
<1>3. Exists(T, <<>>) /\ IsDir(T, <<>>) /\ ~Fails(T, <<>>)
    <2>1. {n \in DOMAIN <<>> : T.kind[<<>>[n]] = "link"} = {}
        OBVIOUS
    <2>2. Links(T, <<>>) = 0
        BY <2>1, FS_EmptySet DEF Links
    <2> QED
        BY <1>2, <2>2, FileTreeAssumption DEF Exists, IsDir, Fails
<1>4. Walk(T, length, slash) = St(0, 1, 0, 0, <<>>, grown, fit, stack)
    <2>1. NewWalk(size) = St(0, 0, 0, 0, <<>>, size, TRUE, <<>>)
        BY DEF NewWalk, St
    <2>2. Walk(T, length, slash) = ShowTree(T, <<>>, length, end, NewWalk(size))
        BY DEF Walk
    <2> HIDE DEF end, size, grown, fit, stack
    <2>3. ShowTree(T, <<>>, length, end, St(0, 0, 0, 0, <<>>, size, TRUE, <<>>))
              = St(0, 0 + 1, 0, 0, <<>>, GrownTo(length, size), Fit(TRUE, end, GrownTo(length, size)), Push(T, <<>>, <<>>, end))
        <3> DEFINE q == <<>>  zero == 0  yes == TRUE
        <3>1. Exists(T, q) /\ IsDir(T, q) /\ Kind(T, q) # "locked"
            BY <1>2, <1>3
        <3> HIDE DEF q, zero, yes
        <3>2. ShowTree(T, q, length, end, St(zero, zero, zero, zero, q, size, yes, q))
              = St(zero, zero + 1, zero, zero, q, GrownTo(length, size), Fit(yes, end, GrownTo(length, size)), Push(T, q, q, end))
            BY <3>1, StShown
        <3> QED
            BY <3>2 DEF q, zero, yes
    <2>4. 0 + 1 = 1
        OBVIOUS
    <2> QED
        BY <2>1, <2>2, <2>3, <2>4 DEF grown, fit, stack
<1>5. Inside(T, <<>>) \in SUBSET (1..T.num) /\ T.num \in Nat
    BY TreeIs DEF Inside, Entries
<1>6. f \in Frames(T) /\ f.path = <<>> /\ f.size = end /\ f.left = Inside(T, <<>>)
    <2>1. <<>> \in Steps(T)
        BY DEF Steps
    <2> QED
        BY <1>1, <1>5, <2>1 DEF Frames
<1>7. stack \in Seq(Frames(T)) /\ Len(stack) = 1 /\ stack[1] = f /\ DOMAIN stack = 1..1
    <2>1. <<>> \in Seq(Frames(T)) /\ Len(<<>>) = 0
        OBVIOUS
    <2>2. stack = Append(<<>>, f)
        BY DEF Push
    <2> HIDE DEF stack, f
    <2>3. stack \in Seq(Frames(T)) /\ Len(stack) = 0 + 1 /\ stack[0 + 1] = f
        BY <1>6, <2>1, <2>2, AppendProperties
    <2>4. DOMAIN stack = 1..1 /\ Len(stack) = 1
        BY <2>3, LenProperties
    <2> QED
        BY <2>3, <2>4
<1> HIDE DEF f, end, size, grown, fit, stack
<1>8. none = {} /\ OpenPaths(stack) = {<<>>} /\ stack # <<>>
    <2>1. \A n \in DOMAIN stack : stack[n].path = <<>>
        BY <1>6, <1>7
    <2>2. 1 \in DOMAIN stack
        BY <1>7
    <2> QED
        BY <1>7, <2>1, <2>2, EmptySeq DEF Paths, OpenPaths
<1> HIDE DEF none
<1>9. Visited(T, none, OpenPaths(stack))
    BY <1>8, FS_EmptySet DEF Visited
<1>10. Children(T, none, <<>>) = {}
    BY <1>8 DEF Children
<1>11. OpenedRight(T, none, <<>>, Inside(T, <<>>))
    <2>1. Shown(T, <<>>) \subseteq Inside(T, <<>>)
        BY DEF Shown, Inside
    <2>2. Inside(T, <<>>) \ Inside(T, <<>>) = {}
        OBVIOUS
    <2> QED
        BY <1>3, <1>10, <2>1, <2>2 DEF OpenedRight
<1>12. Framed(T, none, stack)
    <2>1. \A n \in 1..Len(stack) : n = 1
        BY <1>7
    <2>2. Len(<<>>) = 1 - 1
        OBVIOUS
    <2> QED
        BY <1>6, <1>7, <1>11, <2>1, <2>2 DEF Framed, Chain
<1>13. Counted(T, none, 0, 1, Len(<<>>))
    <2>1. {p \in none : Exists(T, p) /\ ~IsDir(T, p)} = {} /\ {p \in none : Exists(T, p) /\ IsDir(T, p)} = {}
        BY <1>8
    <2>2. IsFiniteSet({}) /\ Cardinality({}) = 0 /\ Len(<<>>) = 0
        BY FS_EmptySet
    <2> QED
        BY <1>8, <2>1, <2>2 DEF Counted
<1>14. Indented(T, <<>>, 0)
    BY DEF Indented
<1>15. Levelled(T, stack, <<>>, 0)
    <2>1. Dirs(T, <<>>) = {}
        BY DEF Dirs
    <2>2. Leaked(T, <<>>, 1) = {}
        BY DEF Leaked
    <2>3. LeakedAll(T, <<>>) = 0
        <3>1. Len(<<>>) + 1 = 1
            OBVIOUS
        <3> QED
            BY <2>2, <3>1, FS_EmptySet DEF LeakedAll
    <2>4. stack[Len(stack)].path = <<>>
        BY <1>6, <1>7
    <2>5. Cardinality(Dirs(T, <<>>)) = 0
        BY <2>1, FS_EmptySet
    <2>6. 0 = 0 + 0
        OBVIOUS
    <2> QED
        BY <2>3, <2>4, <2>5, <2>6 DEF Levelled
<1>16. RoomLeft(stack, grown, fit)
    <2>1. \A n \in 1..Len(stack) : n = 1
        BY <1>7
    <2> QED
        BY <1>1, <1>6, <1>7, <2>1 DEF RoomLeft
<1>17. Typed(T, 0, 1, 0, 0, <<>>, grown, fit, stack)
    <2>1. <<>> \in LineSeqs(T)
        BY DEF LineSeqs
    <2> QED
        BY <1>1, <1>7, <2>1 DEF Typed
<1>18. Good(T, 0, 1, 0, 0, <<>>, grown, fit, stack)
    BY <1>9, <1>12, <1>13, <1>14, <1>15, <1>16, <1>17 DEF Good, none
<1> QED
    BY <1>4, <1>18, GoodSt

\* A walk that is given anything else is over at once, having counted that.
AtOnce(T, st) ==
    /\ T.kind[0] # "dir" /\ st.stack = <<>> /\ st.lines = <<>> /\ st.max_depth = 0 /\ st.fits = TRUE
    /\ st.file = IF T.kind[0] = "file" THEN 1 ELSE 0
    /\ st.dir = IF T.kind[0] = "locked" THEN 1 ELSE 0

LEMMA StartIs ==
    ASSUME NEW T, IsTree(T)
    PROVE  /\ Kind(T, <<>>) = T.kind[0]
           /\ Exists(T, <<>>) <=> T.kind[0] \in {"file", "dir", "locked"}
           /\ IsDir(T, <<>>) <=> T.kind[0] \in {"dir", "locked"}
           /\ Fails(T, <<>>) <=> T.kind[0] \notin {"file", "dir"}
<1>1. Kind(T, <<>>) = T.kind[0]
    BY TreeIs DEF Here, Real, Kind
<1>2. Links(T, <<>>) = 0
    <2>1. {n \in DOMAIN <<>> : T.kind[<<>>[n]] = "link"} = {}
        OBVIOUS
    <2> QED
        BY <2>1, FS_EmptySet DEF Links
<1> QED
    BY <1>1, <1>2, FileTreeAssumption DEF Exists, IsDir, Fails

LEMMA StartElse ==
    ASSUME NEW T, IsTree(T), T.kind[0] # "dir", NEW length \in Nat \ {0}, NEW slash \in BOOLEAN
    PROVE  AtOnce(T, Walk(T, length, slash))
<1> DEFINE end == IF slash THEN length ELSE length + 1
           size == length + 1
           grown == GrownTo(length, size)
           fit == Fit(TRUE, end, grown)
           zero == 0  one == zero + 1  yes == TRUE  q == <<>>
           walk == Walk(T, length, slash)
<1>1. fit
    BY FileTreeAssumption DEF GrownTo, Fit
<1>2. walk = ShowTree(T, q, length, end, St(zero, zero, zero, zero, q, size, yes, q))
    BY DEF Walk, NewWalk, St
<1>3. one = 1
    OBVIOUS
<1> HIDE DEF end, size, grown, zero, one, yes, q, walk
<1>4. walk = IF ~Exists(T, q) THEN St(zero, zero, zero, zero, q, size, yes, q)
             ELSE IF ~IsDir(T, q) THEN St(one, zero, zero, zero, q, size, yes, q)
             ELSE IF Kind(T, q) = "locked" THEN St(zero, one, zero, zero, q, grown, fit, q)
             ELSE St(zero, one, zero, zero, q, grown, fit, Push(T, q, q, end))
    <2>1. ShowTree(T, q, length, end, St(zero, zero, zero, zero, q, size, yes, q)) =
             IF ~Exists(T, q) THEN St(zero, zero, zero, zero, q, size, yes, IF q = <<>> THEN q ELSE TopLeft(q, {}))
             ELSE IF ~IsDir(T, q) THEN St(zero + 1, zero, zero, zero, q, size, yes, q)
             ELSE IF Kind(T, q) = "locked"
             THEN St(zero, zero + 1, zero, zero, q, GrownTo(length, size), Fit(yes, end, GrownTo(length, size)),
                     IF q = <<>> THEN q ELSE TopLeft(q, {}))
             ELSE St(zero, zero + 1, zero, zero, q, GrownTo(length, size), Fit(yes, end, GrownTo(length, size)),
                     Push(T, q, q, end))
        BY StShown
    <2>2. q = <<>> /\ one = zero + 1 /\ grown = GrownTo(length, size) /\ fit = Fit(yes, end, grown)
        BY DEF q, one, grown, yes
    <2> HIDE DEF fit
    <2> QED
        BY <1>2, <2>1, <2>2
<1>5. /\ Exists(T, q) <=> T.kind[0] \in {"file", "dir", "locked"}
      /\ IsDir(T, q) <=> T.kind[0] \in {"dir", "locked"}
      /\ Kind(T, q) = T.kind[0]
    BY StartIs DEF q
<1> HIDE DEF fit
<1>6. CASE T.kind[0] = "locked"
    <2>1. walk = St(zero, one, zero, zero, q, grown, fit, q)
        BY <1>4, <1>5, <1>6
    <2> QED
        BY <1>1, <1>3, <1>6, <2>1 DEF AtOnce, St, zero, q, walk
<1>7. CASE T.kind[0] = "file"
    <2>1. walk = St(one, zero, zero, zero, q, size, yes, q)
        BY <1>4, <1>5, <1>7
    <2> QED
        BY <1>3, <1>7, <2>1 DEF AtOnce, St, zero, q, yes, walk
<1>8. CASE T.kind[0] \notin {"file", "locked"}
    <2>1. walk = St(zero, zero, zero, zero, q, size, yes, q)
        BY <1>4, <1>5, <1>8
    <2> QED
        BY <1>8, <2>1 DEF AtOnce, St, zero, q, yes, walk
<1> QED
    BY <1>6, <1>7, <1>8

\* A walk without its buffer is over.
WalkInv == command = "filetree" =>
    /\ IsTree(input.T)
    /\ \/ work.size = 0 /\ work.stack = <<>>
       \/ input.T.kind[0] = "dir" /\ WalkOk(input.T, work)
       \/ AtOnce(input.T, work)

LEMMA WalkInit == WalkBegins => WalkInv
<1> SUFFICES ASSUME NEW T \in Trees, NEW length \in Lengths, NEW slash \in BOOLEAN,
                    NEW first \in {Walk(T, length, slash)}
                                  \cup NoMemory(NewWalk(length + 1), Walk(T, length, slash)),
                    Begins("filetree", [T |-> T, len |-> length], first)
             PROVE  WalkInv
    BY DEF WalkBegins
<1>1. IsTree(T) /\ length \in Nat \ {0}
    BY SmallAssumption
<1>2. input.T = T /\ work = first
    BY DEF Begins
<1>3. CASE first = Walk(T, length, slash)
    <2>1. CASE T.kind[0] = "dir"
        BY <1>1, <1>2, <1>3, <2>1, StartOk DEF WalkInv
    <2>2. CASE T.kind[0] # "dir"
        BY <1>1, <1>2, <1>3, <2>2, StartElse DEF WalkInv
    <2> QED
        BY <2>1, <2>2
<1>4. CASE first \in NoMemory(NewWalk(length + 1), Walk(T, length, slash))
    <2>1. first.size = 0 /\ first.stack = <<>>
        BY <1>4 DEF NoMemory, NewWalk
    <2> QED
        BY <1>1, <1>2, <2>1 DEF WalkInv
<1> QED
    BY <1>3, <1>4

LEMMA WalkNextInv == WalkInv /\ WalkGoesOn => WalkInv'
<1> SUFFICES ASSUME WalkInv, WalkGoesOn PROVE WalkInv'
    OBVIOUS
<1> DEFINE T == input.T
<1>1. /\ command = "filetree" /\ work.stack # <<>> /\ command' = command /\ input' = input
      /\ \/ Top(work).left # {} /\ work' = NextEntry(T, work)
         \/ Top(work).left = {} /\ work' = Returned(T, work)
         \/ work' \in NoMemory(work, NextEntry(T, work))
    BY DEF WalkGoesOn, WalkTurn, WalkReturns, WalkCrashes, InLoop, Does
<1>2. IsTree(T) /\ T.kind[0] = "dir" /\ WalkOk(T, work) /\ T.num \in Nat
    BY <1>1, TreeIs DEF WalkInv, AtOnce
<1>3. WalkOk(T, work') \/ work' \in NoMemory(work, NextEntry(T, work))
    BY <1>1, <1>2, TurnOk, ReturnOk
<1>4. work' \in NoMemory(work, NextEntry(T, work)) => work'.size = 0 /\ work'.stack = <<>>
    BY <1>2 DEF NoMemory, WalkOk, WalkWorks
<1> QED
    BY <1>1, <1>2, <1>3, <1>4 DEF WalkInv

\* The start counts with what is shown: a directory here.
LEMMA CountedAll ==
    ASSUME NEW T, IsTree(T), T.kind[0] = "dir", NEW paths, <<>> \notin paths, NEW fi, NEW dir, NEW n,
           Counted(T, paths, fi, dir, n)
    PROVE  LET all == {<<>>} \cup paths
           IN  /\ fi = Cardinality({p \in all : Exists(T, p) /\ ~IsDir(T, p)})
               /\ dir = Cardinality({p \in all : Exists(T, p) /\ IsDir(T, p)})
<1> DEFINE all == {<<>>} \cup paths
           D == {p \in paths : Exists(T, p) /\ IsDir(T, p)}
<1>1. Exists(T, <<>>) /\ IsDir(T, <<>>)
    BY StartIs
<1>2. {p \in all : Exists(T, p) /\ ~IsDir(T, p)} = {p \in paths : Exists(T, p) /\ ~IsDir(T, p)}
    BY <1>1
<1>3. {p \in all : Exists(T, p) /\ IsDir(T, p)} = D \cup {<<>>}
    BY <1>1
<1>4. IsFiniteSet(D) /\ <<>> \notin D
    <2>1. IsFiniteSet(paths) /\ D \in SUBSET paths
        BY DEF Counted
    <2> QED
        BY <2>1, FS_Subset
<1> HIDE DEF D
<1>5. Cardinality(D \cup {<<>>}) = Cardinality(D) + 1 /\ Cardinality(D) \in Nat
    BY <1>4, FS_AddElement, FS_CardinalityType
<1>6. dir = 1 + Cardinality(D)
    BY DEF Counted, D
<1>7. dir = Cardinality(D \cup {<<>>})
    BY <1>5, <1>6
<1> QED
    BY <1>2, <1>3, <1>7 DEF Counted

LEMMA AtOnceShows ==
    ASSUME NEW T, IsTree(T), NEW st, AtOnce(T, st)
    PROVE  LET paths == Paths(st.lines)
               all == {<<>>} \cup paths
           IN  /\ paths = UNION {{Append(p, k) : k \in Shown(T, p)} : p \in all}
               /\ Len(st.lines) = Cardinality(paths)
               /\ st.file = Cardinality({p \in all : Exists(T, p) /\ ~IsDir(T, p)})
               /\ st.dir = Cardinality({p \in all : Exists(T, p) /\ IsDir(T, p)})
               /\ DOMAIN st.lines = {}
               /\ st.max_depth = Max({0} \cup {Depth(T, st.lines[n]) : n \in DOMAIN st.lines})
<1> DEFINE paths == Paths(st.lines)
           all == {<<>>} \cup paths
           F == {p \in {<<>>} : Exists(T, p) /\ ~IsDir(T, p)}
           D == {p \in {<<>>} : Exists(T, p) /\ IsDir(T, p)}
           depths == {Depth(T, st.lines[n]) : n \in DOMAIN st.lines}
<1>1. st.lines = <<>> /\ st.max_depth = 0 /\ T.kind[0] # "dir"
    BY DEF AtOnce
<1>2. DOMAIN st.lines = {} /\ Len(st.lines) = 0
    BY <1>1
<1>3. paths = {} /\ all = {<<>>} /\ depths = {}
    BY <1>2 DEF Paths
<1>4. Shown(T, <<>>) = {}
    BY <1>1, StartIs DEF Shown
<1>5. UNION {{Append(p, k) : k \in Shown(T, p)} : p \in {<<>>}} = {}
    BY <1>4
<1>6. F = (IF T.kind[0] = "file" THEN {<<>>} ELSE {}) /\ D = (IF T.kind[0] = "locked" THEN {<<>>} ELSE {})
    BY <1>1, StartIs
<1>7. Cardinality({}) = 0 /\ Cardinality({<<>>}) = 1
    BY FS_EmptySet, FS_Singleton
<1> HIDE DEF F, D, depths
<1>8. st.file = Cardinality(F) /\ st.dir = Cardinality(D)
    BY <1>6, <1>7 DEF AtOnce
<1>9. Max({0} \cup depths) = 0
    BY <1>3 DEF Max
<1>10. Len(st.lines) = Cardinality(paths)
    BY <1>2, <1>3, <1>7
<1> HIDE DEF paths, all
<1>11. /\ paths = UNION {{Append(p, k) : k \in Shown(T, p)} : p \in all}
       /\ st.file = Cardinality({p \in all : Exists(T, p) /\ ~IsDir(T, p)})
       /\ st.dir = Cardinality({p \in all : Exists(T, p) /\ IsDir(T, p)})
    BY <1>3, <1>5, <1>8 DEF F, D
<1> QED
    BY <1>1, <1>2, <1>9, <1>10, <1>11, Zenon DEF depths, paths, all

\* When the call for the start has returned, no directory is open.
LEMMA WalkShows == WalkInv => WalkComplete
<1> SUFFICES ASSUME WalkInv, command = "filetree", work.stack = <<>>, work.size # 0 PROVE WalkComplete
    BY DEF WalkComplete
<1>a. CASE AtOnce(input.T, work)
    <2>1. IsTree(input.T) /\ work.fits
        BY <1>a DEF WalkInv, AtOnce
    <2> QED
        <3> DEFINE T == input.T  st == work
        <3>1. IsTree(T) /\ AtOnce(T, st)
            BY <1>a, <2>1
        <3> HIDE DEF T, st
        <3>2. LET paths == Paths(st.lines)
                  all == {<<>>} \cup paths
              IN  /\ paths = UNION {{Append(p, k) : k \in Shown(T, p)} : p \in all}
                  /\ Len(st.lines) = Cardinality(paths)
                  /\ st.file = Cardinality({p \in all : Exists(T, p) /\ ~IsDir(T, p)})
                  /\ st.dir = Cardinality({p \in all : Exists(T, p) /\ IsDir(T, p)})
                  /\ DOMAIN st.lines = {}
                  /\ st.max_depth = Max({0} \cup {Depth(T, st.lines[n]) : n \in DOMAIN st.lines})
            BY <3>1, AtOnceShows
        <3>3. \A n \in DOMAIN st.lines :
                  st.lines[n][2] = Above(T, st.lines[n][1]) + Cardinality(Leaked(T, st.lines, n))
            BY <3>2
        <3> QED
            BY <2>1, <3>2, <3>3, Zenon DEF WalkComplete, T, st
<1>b. SUFFICES ASSUME input.T.kind[0] = "dir", WalkOk(input.T, work), IsTree(input.T) PROVE WalkComplete
    BY <1>a DEF WalkInv
<1> DEFINE T == input.T
           lines == work.lines
           paths == Paths(lines)
           depths == {0} \cup {Depth(T, lines[n]) : n \in DOMAIN lines}
<1>1. Good(T, work.file, work.dir, work.max_depth, work.cur_depth, lines, work.size, work.fits, <<>>)
    BY <1>b DEF WalkOk
<1>2. /\ Visited(T, paths, OpenPaths(<<>>)) /\ Counted(T, paths, work.file, work.dir, Len(lines))
      /\ Indented(T, lines, work.max_depth) /\ work.fits /\ lines \in LineSeqs(T)
    BY <1>1 DEF Good, Typed, RoomLeft
<1>3. /\ paths \subseteq Steps(T) \ {<<>>} /\ \A p \in paths : Front(p) \in {<<>>} \cup paths
      /\ \A p \in {<<>>} \cup paths : Children(T, paths, p) = Shown(T, p)
    <2>1. OpenPaths(<<>>) = {}
        BY DEF OpenPaths
    <2> QED
        BY <1>2, <2>1 DEF Visited
<1>4. paths = UNION {{Append(p, k) : k \in Shown(T, p)} : p \in {<<>>} \cup paths}
    <2> HIDE DEF paths
    <2>1. \A q \in paths : \E p \in {<<>>} \cup paths : \E k \in Shown(T, p) : q = Append(p, k)
        <3> SUFFICES ASSUME NEW q \in paths PROVE \E p \in {<<>>} \cup paths : \E k \in Shown(T, p) : q = Append(p, k)
            OBVIOUS
        <3>1. Last(q) \in 1..T.num /\ q = Append(Front(q), Last(q)) /\ Front(q) \in {<<>>} \cup paths
            BY <1>3, PathParts
        <3>2. Last(q) \in Children(T, paths, Front(q))
            BY <3>1 DEF Children
        <3> QED
            BY <1>3, <3>1, <3>2
    <2>2. \A p \in {<<>>} \cup paths : \A k \in Shown(T, p) : Append(p, k) \in paths
        <3>1. \A p \in {<<>>} \cup paths : \A k \in Children(T, paths, p) : Append(p, k) \in paths
            BY DEF Children
        <3> QED
            BY <1>3, <3>1
    <2> DEFINE all == {<<>>} \cup paths
    <2>3. \A q : q \in UNION {{Append(p, k) : k \in Shown(T, p)} : p \in all}
                    <=> \E p \in all : \E k \in Shown(T, p) : q = Append(p, k)
        <3> HIDE DEF all
        <3> QED
            OBVIOUS
    <2> DEFINE shown == UNION {{Append(p, k) : k \in Shown(T, p)} : p \in all}
    <2>4. \A q : q \in shown <=> q \in paths
        <3> HIDE DEF shown
        <3>1. \A q : q \in shown <=> \E p \in all : \E k \in Shown(T, p) : q = Append(p, k)
            BY <2>3 DEF shown
        <3> HIDE DEF all, paths
        <3>2. \A q \in paths : q \in shown
            BY <2>1, <3>1 DEF all
        <3>3. \A q \in shown : q \in paths
            <4> SUFFICES ASSUME NEW q \in shown PROVE q \in paths
                OBVIOUS
            <4>1. PICK p \in all : \E k \in Shown(T, p) : q = Append(p, k)
                BY <3>1
            <4>2. PICK k \in Shown(T, p) : q = Append(p, k)
                BY <4>1
            <4> QED
                BY <2>2, <4>2 DEF all
        <3> QED
            BY <3>2, <3>3
    <2> HIDE DEF shown
    <2>5. paths = shown
        BY <2>4
    <2> QED
        BY <2>5 DEF shown
<1>5. work.max_depth = Max(depths)
    <2>1. work.max_depth \in depths /\ \A d \in depths : d <= work.max_depth
        BY <1>2 DEF Indented
    <2>2. depths \subseteq Int
        <3> SUFFICES ASSUME NEW n \in DOMAIN lines PROVE Depth(T, lines[n]) \in Int
            OBVIOUS
        <3>1. lines[n] \in Steps(T) \X Int
            BY <1>2, LenProperties, ElementOfSeq DEF LineSeqs
        <3> QED
            BY <3>1 DEF Depth
    <2> HIDE DEF depths
    <2> DEFINE m == Max(depths)
    <2>3. m \in depths /\ \A d \in depths : m >= d
        <3>1. \A d \in depths : work.max_depth >= d
            BY <2>1, <2>2
        <3> QED
            BY <2>1, <3>1 DEF Max
    <2> HIDE DEF m
    <2>4. m = work.max_depth
        <3> DEFINE d == work.max_depth
        <3>1. m \in Int /\ d \in Int /\ m <= d /\ d <= m
            BY <2>1, <2>2, <2>3
        <3> HIDE DEF d
        <3>2. m = d
            BY <3>1
        <3> QED
            BY <3>2 DEF d
    <2> QED
        BY <2>4 DEF m
<1>6. /\ work.file = Cardinality({p \in {<<>>} \cup paths : Exists(T, p) /\ ~IsDir(T, p)})
      /\ work.dir = Cardinality({p \in {<<>>} \cup paths : Exists(T, p) /\ IsDir(T, p)})
    BY <1>2, <1>3, <1>b, CountedAll
<1> QED
    BY <1>2, <1>4, <1>5, <1>6 DEF WalkComplete, Counted, Indented

LEMMA WalkOthers == WalkInv /\ (OptionsGoOn \/ ListGoesOn \/ CopyGoesOn \/ Dup2GoesOn) => WalkInv'
BY DEF WalkInv, OptionsGoOn, OptionTurn, OptionsEnd, CopyGoesOn,
       ListGoesOn, ListTurn, ListEnds, Dup2GoesOn, DupTurn, CloseTurn, Dup2Returns, Runs, Does

\* Whatever the file system and whatever its links lead back to, filetree has shown,
\* when it ends, every entry it can reach once, counted each as what it is, indented it
\* by its depth and by what leaked before, and written nothing past its buffer.
THEOREM WalkCorrect == SmallSpec => []WalkComplete
<1>1. SmallInit => WalkInv
    BY WalkInit DEF SmallInit, OptionsBegin, CopyBegins, ListBegins, Dup2Begins, Begins, WalkInv
<1>2. WalkInv /\ [SmallNext]_smallVars => WalkInv'
    <2>1. WalkInv /\ UNCHANGED smallVars => WalkInv'
        BY DEF smallVars, WalkInv
    <2> QED
        BY <2>1, WalkNextInv, WalkOthers DEF SmallNext
<1>3. WalkInv => WalkComplete
    BY WalkShows
<1> QED
    BY <1>1, <1>2, <1>3, PTL DEF SmallSpec

-----------------------------------------------------------------------------
(***************************************************************************)
(* option_new, for any list of arguments.                                  *)
(***************************************************************************)
Args == Seq([dash : BOOLEAN, id : Nat \ {NULL}]) \ {<<>>}
Entry == [opt : Int, val : Int]

\* How many entries the first k arguments make.
LEMMA RankSteps ==
    ASSUME NEW args \in Args
    PROVE  /\ \A k \in 0..Len(args) : Rank(args, k) \in 0..k
           /\ \A k \in 1..Len(args) :
                 Rank(args, k) = Rank(args, k - 1) + IF k \in Heads(args) THEN 1 ELSE 0
           /\ \A j, k \in 0..Len(args) : j <= k => Rank(args, j) <= Rank(args, k)
           /\ Rank(args, 0) = 0 /\ Rank(args, Len(args)) = Cardinality(Heads(args))
<1> DEFINE Upto(k) == {j \in Heads(args) : j <= k}
<1>1. Len(args) \in Nat /\ DOMAIN args = 1..Len(args) /\ Heads(args) \subseteq 1..Len(args)
    BY DEF Args, Heads
<1>2. \A k \in 0..Len(args) : IsFiniteSet(Upto(k)) /\ Cardinality(Upto(k)) \in 0..k
    <2> SUFFICES ASSUME NEW k \in 0..Len(args) PROVE IsFiniteSet(Upto(k)) /\ Cardinality(Upto(k)) \in 0..k
        OBVIOUS
    <2>1. IsFiniteSet(1..k) /\ Cardinality(1..k) = k
        <3>1. 1 \in Int /\ k \in Int /\ (IF 1 > k THEN 0 ELSE k - 1 + 1) = k
            BY <1>1
        <3> QED
            BY <3>1, FS_Interval
    <2>2. Upto(k) \subseteq 1..k
        BY <1>1
    <2> HIDE DEF Upto
    <2>3. IsFiniteSet(Upto(k)) /\ Cardinality(Upto(k)) <= Cardinality(1..k)
        BY <2>1, <2>2, FS_Subset
    <2>4. Cardinality(Upto(k)) \in Nat
        BY <2>3, FS_CardinalityType
    <2> QED
        BY <2>1, <2>3, <2>4
<1>3. ASSUME NEW k \in 1..Len(args)
      PROVE  Cardinality(Upto(k)) = Cardinality(Upto(k - 1)) + IF k \in Heads(args) THEN 1 ELSE 0
    <2>1. k - 1 \in 0..Len(args) /\ k \notin Upto(k - 1)
        BY <1>1
    <2>2. IsFiniteSet(Upto(k - 1)) /\ Cardinality(Upto(k - 1)) \in Nat
        BY <1>2, <2>1
    <2>3. CASE k \in Heads(args)
        <3>1. Upto(k) = Upto(k - 1) \cup {k}
            BY <1>1, <2>3
        <3> HIDE DEF Upto
        <3>2. Cardinality(Upto(k - 1) \cup {k}) = Cardinality(Upto(k - 1)) + 1
            BY <2>1, <2>2, FS_AddElement
        <3> QED
            BY <2>3, <3>1, <3>2
    <2>4. CASE k \notin Heads(args)
        <3>1. Upto(k) = Upto(k - 1)
            BY <1>1, <2>4
        <3> HIDE DEF Upto
        <3> QED
            BY <2>2, <2>4, <3>1
    <2> QED
        BY <2>3, <2>4
<1>4. ASSUME NEW j \in 0..Len(args), NEW k \in 0..Len(args), j <= k
      PROVE  Cardinality(Upto(j)) <= Cardinality(Upto(k))
    <2>1. Upto(j) \subseteq Upto(k)
        BY <1>1, <1>4
    <2>2. IsFiniteSet(Upto(k))
        BY <1>2
    <2> HIDE DEF Upto
    <2> QED
        BY <2>1, <2>2, FS_Subset
<1>5. Upto(Len(args)) = Heads(args)
    BY <1>1
<1>6. Cardinality(Upto(0)) = 0
    BY <1>1, <1>2
<1>7. \A k : Rank(args, k) = Cardinality(Upto(k))
    BY DEF Rank
<1> HIDE DEF Upto
<1> QED
    BY <1>2, <1>3, <1>4, <1>5, <1>6, <1>7

\* How many entries are made, and what the first j - 1 arguments made of the table.
Used(s) == IF s.next THEN s.i ELSE s.i + 1

OptsWorks(args) ==
    [i : Nat, j : Nat, next : BOOLEAN, end : {"running", "done"}, opts : [1..(Len(args) + 1) -> Entry]]

OptsInv ==
    command = "options" =>
    LET args == input.args  s == work
    IN  /\ input \in [args : Args, fresh : {NULL, -1}]
        /\ s \in OptsWorks(args)
        /\ s.end = "running" =>
              /\ s.j \in 1..(Len(args) + 1)
              /\ Used(s) = Rank(args, s.j - 1)
              /\ ~s.next <=> s.j > 1 /\ args[s.j - 1].dash
              /\ \A k \in Heads(args) : k < s.j =>
                    s.opts[Rank(args, k)] =
                       IF k = s.j - 1 /\ args[k].dash THEN [opt |-> args[k].id, val |-> NULL]
                       ELSE Pair(args, k)
              /\ \A e \in 1..Used(s) : ~Empty(s.opts[e])
              /\ \A e \in (Used(s) + 1)..(Len(args) + 1) : s.opts[e] = [opt |-> input.fresh, val |-> input.fresh]
        /\ OptionsKept

LEMMA OptsInit == OptionsBegin => OptsInv
<1> SUFFICES ASSUME NEW args \in ArgLists, NEW fresh \in {NULL, -1},
                    Begins("options", [args |-> args, fresh |-> fresh], Raw(args, fresh))
             PROVE  OptsInv
    BY DEF OptionsBegin
<1>1. args \in Args /\ Len(args) \in Nat \ {0} /\ fresh \in Int
    BY SmallAssumption DEF Args, NULL
<1>2. /\ command = "options" /\ input.args = args /\ input.fresh = fresh
      /\ input \in [args : Args, fresh : {NULL, -1}] /\ work = Raw(args, fresh)
    BY <1>1 DEF Begins
<1>3. work \in OptsWorks(args) /\ work.end = "running" /\ work.i = 0 /\ work.j = 1 /\ work.next = TRUE
      /\ work.opts = [k \in 1..(Len(args) + 1) |-> [opt |-> fresh, val |-> fresh]]
    BY <1>1, <1>2 DEF Raw, OptsWorks, Entry
<1>4. Rank(args, 0) = 0
    BY <1>1, RankSteps
<1>5. Heads(args) \subseteq 1..Len(args)
    BY <1>1 DEF Args, Heads
<1> QED
    BY <1>1, <1>2, <1>3, <1>4, <1>5 DEF OptsInv, OptionsKept, Used

LEMMA OptionTurnInv == OptsInv /\ OptionTurn => OptsInv'
<1> SUFFICES ASSUME OptsInv, OptionTurn PROVE OptsInv'
    OBVIOUS
<1> DEFINE args == input.args  arg == args[work.j]  n == Len(args)
<1>1. /\ command = "options" /\ work.end = "running" /\ work.j <= n
      /\ work' = Turn(work, args) /\ command' = command /\ input' = input
    BY DEF OptionTurn, Runs, Does, More
<1>2. /\ input \in [args : Args, fresh : {NULL, -1}] /\ args \in Args /\ work \in OptsWorks(args)
      /\ n \in Nat \ {0} /\ work.j \in 1..n /\ DOMAIN args = 1..n
      /\ \A k \in 1..n : args[k] \in [dash : BOOLEAN, id : Nat \ {NULL}]
      /\ Heads(args) \subseteq 1..n
    <2>1. input \in [args : Args, fresh : {NULL, -1}] /\ work \in OptsWorks(args) /\ work.j \in 1..(n + 1)
        BY <1>1 DEF OptsInv
    <2>2. args \in Seq([dash : BOOLEAN, id : Nat \ {NULL}]) /\ args # <<>>
        BY <2>1 DEF Args
    <2>3. n \in Nat \ {0} /\ DOMAIN args = 1..n /\ \A k \in 1..n : args[k] \in [dash : BOOLEAN, id : Nat \ {NULL}]
        BY <2>2, EmptySeq, LenProperties, ElementOfSeq
    <2> QED
        BY <1>1, <2>1, <2>3 DEF Heads
<1>3. /\ Used(work) = Rank(args, work.j - 1)
      /\ ~work.next <=> work.j > 1 /\ args[work.j - 1].dash
      /\ \A k \in Heads(args) : k < work.j =>
            work.opts[Rank(args, k)] =
               IF k = work.j - 1 /\ args[k].dash THEN [opt |-> args[k].id, val |-> NULL]
               ELSE Pair(args, k)
      /\ \A e \in 1..Used(work) : ~Empty(work.opts[e])
      /\ \A e \in (Used(work) + 1)..(n + 1) : work.opts[e] = [opt |-> input.fresh, val |-> input.fresh]
    BY <1>1 DEF OptsInv
<1>4. /\ Used(work) \in 0..(work.j - 1)
      /\ \A k \in 1..n : Rank(args, k) = Rank(args, k - 1) + IF k \in Heads(args) THEN 1 ELSE 0
      /\ \A k \in 0..n : Rank(args, k) \in 0..k
      /\ \A k \in 0..n : k <= work.j - 1 => Rank(args, k) <= Used(work)
      /\ \A k \in 0..n : k <= work.j - 2 => Rank(args, k) <= Rank(args, work.j - 2)
    <2>1. work.j - 1 \in 0..n /\ (work.j > 1 => work.j - 2 \in 0..n)
        BY <1>2
    <2>2. /\ \A k \in 0..n : Rank(args, k) \in 0..k
          /\ \A k \in 1..n : Rank(args, k) = Rank(args, k - 1) + IF k \in Heads(args) THEN 1 ELSE 0
          /\ \A j, k \in 0..n : j <= k => Rank(args, j) <= Rank(args, k)
        BY <1>2, RankSteps
    <2> QED
        BY <1>2, <1>3, <2>1, <2>2
<1>5. work.j \in Heads(args) <=> arg.dash \/ work.next
    BY <1>2, <1>3 DEF Heads
<1> DEFINE slot == IF arg.dash \/ work.next THEN Used(work) + 1 ELSE Used(work)
           entry == IF arg.dash THEN [opt |-> arg.id, val |-> NULL]
                    ELSE IF work.next THEN [opt |-> NULL, val |-> arg.id]
                    ELSE [opt |-> args[work.j - 1].id, val |-> arg.id]
<1>6. /\ slot \in 1..(n + 1) /\ slot = Rank(args, work.j) /\ entry \in Entry /\ ~Empty(entry)
    <2>1. arg \in [dash : BOOLEAN, id : Nat \ {NULL}] /\ (~work.next => work.j - 1 \in 1..n)
        BY <1>2, <1>3
    <2>2. entry \in Entry /\ ~Empty(entry)
        BY <1>2, <2>1 DEF Entry, Empty, NULL
    <2>3. ~work.next => Used(work) >= 1
        BY <1>2 DEF Used, OptsWorks
    <2> QED
        BY <1>2, <1>3, <1>4, <1>5, <2>2, <2>3
<1>7. PICK idx \in Nat :
         /\ work' = [work EXCEPT !.j = work.j + 1, !.i = idx, !.next = (~arg.dash), !.opts = [work.opts EXCEPT ![slot] = entry]]
         /\ slot = IF arg.dash THEN idx + 1 ELSE idx
    <2>1. CASE arg.dash
        <3>1. Started(work) = Used(work) /\ Used(work) \in Nat
            BY <1>2 DEF Started, Used, OptsWorks
        <3>2. work' = [work EXCEPT !.j = work.j + 1, !.i = Used(work), !.next = FALSE,
                       !.opts = [work.opts EXCEPT ![slot] = entry]]
            BY <1>1, <1>2, <2>1, <3>1 DEF Turn, OptsWorks
        <3>3. FALSE = (~arg.dash) /\ slot = Used(work) + 1
            BY <2>1
        <3> HIDE DEF slot, entry
        <3> QED
            BY <2>1, <3>1, <3>2, <3>3
    <2>2. CASE ~arg.dash
        <3>1. work.i + 1 = slot /\ work.i \in Nat
            BY <1>2, <2>2 DEF Used, OptsWorks
        <3>2. ~work.next => work.opts[slot].opt = args[work.j - 1].id
            <4>1. ASSUME ~work.next PROVE work.j - 1 \in Heads(args) /\ Rank(args, work.j - 1) = slot /\ args[work.j - 1].dash
                                          /\ work.j - 1 < work.j
                BY <1>2, <1>3, <2>2, <4>1 DEF Heads
            <4>2. ASSUME ~work.next PROVE work.opts[slot] = [opt |-> args[work.j - 1].id, val |-> NULL]
                <5> HIDE DEF slot
                <5> QED
                    BY <1>3, <4>1, <4>2
            <4> HIDE DEF slot
            <4> QED
                BY <4>2
        <3>3. work' = [work EXCEPT !.j = work.j + 1, !.i = slot, !.next = TRUE,
                       !.opts = [work.opts EXCEPT ![slot] = [opt |-> IF work.next THEN NULL ELSE work.opts[slot].opt, val |-> arg.id]]]
            <4> HIDE DEF slot, entry
            <4>1. work' = [work EXCEPT !.j = work.j + 1, !.i = work.i + 1, !.next = TRUE,
                       !.opts = [work.opts EXCEPT ![work.i + 1] =
                           [opt |-> IF work.next THEN NULL ELSE work.opts[work.i + 1].opt, val |-> arg.id]]]
                BY <1>1, <2>2 DEF Turn
            <4> QED
                BY <3>1, <4>1
        <3>4. [opt |-> IF work.next THEN NULL ELSE work.opts[slot].opt, val |-> arg.id] = entry
            <4>1. CASE work.next
                BY <2>2, <4>1
            <4>2. CASE ~work.next
                <5>1. entry = [opt |-> args[work.j - 1].id, val |-> arg.id]
                    BY <2>2, <4>2
                <5> HIDE DEF slot, entry
                <5> QED
                    BY <3>2, <4>2, <5>1
            <4> QED
                BY <4>1, <4>2
        <3>5. TRUE = (~arg.dash)
            BY <2>2
        <3> DEFINE made == [opt |-> IF work.next THEN NULL ELSE work.opts[slot].opt, val |-> arg.id]
        <3>6. made = entry
            BY <3>4
        <3>7. work' = [work EXCEPT !.j = work.j + 1, !.i = slot, !.next = TRUE, !.opts = [work.opts EXCEPT ![slot] = made]]
            BY <3>3
        <3> HIDE DEF slot, entry, made
        <3>8. slot \in Nat /\ slot = IF arg.dash THEN slot + 1 ELSE slot
            BY <1>6, <2>2
        <3> QED
            BY <3>5, <3>6, <3>7, <3>8
    <2> QED
        BY <1>2, <2>1, <2>2
<1> HIDE DEF slot, entry
<1>8. /\ work' \in OptsWorks(args) /\ work'.end = "running" /\ work'.j = work.j + 1 /\ work'.next = (~arg.dash)
      /\ work'.opts = [work.opts EXCEPT ![slot] = entry] /\ Used(work') = slot
    <2>1. (~arg.dash) \in BOOLEAN
        <3>1. arg.dash \in BOOLEAN
            BY <1>2
        <3> QED
            BY <3>1
    <2>2. work.opts \in [1..(n + 1) -> Entry] /\ [work.opts EXCEPT ![slot] = entry] \in [1..(n + 1) -> Entry]
        BY <1>2, <1>6 DEF OptsWorks
    <2> DEFINE dash == (~arg.dash)  opts == [work.opts EXCEPT ![slot] = entry]
    <2>3. /\ dash \in BOOLEAN /\ opts \in [1..(n + 1) -> Entry] /\ slot = IF dash THEN idx ELSE idx + 1
          /\ work' = [work EXCEPT !.j = work.j + 1, !.i = idx, !.next = dash, !.opts = opts]
        BY <1>7, <2>1, <2>2
    <2> HIDE DEF dash, opts
    <2>4. work' \in OptsWorks(args)
        <3>1. work.j + 1 \in Nat /\ idx \in Nat /\ work \in OptsWorks(args)
            BY <1>2, <1>7
        <3> HIDE DEF args
        <3> QED
            BY <2>3, <3>1 DEF OptsWorks
    <2>5. /\ work'.end = "running" /\ work'.j = work.j + 1 /\ work'.next = dash
          /\ work'.opts = opts /\ work'.i = idx
        BY <1>1, <1>2, <2>3 DEF OptsWorks
    <2>6. Used(work') = slot
        BY <2>3, <2>5 DEF Used
    <2> QED
        BY <2>4, <2>5, <2>6 DEF dash, opts
<1>9. /\ work'.opts[slot] = entry
      /\ \A e \in 1..(n + 1) : e # slot => work'.opts[e] = work.opts[e]
    BY <1>2, <1>6, <1>8 DEF OptsWorks
<1>10. ASSUME NEW k \in Heads(args), k < work'.j
       PROVE  work'.opts[Rank(args, k)] =
                IF k = work'.j - 1 /\ args[k].dash THEN [opt |-> args[k].id, val |-> NULL]
                ELSE Pair(args, k)
    <2>1. CASE k = work.j
        BY <1>2, <1>5, <1>6, <1>8, <1>9, <2>1 DEF entry, Pair
    <2>2. CASE k < work.j - 1
        <3>1. Rank(args, k) <= Rank(args, work.j - 2) /\ Rank(args, k) \in 1..(n + 1)
            BY <1>2, <1>4, <2>2
        <3>2. Rank(args, k) # slot
            <4>1. slot = Used(work) + 1 \/ ~work.next
                BY DEF slot
            <4>2. CASE slot = Used(work) + 1
                <5>1. k \in 0..n /\ k <= work.j - 1
                    BY <1>2, <2>2
                <5>2. Rank(args, k) <= Used(work)
                    BY <1>4, <5>1
                <5> QED
                    BY <1>4, <3>1, <4>2, <5>2
            <4>3. CASE ~work.next
                <5>1. work.j - 1 \in Heads(args) /\ work.j - 1 \in 1..n
                    BY <1>2, <1>3, <4>3 DEF Heads
                <5>2. Rank(args, work.j - 1) = Rank(args, work.j - 1 - 1) + 1 /\ work.j - 1 - 1 = work.j - 2
                    BY <1>2, <1>4, <5>1
                <5>3. Used(work) <= slot
                    BY <1>4 DEF slot
                <5>4. work.j - 2 \in 0..n
                    BY <1>2, <5>1
                <5>5. Rank(args, work.j - 2) \in Int
                    BY <1>4, <5>4
                <5> QED
                    BY <1>2, <1>3, <1>4, <1>6, <3>1, <5>2, <5>3, <5>5
            <4> QED
                BY <4>1, <4>2, <4>3
        <3>3. work'.opts[Rank(args, k)] = work.opts[Rank(args, k)]
            BY <1>9, <3>1, <3>2
        <3>4. k # work'.j - 1 /\ k < work.j /\ k # work.j - 1
            BY <1>2, <1>8, <2>2
        <3> QED
            BY <1>3, <3>3, <3>4
    <2>3. CASE k = work.j - 1
        <3>1. Rank(args, k) = Used(work) /\ Rank(args, k) \in 1..(n + 1)
            <4>1. k \in 1..n /\ k \in 0..n /\ k - 1 \in 0..n
                BY <1>2
            <4>2. Rank(args, k) = Rank(args, k - 1) + 1 /\ Rank(args, k - 1) \in 0..(k - 1) /\ Rank(args, k) \in 0..k
                BY <1>4, <4>1
            <4> QED
                BY <1>2, <1>3, <2>3, <4>1, <4>2
        <3>2. CASE work.j \in Heads(args)
            <4>1. work.j \notin Heads(args) <=> ~arg.dash /\ args[k].dash
                BY <1>2, <1>5, <1>3, <2>3, <1>8
            <4>2. slot = Used(work) + 1
                BY <1>5, <3>2 DEF slot
            <4>3. work'.opts[Rank(args, k)] = work.opts[Rank(args, k)]
                BY <1>4, <1>9, <3>1, <4>2
            <4>4. work.opts[Rank(args, k)] = IF args[k].dash THEN [opt |-> args[k].id, val |-> NULL] ELSE Pair(args, k)
                BY <1>2, <1>3, <2>3
            <4>5. args[k].dash => Pair(args, k) = [opt |-> args[k].id, val |-> NULL]
                BY <1>2, <2>3, <3>2, <4>1 DEF Pair
            <4>6. k # work'.j - 1
                BY <1>2, <1>8, <2>3
            <4> QED
                BY <4>3, <4>4, <4>5, <4>6
        <3>3. CASE work.j \notin Heads(args)
            BY <1>2, <1>3, <1>4, <1>5, <1>6, <1>8, <1>9, <2>3, <3>1, <3>3, SMTT(30) DEF Pair, Heads, entry
        <3> QED
            BY <3>2, <3>3
    <2> QED
        BY <1>2, <1>8, <1>10, <2>1, <2>2, <2>3
<1>11. \A e \in 1..Used(work') : ~Empty(work'.opts[e])
    BY <1>2, <1>3, <1>4, <1>6, <1>8, <1>9 DEF slot
<1>12. \A e \in (Used(work') + 1)..(n + 1) : work'.opts[e] = [opt |-> input.fresh, val |-> input.fresh]
    <2> SUFFICES ASSUME NEW e \in (slot + 1)..(n + 1) PROVE work'.opts[e] = [opt |-> input.fresh, val |-> input.fresh]
        BY <1>8
    <2>1. e \in 1..(n + 1) /\ e # slot /\ e \in (Used(work) + 1)..(n + 1)
        BY <1>2, <1>4, <1>6 DEF slot
    <2> QED
        BY <1>3, <1>9, <2>1
<1>13. OptionsKept'
    BY <1>8 DEF OptionsKept
<1> QED
    <2>1. work'.j - 1 = work.j /\ work'.j \in 1..(n + 1) /\ work'.j > 1
        BY <1>2, <1>8
    <2>2. ~work'.next <=> arg.dash
        BY <1>2, <1>8
    <2> QED
        BY <1>1, <1>2, <1>6, <1>7, <1>8, <1>10, <1>11, <1>12, <1>13, <2>1, <2>2 DEF OptsInv

LEMMA OptionsEndInv == OptsInv /\ OptionsEnd => OptsInv'
<1> SUFFICES ASSUME OptsInv, OptionsEnd PROVE OptsInv'
    OBVIOUS
<1> DEFINE args == input.args  n == Len(args)  count == Cardinality(Heads(args))
           opts == work'.opts  given == Iterated(opts)
<1>1. /\ command = "options" /\ work.end = "running" /\ ~(work.i < n /\ work.j <= n)
      /\ work' = Closed(work) /\ command' = command /\ input' = input
    BY DEF OptionsEnd, Runs, Does, More
<1>2. /\ input \in [args : Args, fresh : {NULL, -1}] /\ args \in Args /\ work \in OptsWorks(args)
      /\ n \in Nat \ {0} /\ work.j \in 1..(n + 1) /\ Heads(args) \subseteq 1..n
    <2>1. input \in [args : Args, fresh : {NULL, -1}] /\ work \in OptsWorks(args) /\ work.j \in 1..(n + 1)
        BY <1>1 DEF OptsInv
    <2>2. args \in Seq([dash : BOOLEAN, id : Nat \ {NULL}]) /\ args # <<>>
        BY <2>1 DEF Args
    <2>3. n \in Nat \ {0} /\ DOMAIN args = 1..n
        BY <2>2, EmptySeq, LenProperties
    <2> QED
        BY <1>1, <2>1, <2>3 DEF Heads
<1>3. /\ Used(work) = Rank(args, work.j - 1)
      /\ ~work.next <=> work.j > 1 /\ args[work.j - 1].dash
      /\ \A k \in Heads(args) : k < work.j =>
            work.opts[Rank(args, k)] =
               IF k = work.j - 1 /\ args[k].dash THEN [opt |-> args[k].id, val |-> NULL]
               ELSE Pair(args, k)
      /\ \A e \in 1..Used(work) : ~Empty(work.opts[e])
      /\ \A e \in (Used(work) + 1)..(n + 1) : work.opts[e] = [opt |-> input.fresh, val |-> input.fresh]
    BY <1>1 DEF OptsInv
<1>4. /\ \A k \in 1..n : Rank(args, k) = Rank(args, k - 1) + IF k \in Heads(args) THEN 1 ELSE 0
      /\ \A k \in 0..n : Rank(args, k) \in 0..k
      /\ \A j, k \in 0..n : j <= k => Rank(args, j) <= Rank(args, k)
      /\ count = Rank(args, n)
    BY <1>2, RankSteps
<1>5. work.j = n + 1 /\ Used(work) = count
    <2>1. Rank(args, work.j - 1) \in 0..(work.j - 1)
        BY <1>2, <1>4
    <2>2. work.i <= Used(work)
        BY <1>2 DEF Used, OptsWorks
    <2>3. work.j = n + 1
        BY <1>1, <1>2, <1>3, <2>1, <2>2 DEF OptsWorks
    <2>4. work.j - 1 = n
        BY <1>2, <2>3
    <2> QED
        BY <1>3, <1>4, <2>3, <2>4
<1>6. count \in 0..n
    BY <1>2, <1>4
<1>7. /\ opts = [work.opts EXCEPT ![n + 1] = [opt |-> NULL, val |-> NULL]]
      /\ work' \in OptsWorks(args) /\ work'.end = "done"
    <2>1. Len(work.opts) = n + 1 /\ work.opts \in [1..(n + 1) -> Entry]
        <3>1. work.opts \in [1..(n + 1) -> Entry] /\ n + 1 \in Nat
            BY <1>2 DEF OptsWorks
        <3> QED
            BY <3>1
    <2>2. [work.opts EXCEPT ![n + 1] = [opt |-> NULL, val |-> NULL]] \in [1..(n + 1) -> Entry]
        BY <2>1 DEF Entry, NULL
    <2>3. work' = [work EXCEPT !.opts = [work.opts EXCEPT ![n + 1] = [opt |-> NULL, val |-> NULL]], !.end = "done"]
        BY <1>1, <1>2, <2>1 DEF Closed, OptsWorks
    <2> DEFINE table == [work.opts EXCEPT ![n + 1] = [opt |-> NULL, val |-> NULL]]
    <2>4. table \in [1..(n + 1) -> Entry] /\ work' = [work EXCEPT !.opts = table, !.end = "done"]
        BY <2>2, <2>3
    <2> HIDE DEF table
    <2>5. work' \in OptsWorks(args) /\ work'.end = "done" /\ work'.opts = table
        BY <1>2, <2>4 DEF OptsWorks
    <2> QED
        BY <2>5 DEF table
<1>8. /\ DOMAIN opts = 1..(n + 1) /\ Len(opts) = n + 1 /\ opts \in Seq(Entry)
      /\ Empty(opts[n + 1])
      /\ \A e \in 1..count : opts[e] = work.opts[e] /\ ~Empty(opts[e])
      /\ count + 1 \in 1..(n + 1) /\ (input.fresh = NULL \/ count = n => Empty(opts[count + 1]))
    <2>1. work.opts \in [1..(n + 1) -> Entry] /\ opts \in [1..(n + 1) -> Entry]
        BY <1>2, <1>7 DEF OptsWorks
    <2>2. opts[n + 1] = [opt |-> NULL, val |-> NULL] /\ \A e \in 1..n : opts[e] = work.opts[e]
        BY <1>2, <1>7, <2>1
    <2>3. count < n => work.opts[count + 1] = [opt |-> input.fresh, val |-> input.fresh]
        BY <1>2, <1>3, <1>5, <1>6
    <2>4. DOMAIN opts = 1..(n + 1) /\ Len(opts) = n + 1 /\ opts \in Seq(Entry)
        <3>1. n + 1 \in Nat
            BY <1>2
        <3> QED
            BY <2>1, <3>1, SeqDef
    <2> QED
        BY <1>2, <1>3, <1>5, <1>6, <2>1, <2>2, <2>3, <2>4 DEF Empty
<1> DEFINE First(k) == Empty(opts[k]) /\ \A j \in 1..(k - 1) : ~Empty(opts[j])
<1>9. PICK end \in 1..(n + 1) : First(end) /\ given = SubSeq(opts, 1, end - 1)
    <2> DEFINE T == {k \in 1..(n + 1) : Empty(opts[k])}
    <2>1. T \in SUBSET Nat /\ n + 1 \in T
        BY <1>2, <1>8
    <2>2. PICK x \in T : \A y \in T : x <= y
        BY <2>1, Least
    <2>3. x \in 1..(n + 1) /\ First(x)
        BY <1>2, <2>2
    <2> DEFINE end == CHOOSE k \in 1..Len(opts) : First(k)
    <2>4. end \in 1..(n + 1) /\ First(end)
        BY <1>8, <2>3
    <2>5. given = SubSeq(opts, 1, end - 1)
        BY DEF Iterated
    <2> QED
        BY <2>4, <2>5
<1> HIDE DEF opts
<1>10. count < end /\ (input.fresh = NULL \/ count = n => end = count + 1)
    <2>1. end \in 1..(n + 1) /\ Empty(opts[end]) /\ \A j \in 1..(end - 1) : ~Empty(opts[j])
        BY <1>9
    <2>2. count < end
        BY <1>2, <1>6, <1>8, <2>1
    <2>3. Empty(opts[count + 1]) => end = count + 1
        <3>1. ASSUME Empty(opts[count + 1]), count + 1 < end PROVE FALSE
            <4>1. count + 1 \in 1..(end - 1)
                BY <1>6, <2>1, <3>1
            <4> QED
                BY <2>1, <3>1, <4>1
        <3> QED
            BY <1>6, <2>1, <2>2, <3>1
    <2> QED
        BY <1>8, <2>2, <2>3
<1>11. Len(given) = end - 1 /\ \A e \in 1..(end - 1) : given[e] = opts[e]
    <2>1. end - 1 \in 0..Len(opts) /\ \A e \in 1..(end - 1) : opts[e] \in Entry
        BY <1>2, <1>8, <1>9
    <2>2. /\ Len(SubSeq(opts, 1, end - 1)) = IF 1 <= end - 1 THEN end - 1 - 1 + 1 ELSE 0
          /\ \A e \in 1..(end - 1 - 1 + 1) : SubSeq(opts, 1, end - 1)[e] = opts[1 + e - 1]
        <3> HIDE DEF opts
        <3> QED
            BY <1>2, <1>9, <2>1, SubSeqProperties
    <2>3. \A e \in 1..(end - 1) : e \in 1..(end - 1 - 1 + 1) /\ 1 + e - 1 = e
        BY <1>9
    <2> QED
        BY <1>9, <2>1, <2>2, <2>3
<1> HIDE DEF given, opts, count
<1>12. ASSUME NEW k \in Heads(args) PROVE given[Rank(args, k)] = Pair(args, k)
    <2>1. k \in 1..n /\ k \in 0..n /\ k - 1 \in 0..n /\ n \in 0..n
        BY <1>2
    <2>2. Rank(args, k) \in 1..count
        <3>1. Rank(args, k) = Rank(args, k - 1) + 1 /\ Rank(args, k - 1) \in 0..(k - 1)
            BY <1>4, <2>1
        <3>2. Rank(args, k) <= Rank(args, n) /\ Rank(args, k) \in 0..k
            BY <1>4, <2>1
        <3> QED
            BY <1>4, <1>6, <3>1, <3>2
    <2>3. given[Rank(args, k)] = work.opts[Rank(args, k)]
        BY <1>6, <1>8, <1>9, <1>10, <1>11, <2>2
    <2>4. k < work.j /\ (k = work.j - 1 <=> k = n)
        BY <1>2, <1>5, <2>1
    <2>5. k = n /\ args[k].dash => Pair(args, k) = [opt |-> args[k].id, val |-> NULL]
        BY <2>1 DEF Pair
    <2> QED
        BY <1>3, <2>3, <2>4, <2>5
<1>13. ASSUME NEW index \in 0..(n + 1)
       PROVE  IF index < Len(given) THEN Item(opts, index) = given[index + 1] ELSE Empty(Item(opts, index))
    BY <1>2, <1>9, <1>11 DEF Item, given
<1>14. OptionsKept'
    <2>1. args' = args /\ work'.opts = opts /\ input'.fresh = input.fresh
        BY <1>1 DEF opts
    <2> QED
        <3>1. count <= Len(given) /\ (input.fresh = NULL \/ count = n => Len(given) = count)
            BY <1>6, <1>9, <1>10, <1>11
        <3>2. Len(opts) = n + 1
            BY <1>8
        <3>3. given = Iterated(opts) /\ count = Cardinality(Heads(args))
            BY DEF given, count
        <3> HIDE DEF args
        <3> QED
            BY <1>12, <1>13, <2>1, <3>1, <3>2, <3>3 DEF OptionsKept, args
<1> QED
    BY <1>1, <1>2, <1>7, <1>14 DEF OptsInv

LEMMA OptsOthers == OptsInv /\ (WalkGoesOn \/ ListGoesOn \/ CopyGoesOn \/ Dup2GoesOn) => OptsInv'
BY DEF OptsInv, WalkGoesOn, WalkTurn, WalkReturns, WalkCrashes, InLoop, CopyGoesOn,
       ListGoesOn, ListTurn, ListEnds, Dup2GoesOn, DupTurn, CloseTurn, Dup2Returns, Runs, Does

\* Whatever the arguments, the table of option_new holds every option with its value, in
\* order, and its readers give those back.
THEOREM OptionsCorrect == SmallSpec => []OptionsKept
<1>1. SmallInit => OptsInv
    BY OptsInit DEF SmallInit, WalkBegins, CopyBegins, ListBegins, Dup2Begins, Begins, OptsInv
<1>2. OptsInv /\ [SmallNext]_smallVars => OptsInv'
    <2>1. OptsInv /\ UNCHANGED smallVars => OptsInv'
        BY DEF smallVars, OptsInv, OptionsKept
    <2> QED
        BY <2>1, OptionTurnInv, OptionsEndInv, OptsOthers DEF SmallNext, OptionsGoOn
<1>3. OptsInv => OptionsKept
    BY DEF OptsInv, OptionsKept
<1> QED
    BY <1>1, <1>2, <1>3, PTL DEF SmallSpec

-----------------------------------------------------------------------------
(***************************************************************************)
(* getproc-info, for any directory and any size of its buffer.             *)
(***************************************************************************)
LEMMA FirstOf ==
    ASSUME NEW T \in SUBSET Nat, NEW k \in T, \A y \in T : k <= y
    PROVE  Min(T) = k
<1>1. \A x, y \in T : x <= y /\ y <= x => x = y
    OBVIOUS
<1>2. \E x \in T : \A y \in T : x <= y
    OBVIOUS
<1>3. Min(T) \in T /\ \A y \in T : Min(T) <= y
    BY <1>2 DEF Min
<1> QED
    BY <1>1, <1>3

\* A piece of a sequence, element by element.
LEMMA Piece ==
    ASSUME NEW S, NEW t \in Seq(S), NEW a \in 1..(Len(t) + 1), NEW b \in (a - 1)..Len(t)
    PROVE  /\ SubSeq(t, a, b) \in Seq(S) /\ Len(SubSeq(t, a, b)) = b - a + 1
           /\ \A k \in 1..(b - a + 1) : SubSeq(t, a, b)[k] = t[a + k - 1]
<1>1. Len(t) \in Nat /\ a \in Int /\ b \in Int
    OBVIOUS
<1>2. \A k \in a..b : t[k] \in S
    BY <1>1
<1>3. /\ SubSeq(t, a, b) \in Seq(S)
      /\ Len(SubSeq(t, a, b)) = IF a <= b THEN b - a + 1 ELSE 0
      /\ \A k \in 1..(b - a + 1) : SubSeq(t, a, b)[k] = t[a + k - 1]
    BY <1>1, <1>2, SubSeqProperties
<1> QED
    BY <1>1, <1>3

LEMMA TextIs ==
    ASSUME NEW S, NEW t \in Seq(S), NEW n \in 0..(Len(t) - 1), t[n + 1] = NUL,
           \A k \in 1..n : t[k] # NUL
    PROVE  Text(t) = SubSeq(t, 1, n)
<1> DEFINE I == {k \in 1..Len(t) : t[k] = NUL}
<1>1. n + 1 \in I /\ \A y \in I : n + 1 <= y
    OBVIOUS
<1>2. Min(I) = n + 1
    BY <1>1, FirstOf
<1>3. SelectInSeq(t, LAMBDA c : c = NUL) = n + 1
    BY <1>1, <1>2 DEF SelectInSeq
<1> DEFINE end == SelectInSeq(t, LAMBDA c : c = NUL)
<1>4. Text(t) = IF end = 0 THEN t ELSE SubSeq(t, 1, end - 1)
    BY DEF Text
<1>5. end = n + 1 /\ n + 1 # 0 /\ n + 1 - 1 = n
    BY <1>3
<1> HIDE DEF end
<1> QED
    BY <1>4, <1>5

LEMMA FoundAt ==
    ASSUME NEW S, NEW cells, NEW t \in Seq(S), Text(cells) = t, NEW key, NEW p \in 1..Len(t), t[p] = key,
           \A k \in 1..(p - 1) : t[k] # key
    PROVE  StrStr(cells, key) = SubSeq(t, p, Len(t))
<1> DEFINE I == {k \in 1..Len(t) : t[k] = key}
<1>1. p \in I /\ \A y \in I : p <= y
    OBVIOUS
<1>2. Min(I) = p
    BY <1>1, FirstOf
<1>3. SelectInSeq(t, LAMBDA c : c = key) = p
    BY <1>1, <1>2 DEF SelectInSeq
<1> DEFINE slot == SelectInSeq(Text(cells), LAMBDA c : c = key)
<1>4. StrStr(cells, key) = IF slot = 0 THEN <<>> ELSE SubSeq(Text(cells), slot, Len(Text(cells)))
    BY DEF StrStr
<1>5. slot = p /\ p # 0
    BY <1>3
<1> HIDE DEF slot
<1> QED
    BY <1>4, <1>5

LEMMA SkippedTo ==
    ASSUME NEW S, NEW t \in Seq(S), NEW p \in 1..Len(t), t[p] # "blank",
           \A k \in 1..(p - 1) : t[k] = "blank"
    PROVE  Skipped(t) = SubSeq(t, p, Len(t))
<1> DEFINE I == {k \in 1..Len(t) : t[k] # "blank"}
<1>1. p \in I /\ \A y \in I : p <= y
    OBVIOUS
<1>2. Min(I) = p
    BY <1>1, FirstOf
<1>3. SelectInSeq(t, LAMBDA c : c # "blank") = p
    BY <1>1, <1>2 DEF SelectInSeq
<1> DEFINE slot == SelectInSeq(t, LAMBDA c : c # "blank")
<1>4. Skipped(t) = IF slot = 0 THEN <<>> ELSE SubSeq(t, slot, Len(t))
    BY DEF Skipped
<1>5. slot = p /\ p # 0
    BY <1>3
<1> HIDE DEF slot
<1> QED
    BY <1>4, <1>5

LEMMA LineUpTo ==
    ASSUME NEW S, NEW t \in Seq(S), NEW n \in 0..Len(t), \A k \in 1..n : t[k] # "newline",
           n < Len(t) => t[n + 1] = "newline"
    PROVE  LineOf(t) = SubSeq(t, 1, n)
<1> DEFINE I == {k \in 1..Len(t) : t[k] = "newline"}
           k == SelectInSeq(t, LAMBDA c : c = "newline")
<1>1. CASE n < Len(t)
    <2>1. n + 1 \in I /\ \A y \in I : n + 1 <= y
        BY <1>1
    <2>2. Min(I) = n + 1
        BY <2>1, FirstOf
    <2>3. k = n + 1
        BY <2>1, <2>2 DEF SelectInSeq
    <2>4. LineOf(t) = IF k = 0 THEN t ELSE SubSeq(t, 1, k - 1)
        BY DEF LineOf
    <2>5. n + 1 # 0 /\ n + 1 - 1 = n
        OBVIOUS
    <2> HIDE DEF k
    <2> QED
        BY <2>3, <2>4, <2>5
<1>2. CASE n = Len(t)
    <2>1. I = {}
        BY <1>2
    <2>2. k = 0
        BY <2>1 DEF SelectInSeq
    <2>3. LineOf(t) = IF k = 0 THEN t ELSE SubSeq(t, 1, k - 1)
        BY DEF LineOf
    <2> HIDE DEF k
    <2> QED
        BY <1>2, <2>2, <2>3, SubSeqFull
<1> QED
    BY <1>1, <1>2

IsBuffer(b, size) == DOMAIN b = 1..size /\ b = [k \in DOMAIN b |-> b[k]]

LEMMA BufferIsSeq ==
    ASSUME NEW size \in Nat, NEW b, IsBuffer(b, size)
    PROVE  b \in Seq({b[k] : k \in 1..size}) /\ Len(b) = size
<1>1. b \in [1..size -> {b[k] : k \in 1..size}]
    BY DEF IsBuffer
<1> QED
    BY <1>1, SeqDef

LEMMA OverIs ==
    ASSUME NEW size \in Nat, NEW b, IsBuffer(b, size), NEW s
    PROVE  /\ IsBuffer(Over(b, s), size)
           /\ \A k \in 1..size : Over(b, s)[k] = IF k <= Len(s) THEN s[k] ELSE b[k]
BY BufferIsSeq DEF Over, IsBuffer

LEMMA RetOver ==
    \A b, s : IsBuffer(b, RetSize) =>
        /\ IsBuffer(Over(b, s), RetSize)
        /\ \A k \in 1..RetSize : Over(b, s)[k] = IF k <= Len(s) THEN s[k] ELSE b[k]
BY OverIs, ProcessListAssumption

LEMMA ShowInfoBuffer ==
    ASSUME NEW b, IsBuffer(b, RetSize), NEW found
    PROVE  IsBuffer(ShowInfo(b, found).ret, RetSize)
BY OverIs, ProcessListAssumption DEF ShowInfo, Copied

Cells == Chars \cup Keys \cup {NUL, "blank", "newline"}

\* A field of the status, as t holds it from position p, is copied as it is.
LEMMA FieldShown ==
    ASSUME NEW b, IsBuffer(b, RetSize), NEW t \in Seq(Cells), NEW p \in 1..Len(t), NEW val \in Seq(Chars) \ {<<>>},
           Len(val) < RetSize, p + 1 + Len(val) <= Len(t),
           t[p + 1] = "blank", \A k \in 1..Len(val) : t[p + 1 + k] = val[k],
           p + 1 + Len(val) < Len(t) => t[p + 2 + Len(val)] = "newline"
    PROVE  ShowInfo(b, SubSeq(t, p, Len(t))).text = val
<1> DEFINE found == SubSeq(t, p, Len(t))  n == Len(val)  m == Len(t) - p
<1>1. n \in Nat \ {0} /\ \A k \in 1..n : val[k] \in Chars /\ val[k] \in Cells
    <2>1. n \in Nat /\ val \in Seq(Chars) /\ val # <<>>
        OBVIOUS
    <2> QED
        BY <2>1, EmptySeq, ElementOfSeq DEF Cells
<1>2. \A c \in Chars : c # "blank" /\ c # "newline" /\ c # NUL
    BY ProcessListAssumption
<1>3. Len(t) \in Nat /\ m \in Nat /\ m >= n + 1 /\ (m > n + 1 => t[p + 2 + n] = "newline")
    BY <1>1
<1>4. found \in Seq(Cells) /\ Len(found) = m + 1 /\ \A k \in 1..(m + 1) : found[k] = t[p + k - 1]
    <2>1. p \in 1..(Len(t) + 1) /\ Len(t) \in (p - 1)..Len(t) /\ Len(t) - p + 1 = m + 1
        BY <1>3
    <2> QED
        BY <2>1, Piece
<1> DEFINE rest == Tail(found)
<1>5. rest \in Seq(Cells) /\ Len(rest) = m /\ \A k \in 1..m : rest[k] = t[p + k]
    <2>1. found # <<>>
        <3> HIDE DEF found
        <3> QED
            BY <1>3, <1>4, EmptySeq
    <2>2. Tail(found) \in Seq(Cells) /\ Len(Tail(found)) = Len(found) - 1
          /\ \A k \in 1..Len(Tail(found)) : Tail(found)[k] = found[k + 1]
        BY <1>4, <2>1, HeadTailProperties
    <2>3. \A k \in 1..m : found[k + 1] = t[p + k]
        <3> SUFFICES ASSUME NEW k \in 1..m PROVE found[k + 1] = t[p + k]
            OBVIOUS
        <3>1. k + 1 \in 1..(m + 1) /\ p + (k + 1) - 1 = p + k
            BY <1>3
        <3>2. found[k + 1] = t[p + (k + 1) - 1]
            BY <1>4, <3>1
        <3> QED
            BY <3>1, <3>2
    <2> HIDE DEF found
    <2> QED
        BY <1>3, <1>4, <2>2, <2>3
<1> HIDE DEF found, rest
<1> DEFINE line == SubSeq(rest, 2, m)
<1>6. Skipped(rest) = line
    <2>1. rest[2] = val[1] /\ rest[1] = "blank"
        <3>1. 1 \in 1..n /\ p + 1 + 1 = p + 2 /\ 2 \in 1..m /\ 1 \in 1..m
            BY <1>1, <1>3
        <3> QED
            BY <1>5, <3>1
    <2>2. val[1] # "blank" /\ 2 \in 1..Len(rest) /\ \A k \in 1..(2 - 1) : k = 1
        BY <1>1, <1>2, <1>3, <1>5
    <2> QED
        BY <1>5, <2>1, <2>2, SkippedTo, SMTT(30)
<1>7. line \in Seq(Cells) /\ Len(line) = m - 1 /\ \A k \in 1..(m - 1) : line[k] = t[p + 1 + k]
    <2>1. 2 \in 1..(Len(rest) + 1) /\ m \in (2 - 1)..Len(rest) /\ m - 2 + 1 = m - 1
        BY <1>1, <1>3, <1>5
    <2>2. line \in Seq(Cells) /\ Len(line) = m - 1 /\ \A k \in 1..(m - 1) : line[k] = rest[2 + k - 1]
        BY <1>5, <2>1, Piece
    <2>3. \A k \in 1..(m - 1) : 2 + k - 1 \in 1..m /\ rest[2 + k - 1] = t[p + 1 + k]
        <3> SUFFICES ASSUME NEW k \in 1..(m - 1) PROVE 2 + k - 1 \in 1..m /\ rest[2 + k - 1] = t[p + 1 + k]
            OBVIOUS
        <3>1. 2 + k - 1 \in 1..m /\ p + (2 + k - 1) = p + 1 + k
            BY <1>3
        <3> QED
            BY <1>5, <3>1
    <2> QED
        BY <2>2, <2>3
<1> HIDE DEF line
<1>8. LineOf(line) = SubSeq(line, 1, n)
    <2>1. n \in 0..Len(line) /\ \A k \in 1..n : line[k] # "newline"
        BY <1>1, <1>2, <1>3, <1>7
    <2>2. n < Len(line) => line[n + 1] = "newline"
        <3> SUFFICES ASSUME n < Len(line) PROVE line[n + 1] = "newline"
            OBVIOUS
        <3>1. n + 1 \in 1..(m - 1) /\ p + 1 + (n + 1) = p + 2 + n /\ m > n + 1
            BY <1>1, <1>3, <1>7
        <3> QED
            BY <1>3, <1>7, <3>1
    <2> QED
        BY <1>7, <2>1, <2>2, LineUpTo
<1>9. SubSeq(line, 1, n) = val
    <2>1. 1 \in 1..(Len(line) + 1) /\ n \in (1 - 1)..Len(line) /\ n - 1 + 1 = n
        BY <1>1, <1>3, <1>7
    <2>2. /\ SubSeq(line, 1, n) \in Seq(Cells) /\ Len(SubSeq(line, 1, n)) = n
          /\ \A k \in 1..n : SubSeq(line, 1, n)[k] = line[1 + k - 1]
        BY <1>7, <2>1, Piece
    <2>3. \A k \in 1..n : line[1 + k - 1] = val[k]
        <3> SUFFICES ASSUME NEW k \in 1..n PROVE line[1 + k - 1] = val[k]
            OBVIOUS
        <3>1. 1 + k - 1 = k /\ k \in 1..(m - 1)
            BY <1>1, <1>3
        <3> QED
            BY <1>7, <3>1
    <2>4. val \in Seq(Cells)
        BY SeqMonotonic DEF Cells
    <2> QED
        BY <2>2, <2>3, <2>4, SeqEqual
<1> DEFINE after == Over(b, Append(val, NUL))
<1>10. ShowInfo(b, found).text = Text(after)
    <2>1. ~(Len(found) <= 1)
        BY <1>1, <1>3, <1>4
    <2>2. LineOf(Skipped(Tail(found))) = val
        BY <1>6, <1>8, <1>9 DEF rest
    <2> QED
        BY <2>1, <2>2 DEF ShowInfo, Copied
<1>11. /\ IsBuffer(after, RetSize) /\ RetSize \in Nat /\ \A k \in 1..n : after[k] = val[k]
       /\ after[n + 1] = NUL
    <2>1. Len(Append(val, NUL)) = n + 1 /\ Append(val, NUL)[n + 1] = NUL /\ \A k \in 1..n : Append(val, NUL)[k] = val[k]
        <3>1. val \in Seq(Cells) /\ NUL \in Cells
            BY SeqMonotonic DEF Cells
        <3> QED
            BY <3>1, AppendProperties
    <2>2. RetSize \in Nat /\ n + 1 \in 1..RetSize /\ \A k \in 1..n : k \in 1..RetSize /\ k <= n + 1
        BY <1>1, ProcessListAssumption
    <2>3. IsBuffer(after, RetSize) /\ \A k \in 1..RetSize : after[k] = IF k <= Len(Append(val, NUL)) THEN Append(val, NUL)[k] ELSE b[k]
        <3> DEFINE w == Append(val, NUL)
        <3>1. RetSize \in Nat /\ after = Over(b, w)
            BY <2>2
        <3> HIDE DEF w, after
        <3>2. IsBuffer(Over(b, w), RetSize) /\ \A k \in 1..RetSize : Over(b, w)[k] = IF k <= Len(w) THEN w[k] ELSE b[k]
            BY RetOver, ZenonT(30)
        <3> QED
            BY <3>1, <3>2 DEF w
    <2> HIDE DEF after
    <2> QED
        BY <1>1, <2>1, <2>2, <2>3
<1> HIDE DEF after
<1>12. Text(after) = SubSeq(after, 1, n) /\ after \in Seq({after[k] : k \in 1..RetSize}) /\ Len(after) = RetSize
    <2>1. after \in Seq({after[k] : k \in 1..RetSize}) /\ Len(after) = RetSize
        BY <1>11, BufferIsSeq
    <2>2. n \in 0..(Len(after) - 1) /\ \A k \in 1..n : after[k] # NUL
        BY <1>1, <1>2, <1>11, <2>1
    <2> QED
        BY <1>11, <2>1, <2>2, TextIs
<1>13. SubSeq(after, 1, n) = val
    <2> DEFINE S == {after[k] : k \in 1..RetSize} \cup Chars
    <2>1. after \in Seq(S) /\ val \in Seq(S)
        BY <1>12, SeqMonotonic
    <2>2. 1 \in 1..(Len(after) + 1) /\ n \in (1 - 1)..Len(after) /\ n - 1 + 1 = n
        BY <1>1, <1>11, <1>12
    <2> HIDE DEF S
    <2>3. /\ SubSeq(after, 1, n) \in Seq(S) /\ Len(SubSeq(after, 1, n)) = n
          /\ \A k \in 1..n : SubSeq(after, 1, n)[k] = after[1 + k - 1]
        BY <2>1, <2>2, Piece
    <2>4. \A k \in 1..n : 1 + k - 1 = k
        OBVIOUS
    <2> QED
        BY <1>11, <2>1, <2>3, <2>4, SeqEqual
<1> QED
    BY <1>10, <1>12, <1>13 DEF found

LEMMA ConcatAt ==
    ASSUME NEW S, NEW s \in Seq(S), NEW t \in Seq(S)
    PROVE  /\ s \o t \in Seq(S) /\ Len(s \o t) = Len(s) + Len(t)
           /\ \A k \in 1..Len(s) : (s \o t)[k] = s[k]
           /\ \A k \in 1..Len(t) : (s \o t)[Len(s) + k] = t[k]
BY ConcatProperties

LEMMA ConcatCells ==
    \A s, t \in Seq(Cells) :
        /\ s \o t \in Seq(Cells) /\ Len(s \o t) = Len(s) + Len(t)
        /\ \A k \in 1..Len(s) : (s \o t)[k] = s[k]
        /\ \A k \in 1..Len(t) : (s \o t)[Len(s) + k] = t[k]
BY ConcatAt

\* Where the parts of a status are.
Parts(s, a, c, f, na, nc, nf, q, u) ==
    /\ s \in Seq(Cells) /\ Len(s) = u + 2 + nf
    /\ \A k \in 1..na : s[k] = a[k]
    /\ s[q - 1] = "newline" /\ s[q] = "Pid:" /\ s[q + 1] = "blank"
    /\ \A k \in 1..nc : s[q + 1 + k] = c[k]
    /\ s[u - 1] = "newline" /\ s[u] = "Uid:" /\ s[u + 1] = "blank"
    /\ \A k \in 1..nf : s[u + 1 + k] = f[k]
    /\ s[u + 2 + nf] = "newline"

LEMMA Positions ==
    ASSUME NEW a \in Seq(Cells), NEW c \in Seq(Cells), NEW f \in Seq(Cells), NEW s6,
           s6 = a \o <<"newline", "Pid:", "blank">> \o c \o <<"newline", "Uid:", "blank">> \o f \o <<"newline">>,
           NEW na \in Nat, NEW nc \in Nat, NEW nf \in Nat, na = Len(a), nc = Len(c), nf = Len(f),
           NEW q \in Nat, NEW u \in Nat, q = na + 2, u = na + 5 + nc
    PROVE  Parts(s6, a, c, f, na, nc, nf, q, u)
<1>1. PICK b, d, g : b = <<"newline", "Pid:", "blank">> /\ d = <<"newline", "Uid:", "blank">> /\ g = <<"newline">>
    OBVIOUS
<1>2. /\ b \in Seq(Cells) /\ Len(b) = 3 /\ b[1] = "newline" /\ b[2] = "Pid:" /\ b[3] = "blank"
      /\ d \in Seq(Cells) /\ Len(d) = 3 /\ d[1] = "newline" /\ d[2] = "Uid:" /\ d[3] = "blank"
      /\ g \in Seq(Cells) /\ Len(g) = 1 /\ g[1] = "newline"
    <2>1. "newline" \in Cells /\ "blank" \in Cells /\ "Pid:" \in Cells /\ "Uid:" \in Cells
        BY DEF Cells, Keys
    <2> QED
        BY <1>1, <2>1
<1>3. s6 = ((((a \o b) \o c) \o d) \o f) \o g
    BY <1>1
<1>4. PICK s2, s3, s4, s5 : s2 = a \o b /\ s3 = s2 \o c /\ s4 = s3 \o d /\ s5 = s4 \o f /\ s6 = s5 \o g
    BY <1>3
<1>20. /\ 1 \in Nat /\ 3 \in Nat /\ na + 3 \in Nat /\ na + 3 + nc \in Nat /\ na + 3 + nc + 3 \in Nat
       /\ na + 3 + nc + 3 + nf \in Nat
    OBVIOUS
<1>5. /\ s2 \in Seq(Cells) /\ Len(s2) = na + 3
      /\ \A k \in 1..na : s2[k] = a[k]
      /\ \A k \in 1..3 : s2[na + k] = b[k]
    <2>1. a \in Seq(Cells) /\ b \in Seq(Cells) /\ s2 = a \o b /\ na \in Nat /\ 3 \in Nat
          /\ Len(a) = na /\ Len(b) = 3
        BY <1>2, <1>4, <1>20
    <2>2. /\ a \o b \in Seq(Cells) /\ Len(a \o b) = Len(a) + Len(b)
          /\ \A k \in 1..Len(a) : (a \o b)[k] = a[k]
          /\ \A k \in 1..Len(b) : (a \o b)[Len(a) + k] = b[k]
        BY <2>1, ConcatCells, Zenon
    <2> QED
        BY <2>1, <2>2
<1>6. /\ s3 \in Seq(Cells) /\ Len(s3) = na + 3 + nc
      /\ \A k \in 1..(na + 3) : s3[k] = s2[k]
      /\ \A k \in 1..nc : s3[na + 3 + k] = c[k]
    <2>1. s2 \in Seq(Cells) /\ c \in Seq(Cells) /\ s3 = s2 \o c /\ (na + 3) \in Nat /\ nc \in Nat
          /\ Len(s2) = (na + 3) /\ Len(c) = nc
        BY <1>4, <1>5, <1>20
    <2>2. /\ s2 \o c \in Seq(Cells) /\ Len(s2 \o c) = Len(s2) + Len(c)
          /\ \A k \in 1..Len(s2) : (s2 \o c)[k] = s2[k]
          /\ \A k \in 1..Len(c) : (s2 \o c)[Len(s2) + k] = c[k]
        BY <2>1, ConcatCells, Zenon
    <2> QED
        BY <2>1, <2>2
<1>7. /\ s4 \in Seq(Cells) /\ Len(s4) = na + 3 + nc + 3
      /\ \A k \in 1..(na + 3 + nc) : s4[k] = s3[k]
      /\ \A k \in 1..3 : s4[na + 3 + nc + k] = d[k]
    <2>1. s3 \in Seq(Cells) /\ d \in Seq(Cells) /\ s4 = s3 \o d /\ (na + 3 + nc) \in Nat /\ 3 \in Nat
          /\ Len(s3) = (na + 3 + nc) /\ Len(d) = 3
        BY <1>2, <1>4, <1>6, <1>20
    <2>2. /\ s3 \o d \in Seq(Cells) /\ Len(s3 \o d) = Len(s3) + Len(d)
          /\ \A k \in 1..Len(s3) : (s3 \o d)[k] = s3[k]
          /\ \A k \in 1..Len(d) : (s3 \o d)[Len(s3) + k] = d[k]
        BY <2>1, ConcatCells, Zenon
    <2> QED
        BY <2>1, <2>2
<1>8. /\ s5 \in Seq(Cells) /\ Len(s5) = na + 3 + nc + 3 + nf
      /\ \A k \in 1..(na + 3 + nc + 3) : s5[k] = s4[k]
      /\ \A k \in 1..nf : s5[na + 3 + nc + 3 + k] = f[k]
    <2>1. s4 \in Seq(Cells) /\ f \in Seq(Cells) /\ s5 = s4 \o f /\ (na + 3 + nc + 3) \in Nat /\ nf \in Nat
          /\ Len(s4) = (na + 3 + nc + 3) /\ Len(f) = nf
        BY <1>4, <1>7, <1>20
    <2>2. /\ s4 \o f \in Seq(Cells) /\ Len(s4 \o f) = Len(s4) + Len(f)
          /\ \A k \in 1..Len(s4) : (s4 \o f)[k] = s4[k]
          /\ \A k \in 1..Len(f) : (s4 \o f)[Len(s4) + k] = f[k]
        BY <2>1, ConcatCells, Zenon
    <2> QED
        BY <2>1, <2>2
<1>9. /\ s6 \in Seq(Cells) /\ Len(s6) = na + 3 + nc + 3 + nf + 1
      /\ \A k \in 1..(na + 3 + nc + 3 + nf) : s6[k] = s5[k]
      /\ \A k \in 1..1 : s6[na + 3 + nc + 3 + nf + k] = g[k]
    <2>1. s5 \in Seq(Cells) /\ g \in Seq(Cells) /\ s6 = s5 \o g /\ (na + 3 + nc + 3 + nf) \in Nat /\ 1 \in Nat
          /\ Len(s5) = (na + 3 + nc + 3 + nf) /\ Len(g) = 1
        BY <1>2, <1>4, <1>8, <1>20
    <2>2. /\ s5 \o g \in Seq(Cells) /\ Len(s5 \o g) = Len(s5) + Len(g)
          /\ \A k \in 1..Len(s5) : (s5 \o g)[k] = s5[k]
          /\ \A k \in 1..Len(g) : (s5 \o g)[Len(s5) + k] = g[k]
        BY <2>1, ConcatCells, Zenon
    <2> QED
        BY <2>1, <2>2
<1>10. ASSUME NEW k \in 1..(na + 3 + nc + 3) PROVE s6[k] = s4[k]
    <2>1. k \in 1..(na + 3 + nc + 3 + nf)
        OBVIOUS
    <2> QED
        BY <1>8, <1>9, <2>1
<1>13. ASSUME NEW k \in 1..(na + 3 + nc) PROVE s6[k] = s3[k]
    <2>1. k \in 1..(na + 3 + nc + 3)
        OBVIOUS
    <2> QED
        BY <1>7, <1>10, <2>1
<1>16. ASSUME NEW k \in 1..(na + 3) PROVE s6[k] = s2[k]
    <2>1. k \in 1..(na + 3 + nc)
        OBVIOUS
    <2> QED
        BY <1>6, <1>13, <2>1
<1>11. ASSUME NEW k \in 1..na PROVE s6[k] = a[k]
    <2>1. k \in 1..(na + 3)
        OBVIOUS
    <2> QED
        BY <1>5, <1>16, <2>1
<1>12. ASSUME NEW k \in 1..nc PROVE s6[q + 1 + k] = c[k]
    <2>1. na + 3 + k \in 1..(na + 3 + nc) /\ q + 1 + k = na + 3 + k
        OBVIOUS
    <2> QED
        BY <1>6, <1>13, <2>1
<1>14. ASSUME NEW k \in 1..nf PROVE s6[u + 1 + k] = f[k]
    <2>1. na + 3 + nc + 3 + k \in 1..(na + 3 + nc + 3 + nf) /\ u + 1 + k = na + 3 + nc + 3 + k
        OBVIOUS
    <2> QED
        BY <1>8, <1>9, <2>1
<1>15. s6[q - 1] = "newline" /\ s6[q] = "Pid:" /\ s6[q + 1] = "blank"
    <2>1. /\ q - 1 = na + 1 /\ q = na + 2 /\ q + 1 = na + 3 /\ 1 \in 1..3 /\ 2 \in 1..3 /\ 3 \in 1..3
          /\ na + 1 \in 1..(na + 3) /\ na + 2 \in 1..(na + 3) /\ na + 3 \in 1..(na + 3)
        OBVIOUS
    <2> QED
        BY <1>2, <1>5, <1>16, <2>1
<1>17. s6[u - 1] = "newline" /\ s6[u] = "Uid:" /\ s6[u + 1] = "blank"
    <2>1. /\ u - 1 = na + 3 + nc + 1 /\ u = na + 3 + nc + 2 /\ u + 1 = na + 3 + nc + 3
          /\ 1 \in 1..3 /\ 2 \in 1..3 /\ 3 \in 1..3
          /\ na + 3 + nc + 1 \in 1..(na + 3 + nc + 3) /\ na + 3 + nc + 2 \in 1..(na + 3 + nc + 3)
          /\ na + 3 + nc + 3 \in 1..(na + 3 + nc + 3)
        OBVIOUS
    <2> QED
        BY <1>2, <1>7, <1>10, <2>1
<1>18. s6[u + 2 + nf] = "newline" /\ u + 2 + nf = na + 3 + nc + 3 + nf + 1
    <2>1. u + 2 + nf = na + 3 + nc + 3 + nf + 1 /\ 1 \in 1..1
        OBVIOUS
    <2> QED
        BY <1>2, <1>9, <2>1
<1> QED
    BY <1>9, <1>11, <1>12, <1>14, <1>15, <1>17, <1>18 DEF Parts

\* s begins as a status whose keys are at q and u, and has L cells before its end.
Shape(s, na, nc, nf, q, u, L) ==
    /\ q = na + 2 /\ u = na + 5 + nc /\ L = u + 1 + nf
    /\ \A k \in 1..na : s[k] \notin Keys \cup {NUL}
    /\ s[q - 1] = "newline" /\ s[q] = "Pid:" /\ s[q + 1] = "blank"
    /\ \A k \in 1..nc : s[q + 1 + k] \in Chars
    /\ s[u - 1] = "newline" /\ s[u] = "Uid:" /\ s[u + 1] = "blank"
    /\ \A k \in 1..nf : s[u + 1 + k] \in Chars

\* The buffer holds those cells, and a NUL after them.
Holds(rd, s, L) ==
    /\ IsBuffer(rd, RdSize) /\ L + 1 <= RdSize /\ rd[L + 1] = NUL
    /\ \A k \in 1..L : k \in 1..Len(s) /\ rd[k] = s[k]

\* What strstr gives is the rest of the text of rd, which is s up to L, from q or u on.
Found(rd, s, q, u, L) ==
    \E t \in Seq(Cells) :
        /\ Len(t) = L /\ \A k \in 1..L : t[k] = s[k]
        /\ StrStr(rd, "Pid:") = SubSeq(t, q, Len(t))
        /\ StrStr(rd, "Uid:") = SubSeq(t, u, Len(t))

\* Where the keys of a status are found, once it is in the buffer.
LEMMA KeysFound ==
    ASSUME NEW s6 \in Seq(Cells), NEW na \in Nat, NEW nc \in Nat, NEW nf \in Nat,
           NEW q \in Nat, NEW u \in Nat, NEW L \in Nat, NEW rd,
           Shape(s6, na, nc, nf, q, u, L), Holds(rd, s6, L)
    PROVE  Found(rd, s6, q, u, L)
<1> DEFINE t == Text(rd)
<1>1. RdSize \in Nat /\ L + 1 <= RdSize /\ IsBuffer(rd, RdSize) /\ rd[L + 1] = NUL
      /\ q = na + 2 /\ u = na + 5 + nc /\ L = u + 1 + nf
    BY ProcessListAssumption DEF Holds, Shape
<1>2. \A x \in Chars : x # NUL /\ x \notin Keys
    BY ProcessListAssumption
<1>3. ASSUME NEW k \in 1..L
      PROVE  \/ k \in 1..na \/ k = q - 1 \/ k = q \/ k = q + 1 \/ k = u - 1 \/ k = u \/ k = u + 1
             \/ \E j \in 1..nc : k = q + 1 + j
             \/ \E j \in 1..nf : k = u + 1 + j
    <2>1. CASE k > q + 1 /\ k < u - 1
        <3>1. k - (q + 1) \in 1..nc /\ k = q + 1 + (k - (q + 1))
            BY <1>1, <2>1
        <3> QED
            BY <3>1
    <2>2. CASE k > u + 1
        <3>1. k - (u + 1) \in 1..nf /\ k = u + 1 + (k - (u + 1))
            BY <1>1, <2>2
        <3> QED
            BY <3>1
    <2> QED
        BY <1>1, <2>1, <2>2
<1>4. ASSUME NEW k \in 1..L PROVE s6[k] # NUL
    <2>1. CASE k \in 1..na
        BY <2>1 DEF Shape
    <2>2. CASE \E j \in 1..nc : k = q + 1 + j
        BY <1>2, <2>2 DEF Shape
    <2>3. CASE \E j \in 1..nf : k = u + 1 + j
        BY <1>2, <2>3 DEF Shape
    <2>4. CASE \/ k = q - 1 \/ k = q \/ k = q + 1 \/ k = u - 1 \/ k = u \/ k = u + 1
        <3>1. s6[k] \in {"newline", "Pid:", "blank", "Uid:"}
            BY <2>4 DEF Shape
        <3> QED
            BY <3>1 DEF NUL
    <2> QED
        BY <1>3, <2>1, <2>2, <2>3, <2>4
<1>5. t = SubSeq(rd, 1, L)
    <2>1. rd \in Seq({rd[k] : k \in 1..RdSize}) /\ Len(rd) = RdSize
        BY <1>1, BufferIsSeq
    <2>2. L \in 0..(Len(rd) - 1)
        BY <1>1, <2>1
    <2>3. ASSUME NEW k \in 1..L PROVE rd[k] # NUL
        <3>1. rd[k] = s6[k]
            BY DEF Holds
        <3> QED
            BY <1>4, <3>1
    <2> QED
        BY <1>1, <2>1, <2>2, <2>3, TextIs
<1>6. t \in Seq(Cells) /\ Len(t) = L /\ \A k \in 1..L : t[k] = s6[k]
    <2> DEFINE S == {rd[k] : k \in 1..RdSize}
    <2>1. rd \in Seq(S) /\ Len(rd) = RdSize
        BY <1>1, BufferIsSeq
    <2>2. 1 \in 1..(Len(rd) + 1) /\ L \in (1 - 1)..Len(rd) /\ L - 1 + 1 = L /\ \A k \in 1..L : 1 + k - 1 = k
        BY <1>1, <2>1
    <2> HIDE DEF S
    <2>3. t \in Seq(S) /\ Len(t) = L /\ \A k \in 1..L : t[k] = rd[k]
        BY <1>5, <2>1, <2>2, Piece
    <2> HIDE DEF t
    <2>4. \A k \in 1..L : t[k] = s6[k]
        BY <2>3 DEF Holds
    <2>5. \A k \in 1..L : s6[k] \in Cells
        BY ElementOfSeq DEF Holds
    <2>6. \A k \in 1..Len(t) : t[k] \in Cells
        BY <2>3, <2>4, <2>5
    <2>7. t \in Seq(Cells)
        BY <2>3, <2>6, SeqDef, ElementOfSeq, LenProperties
    <2> QED
        BY <2>3, <2>4, <2>7
<1>11. Text(rd) = t
    OBVIOUS
<1> HIDE DEF t
<1>7. StrStr(rd, "Pid:") = SubSeq(t, q, Len(t))
    <2>1. q \in 1..Len(t) /\ t[q] = "Pid:"
        BY <1>1, <1>6 DEF Shape
    <2>2. ASSUME NEW k \in 1..(q - 1) PROVE t[k] # "Pid:"
        <3>1. k \in 1..L /\ (k \in 1..na \/ k = q - 1)
            BY <1>1
        <3> QED
            BY <1>1, <1>6, <3>1 DEF Keys, Shape
    <2>3. Text(rd) = t /\ t \in Seq(Cells)
        BY <1>6, <1>11
    <2> QED
        BY <2>1, <2>2, <2>3, FoundAt
<1>8. StrStr(rd, "Uid:") = SubSeq(t, u, Len(t))
    <2>1. u \in 1..Len(t) /\ t[u] = "Uid:"
        BY <1>1, <1>6 DEF Shape
    <2>2. ASSUME NEW k \in 1..(u - 1) PROVE t[k] # "Uid:"
        <3>1. k \in 1..L /\ k < u
            BY <1>1
        <3>2. \/ k \in 1..na \/ k = q - 1 \/ k = q \/ k = q + 1 \/ k = u - 1
              \/ \E j \in 1..nc : k = q + 1 + j
            BY <1>1, <1>3, <3>1
        <3>3. t[k] = s6[k]
            BY <1>6, <3>1
        <3>4. CASE k \in 1..na
            BY <3>3, <3>4 DEF Keys, Shape
        <3>5. CASE \E j \in 1..nc : k = q + 1 + j
            BY <1>2, <3>3, <3>5 DEF Keys, Shape
        <3>6. CASE k = q - 1 \/ k = q \/ k = q + 1 \/ k = u - 1
            <4>1. s6[k] \in {"newline", "Pid:", "blank"}
                BY <3>6 DEF Shape
            <4> QED
                BY <3>3, <4>1
        <3> QED
            BY <3>2, <3>4, <3>5, <3>6
    <2>3. Text(rd) = t /\ t \in Seq(Cells)
        BY <1>6, <1>11
    <2> QED
        BY <2>1, <2>2, <2>3, FoundAt, SMTT(30)
<1> QED
    BY <1>6, <1>7, <1>8 DEF Found

\* The field after the key at p in s is val, of n characters.
Field(s, p, val, n) == Len(val) = n /\ \A k \in 1..n : s[p + 1 + k] = val[k]

\* What show_info makes of the buffer.
Reads(b, rd, c, f) ==
    ShowInfo(b, StrStr(rd, "Pid:")).text = c /\ ShowInfo(b, StrStr(rd, "Uid:")).text = f

\* What is shown of it.
LEMMA FieldsRead ==
    ASSUME NEW s6 \in Seq(Cells), NEW na \in Nat, NEW nc \in Nat, NEW nf \in Nat,
           NEW q \in Nat, NEW u \in Nat, NEW L \in Nat, NEW rd,
           Shape(s6, na, nc, nf, q, u, L), Holds(rd, s6, L),
           NEW c \in Seq(Chars) \ {<<>>}, NEW f \in Seq(Chars) \ {<<>>},
           Field(s6, q, c, nc), Field(s6, u, f, nf), NEW b, IsBuffer(b, RetSize),
           nc < RetSize, nf < RetSize
    PROVE  Reads(b, rd, c, f)
<1>0. Found(rd, s6, q, u, L)
    BY KeysFound
<1>1. PICK t \in Seq(Cells) :
          /\ Len(t) = L /\ \A k \in 1..L : t[k] = s6[k]
          /\ StrStr(rd, "Pid:") = SubSeq(t, q, Len(t))
          /\ StrStr(rd, "Uid:") = SubSeq(t, u, Len(t))
    BY <1>0 DEF Found
<1>2. RdSize \in Nat /\ L + 1 <= RdSize /\ q = na + 2 /\ u = na + 5 + nc /\ L = u + 1 + nf
    BY ProcessListAssumption DEF Holds, Shape
<1>3. ShowInfo(b, SubSeq(t, q, Len(t))).text = c
    <2>1. /\ q \in 1..L /\ nc < RetSize /\ q + 1 + nc <= L
          /\ q + 1 \in 1..L /\ q + 2 + nc \in 1..L /\ q + 2 + nc = u - 1
          /\ \A k \in 1..nc : q + 1 + k \in 1..L
        BY <1>2
    <2>2. /\ t[q + 1] = "blank" /\ t[q + 2 + nc] = "newline"
          /\ \A k \in 1..nc : t[q + 1 + k] = c[k]
        BY <1>1, <2>1, ZenonT(30) DEF Shape, Field
    <2>3. Len(c) = nc /\ Len(t) = L
        BY <1>1 DEF Field
    <2>4. /\ q \in 1..Len(t) /\ Len(c) < RetSize /\ q + 1 + Len(c) <= Len(t)
          /\ t[q + 1] = "blank" /\ \A k \in 1..Len(c) : t[q + 1 + k] = c[k]
          /\ (q + 1 + Len(c) < Len(t) => t[q + 2 + Len(c)] = "newline")
        BY <2>1, <2>2, <2>3
    <2> QED
        BY <2>4, FieldShown
<1>4. ShowInfo(b, SubSeq(t, u, Len(t))).text = f
    <2>1. /\ u \in 1..L /\ nf < RetSize /\ u + 1 + nf <= L /\ ~(u + 1 + nf < L)
          /\ u + 1 \in 1..L /\ \A k \in 1..nf : u + 1 + k \in 1..L
        BY <1>2
    <2>2. t[u + 1] = "blank" /\ \A k \in 1..nf : t[u + 1 + k] = f[k]
        BY <1>1, <2>1, ZenonT(30) DEF Shape, Field
    <2>3. Len(f) = nf /\ Len(t) = L
        BY <1>1 DEF Field
    <2>4. /\ u \in 1..Len(t) /\ Len(f) < RetSize /\ u + 1 + Len(f) <= Len(t)
          /\ t[u + 1] = "blank" /\ \A k \in 1..Len(f) : t[u + 1 + k] = f[k]
          /\ (u + 1 + Len(f) < Len(t) => t[u + 2 + Len(f)] = "newline")
        BY <2>1, <2>2, <2>3
    <2> QED
        BY <2>4, FieldShown
<1> QED
    BY <1>1, <1>3, <1>4 DEF Reads

\* The three varying parts of a status, whatever entry they come from.
StatusOf(a, c, f) ==
    a \o <<"newline", "Pid:", "blank">> \o c \o <<"newline", "Uid:", "blank">> \o f \o <<"newline">>

ReadInto(rd, s) ==
    LET given == IF Len(s) < RdSize THEN Len(s) ELSE RdSize
    IN  [Over(rd, SubSeq(s, 1, given)) EXCEPT ![given] = NUL]

LEMMA PlainRead ==
    ASSUME NEW a \in Seq(Chars \cup Keys \cup {"blank", "newline"}), ToSet(a) \cap Keys = {},
           NEW c \in Seq(Chars) \ {<<>>}, NEW f \in Seq(Chars) \ {<<>>},
           Len(StatusOf(a, c, f)) <= RdSize, NEW old, IsBuffer(old, RdSize), NEW b, IsBuffer(b, RetSize),
           Len(c) < RetSize, Len(f) < RetSize
    PROVE  Reads(b, ReadInto(old, StatusOf(a, c, f)), c, f)
<1>1. PICK na, nc, nf \in Nat : na = Len(a) /\ nc = Len(c) /\ nf = Len(f)
    BY LenProperties
<1>2. PICK q, u, L \in Nat : q = na + 2 /\ u = na + 5 + nc /\ L = u + 1 + nf
    BY <1>1
<1>3. a \in Seq(Cells) /\ c \in Seq(Cells) /\ f \in Seq(Cells)
    BY SeqMonotonic DEF Cells
<1> DEFINE s6 == StatusOf(a, c, f)  rd == ReadInto(old, s6)
<1>10. PICK s : s = a \o <<"newline", "Pid:", "blank">> \o c \o <<"newline", "Uid:", "blank">> \o f \o <<"newline">>
    OBVIOUS
<1>11. Parts(s, a, c, f, na, nc, nf, q, u)
    BY <1>1, <1>2, <1>3, <1>10, Positions, ZenonT(60)
<1>12. s = s6
    BY <1>10 DEF StatusOf
<1>4. /\ s6 \in Seq(Cells) /\ Len(s6) = u + 2 + nf
      /\ \A k \in 1..na : s6[k] = a[k]
      /\ s6[q - 1] = "newline" /\ s6[q] = "Pid:" /\ s6[q + 1] = "blank"
      /\ \A k \in 1..nc : s6[q + 1 + k] = c[k]
      /\ s6[u - 1] = "newline" /\ s6[u] = "Uid:" /\ s6[u + 1] = "blank"
      /\ \A k \in 1..nf : s6[u + 1 + k] = f[k]
      /\ s6[u + 2 + nf] = "newline"
    BY <1>11, <1>12 DEF Parts
<1> HIDE DEF s6
<1>5. Field(s6, q, c, nc) /\ Field(s6, u, f, nf)
    BY <1>1, <1>4 DEF Field
<1>6. Shape(s6, na, nc, nf, q, u, L)
    <2>1. ASSUME NEW k \in 1..na PROVE s6[k] \notin Keys \cup {NUL}
        <3>1. a[k] \in Chars \cup Keys \cup {"blank", "newline"} /\ a[k] \in ToSet(a)
            BY <1>1, ElementOfSeq DEF ToSet
        <3>2. NUL \notin Chars \cup Keys \cup {"blank", "newline"}
            BY ProcessListAssumption DEF Keys, NUL
        <3> QED
            BY <1>4, <3>1, <3>2
    <2>2. (\A k \in 1..nc : c[k] \in Chars) /\ \A k \in 1..nf : f[k] \in Chars
        BY <1>1, ElementOfSeq
    <2> QED
        BY <1>2, <1>4, <2>1, <2>2 DEF Shape
<1>7. Holds(rd, s6, L)
    <2>1. L + 1 = u + 2 + nf /\ RdSize \in Nat /\ L + 1 <= RdSize /\ Len(s6) = L + 1
        BY <1>2, <1>4, ProcessListAssumption DEF s6
    <2>2. (IF Len(s6) < RdSize THEN Len(s6) ELSE RdSize) = L + 1
        BY <2>1
    <2>3. SubSeq(s6, 1, L + 1) = s6
        BY <1>4, <2>1, SubSeqFull
    <2>4. rd = [Over(old, s6) EXCEPT ![L + 1] = NUL]
        BY <2>2, <2>3 DEF ReadInto
    <2>5. IsBuffer(Over(old, s6), RdSize) /\ \A k \in 1..RdSize : Over(old, s6)[k] = IF k <= Len(s6) THEN s6[k] ELSE old[k]
        <3>1. RdSize \in Nat
            BY <2>1
        <3> QED
            BY <3>1, OverIs, ZenonT(60)
    <2> HIDE DEF rd
    <2>6. IsBuffer(rd, RdSize)
        BY <2>4, <2>5 DEF IsBuffer
    <2>7. rd[L + 1] = NUL /\ \A k \in 1..L : rd[k] = Over(old, s6)[k]
        BY <2>1, <2>4, <2>5 DEF IsBuffer
    <2>8. \A k \in 1..L : k \in 1..Len(s6) /\ Over(old, s6)[k] = s6[k]
        BY <2>1, <2>5
    <2> QED
        BY <2>1, <2>6, <2>7, <2>8 DEF Holds
<1> HIDE DEF rd
<1>8. Reads(b, rd, c, f)
    BY <1>1, <1>4, <1>5, <1>6, <1>7, FieldsRead
<1> QED
    BY <1>8 DEF rd, s6

\* What SelectInSeq answers, I being the positions of t it looks for.
LEMMA Selected ==
    ASSUME NEW S, NEW t \in Seq(S), NEW I \in SUBSET (1..Len(t)), NEW k, k = IF I # {} THEN Min(I) ELSE 0
    PROVE  /\ k \in 0..Len(t)
           /\ k # 0 => k \in I /\ \A j \in 1..(k - 1) : j \notin I
           /\ k = 0 => I = {}
<1>1. Len(t) \in Nat /\ I \in SUBSET Nat
    BY LenProperties
<1>2. CASE I # {}
    <2>1. k \in I /\ \A y \in I : k <= y
        BY <1>1, <1>2, Minimum
    <2>2. k \in 1..Len(t)
        BY <2>1
    <2> QED
        BY <1>1, <1>2, <2>1, <2>2
<1> QED
    BY <1>1, <1>2

IsSeq(s) == \E S : s \in Seq(S)

\* l is what t holds from behind position o on.
Behind(l, t, o) ==
    IsSeq(l) /\ o \in Nat /\ o + Len(l) <= Len(t) /\ \A k \in 1..Len(l) : l[k] = t[o + k]

\* What show_info copies is a piece of the text, without a newline, behind the key.
LEMMA LineBehind ==
    ASSUME NEW S, NEW t \in Seq(S), NEW p \in 1..Len(t), p < Len(t), NEW line,
           line = LineOf(Skipped(Tail(SubSeq(t, p, Len(t)))))
    PROVE  \E o \in Nat : o >= 1 /\ Behind(line, t, o) /\ \A k \in 1..Len(line) : line[k] # "newline"
<1> DEFINE m == Len(t)  found == SubSeq(t, p, m)  rest == Tail(found)  word == Skipped(rest)
           b == SelectInSeq(rest, LAMBDA x : x # "blank")
           e == SelectInSeq(word, LAMBDA x : x = "newline")
<1>1. m \in Nat /\ p \in Nat
    BY LenProperties
<1>2. found \in Seq(S) /\ Len(found) = m - p + 1 /\ \A k \in 1..(m - p + 1) : found[k] = t[p + k - 1]
    <2>1. p \in 1..(Len(t) + 1) /\ Len(t) \in (p - 1)..Len(t)
        BY <1>1
    <2> QED
        BY <2>1, Piece
<1>3. rest \in Seq(S) /\ Len(rest) = m - p /\ \A k \in 1..(m - p) : rest[k] = t[p + k]
    <2>1. found # <<>>
        <3> HIDE DEF found
        <3> QED
            BY <1>1, <1>2, EmptySeq
    <2>2. Tail(found) \in Seq(S) /\ Len(Tail(found)) = Len(found) - 1
          /\ \A k \in 1..Len(Tail(found)) : Tail(found)[k] = found[k + 1]
        BY <1>2, <2>1, HeadTailProperties
    <2>3. ASSUME NEW k \in 1..(m - p) PROVE found[k + 1] = t[p + k]
        <3>1. k + 1 \in 1..(m - p + 1) /\ p + (k + 1) - 1 = p + k
            BY <1>1
        <3> QED
            BY <1>2, <3>1
    <2> HIDE DEF found
    <2> QED
        BY <1>1, <1>2, <2>2, <2>3
<1> HIDE DEF m, found, rest
<1>4. b \in 0..Len(rest) /\ word = IF b = 0 THEN <<>> ELSE SubSeq(rest, b, Len(rest))
    <2> DEFINE I == {j \in 1..Len(rest) : rest[j] # "blank"}
    <2>1. b = IF I # {} THEN Min(I) ELSE 0
        BY DEF SelectInSeq
    <2>2. I \in SUBSET (1..Len(rest))
        OBVIOUS
    <2>3. word = IF b = 0 THEN <<>> ELSE SubSeq(rest, b, Len(rest))
        BY DEF Skipped
    <2> HIDE DEF b, I, word
    <2>4. b \in 0..Len(rest)
        BY <1>3, <2>1, <2>2, Selected
    <2> QED
        BY <2>3, <2>4
<1> HIDE DEF b
<1>5. word \in Seq(S) /\ Len(word) = (IF b = 0 THEN 0 ELSE m - p - b + 1)
      /\ \A k \in 1..Len(word) : word[k] = t[p + b - 1 + k]
    <2>1. CASE b = 0
        <3>1. word = <<>>
            BY <1>4, <2>1
        <3> HIDE DEF word
        <3> QED
            BY <2>1, <3>1, EmptySeq
    <2>2. CASE b # 0
        <3>1. word = SubSeq(rest, b, Len(rest)) /\ b \in 1..(Len(rest) + 1) /\ Len(rest) \in (b - 1)..Len(rest)
            <4> HIDE DEF word
            <4>1. Len(rest) \in Nat /\ b \in 1..Len(rest)
                BY <1>1, <1>3, <1>4, <2>2, LenProperties
            <4> QED
                BY <1>4, <2>2, <4>1
        <3>2. word \in Seq(S) /\ Len(word) = Len(rest) - b + 1
              /\ \A k \in 1..(Len(rest) - b + 1) : word[k] = rest[b + k - 1]
            BY <1>3, <3>1, Piece
        <3> HIDE DEF word
        <3>3. ASSUME NEW k \in 1..Len(word) PROVE word[k] = t[p + b - 1 + k]
            <4>1. b + k - 1 \in 1..(m - p) /\ p + (b + k - 1) = p + b - 1 + k /\ k \in 1..(Len(rest) - b + 1)
                BY <1>1, <1>3, <3>1, <3>2
            <4> QED
                BY <1>3, <3>2, <4>1
        <3> QED
            BY <1>3, <2>2, <3>2, <3>3
    <2> QED
        BY <2>1, <2>2
<1>6. line = LineOf(word)
    BY DEF word, rest, found, m
<1> HIDE DEF word
<1>7. /\ e \in 0..Len(word) /\ line = IF e = 0 THEN word ELSE SubSeq(word, 1, e - 1)
      /\ IF e = 0 THEN \A j \in 1..Len(word) : word[j] # "newline"
         ELSE \A j \in 1..(e - 1) : word[j] # "newline"
    <2> DEFINE I == {j \in 1..Len(word) : word[j] = "newline"}
    <2>1. e = IF I # {} THEN Min(I) ELSE 0
        BY DEF SelectInSeq
    <2>2. I \in SUBSET (1..Len(word)) /\ \A j \in 1..Len(word) : j \notin I => word[j] # "newline"
        OBVIOUS
    <2>3. line = IF e = 0 THEN word ELSE SubSeq(word, 1, e - 1)
        BY <1>6 DEF LineOf
    <2> HIDE DEF e, I
    <2>4. e \in 0..Len(word) /\ (e # 0 => \A j \in 1..(e - 1) : j \notin I) /\ (e = 0 => I = {})
        BY <1>5, <2>1, <2>2, Selected
    <2>5. e # 0 => \A j \in 1..(e - 1) : j \in 1..Len(word)
        BY <1>5, <2>4, LenProperties
    <2> QED
        BY <2>2, <2>3, <2>4, <2>5
<1> HIDE DEF e
<1>8. /\ line \in Seq(S) /\ Len(line) <= Len(word) /\ Len(line) \in Nat
      /\ \A k \in 1..Len(line) : line[k] = word[k] /\ line[k] # "newline"
    <2>1. CASE e = 0
        BY <1>5, <1>7, <2>1, LenProperties
    <2>2. CASE e # 0
        <3>1. line = SubSeq(word, 1, e - 1) /\ 1 \in 1..(Len(word) + 1) /\ e - 1 \in (1 - 1)..Len(word)
              /\ e - 1 - 1 + 1 = e - 1 /\ Len(word) \in Nat
            <4>1. Len(word) \in Nat /\ e \in 1..Len(word)
                BY <1>5, <1>7, <2>2, LenProperties
            <4> QED
                BY <1>7, <2>2, <4>1
        <3>2. line \in Seq(S) /\ Len(line) = e - 1 /\ \A k \in 1..(e - 1) : line[k] = word[1 + k - 1]
            <4> DEFINE n == e - 1
            <4>1. n \in (1 - 1)..Len(word) /\ n - 1 + 1 = n /\ 1 \in 1..(Len(word) + 1) /\ word \in Seq(S)
                BY <1>5, <3>1
            <4>2. line = SubSeq(word, 1, n)
                BY <3>1
            <4> HIDE DEF n
            <4>3. line \in Seq(S) /\ Len(line) = n /\ \A k \in 1..n : line[k] = word[1 + k - 1]
                BY <4>1, <4>2, Piece
            <4> QED
                BY <4>3 DEF n
        <3>3. \A k \in 1..(e - 1) : 1 + k - 1 = k
            OBVIOUS
        <3> QED
            BY <1>7, <2>2, <3>1, <3>2, <3>3
    <2> QED
        BY <2>1, <2>2
<1>9. CASE Len(line) = 0
    <2>1. Behind(line, t, 1)
        BY <1>1, <1>8, <1>9 DEF Behind, IsSeq, m
    <2> QED
        BY <1>8, <2>1
<1>10. CASE Len(line) # 0
    <2> DEFINE o == p + b - 1
    <2>1. b # 0 /\ o \in Nat /\ o >= 1 /\ o + Len(line) <= m
        BY <1>1, <1>3, <1>4, <1>5, <1>8, <1>10
    <2>2. \A k \in 1..Len(line) : k \in 1..Len(word)
        BY <1>5, <1>8, LenProperties
    <2>3. \A k \in 1..Len(line) : line[k] = t[o + k]
        BY <1>5, <1>8, <2>2
    <2>4. Behind(line, t, o)
        BY <1>8, <2>1, <2>3 DEF Behind, IsSeq, m
    <2> QED
        BY <1>8, <2>1, <2>4
<1> QED
    BY <1>9, <1>10

\* The text of the buffer is a beginning of what was read, without its last cell.
LEMMA TextRead ==
    ASSUME NEW s \in Seq(Cells), Len(s) > 0, NEW old, IsBuffer(old, RdSize)
    PROVE  \E S : /\ Text(ReadInto(old, s)) \in Seq(S) /\ Len(Text(ReadInto(old, s))) < Len(s)
                  /\ \A k \in 1..Len(Text(ReadInto(old, s))) : Text(ReadInto(old, s))[k] = s[k]
<1> DEFINE given == IF Len(s) < RdSize THEN Len(s) ELSE RdSize
           piece == SubSeq(s, 1, given)  rd == ReadInto(old, s)  t == Text(rd)
           S == {rd[k] : k \in 1..RdSize}
           end == SelectInSeq(rd, LAMBDA x : x = NUL)
<1>1. Len(s) \in Nat /\ RdSize \in Nat /\ given \in 1..RdSize /\ given \in 1..Len(s)
    BY ProcessListAssumption, LenProperties
<1>2. Len(piece) = given /\ \A k \in 1..given : piece[k] = s[k]
    <2>1. 1 \in 1..(Len(s) + 1) /\ given \in (1 - 1)..Len(s) /\ given - 1 + 1 = given
          /\ \A k \in 1..given : 1 + k - 1 = k
        BY <1>1
    <2> HIDE DEF given
    <2> QED
        BY <2>1, Piece
<1>3. rd = [Over(old, piece) EXCEPT ![given] = NUL]
    BY DEF ReadInto
<1> HIDE DEF given, piece, rd
<1>4. IsBuffer(Over(old, piece), RdSize) /\ \A k \in 1..RdSize : Over(old, piece)[k] = IF k <= Len(piece) THEN piece[k] ELSE old[k]
    BY <1>1, OverIs
<1>5. IsBuffer(rd, RdSize) /\ rd[given] = NUL /\ \A k \in 1..(given - 1) : rd[k] = s[k]
    <2>1. IsBuffer(rd, RdSize) /\ rd[given] = NUL
        BY <1>1, <1>3, <1>4 DEF IsBuffer
    <2>2. ASSUME NEW k \in 1..(given - 1) PROVE rd[k] = s[k]
        <3>1. k \in 1..RdSize /\ k # given /\ k <= given /\ k \in 1..given
            BY <1>1
        <3> QED
            BY <1>2, <1>3, <1>4, <3>1 DEF IsBuffer
    <2> QED
        BY <2>1, <2>2
<1>6. rd \in Seq(S) /\ Len(rd) = RdSize
    BY <1>1, <1>5, BufferIsSeq
<1> HIDE DEF S
<1>7. end \in 1..given
    <2>1. end \in 0..Len(rd) /\ (end # 0 => \A j \in 1..(end - 1) : j \in 1..Len(rd) => rd[j] # NUL)
          /\ (end = 0 => \A j \in 1..Len(rd) : rd[j] # NUL)
        <3> DEFINE I == {j \in 1..Len(rd) : rd[j] = NUL}
        <3>1. end = IF I # {} THEN Min(I) ELSE 0
            BY DEF SelectInSeq
        <3>2. I \in SUBSET (1..Len(rd)) /\ \A j \in 1..Len(rd) : j \notin I => rd[j] # NUL
            OBVIOUS
        <3> HIDE DEF end, I
        <3>3. end \in 0..Len(rd) /\ (end # 0 => \A j \in 1..(end - 1) : j \notin I) /\ (end = 0 => I = {})
            BY <1>6, <3>1, <3>2, Selected
        <3> QED
            BY <3>2, <3>3
    <2> HIDE DEF end
    <2>2. end # 0
        BY <1>1, <1>5, <1>6, <2>1
    <2>3. ~ (given < end)
        BY <1>1, <1>5, <2>1
    <2> QED
        BY <1>1, <1>6, <2>1, <2>2, <2>3
<1>8. t = SubSeq(rd, 1, end - 1)
    <2>1. t = IF end = 0 THEN rd ELSE SubSeq(rd, 1, end - 1)
        BY DEF Text
    <2> HIDE DEF end, t
    <2> QED
        BY <1>1, <1>7, <2>1
<1> HIDE DEF end, t
<1>9. t \in Seq(S) /\ Len(t) = end - 1 /\ \A k \in 1..(end - 1) : t[k] = rd[k]
    <2>1. 1 \in 1..(Len(rd) + 1) /\ end - 1 \in (1 - 1)..Len(rd) /\ end - 1 - 1 + 1 = end - 1
          /\ \A k \in 1..(end - 1) : 1 + k - 1 = k
        BY <1>1, <1>6, <1>7
    <2> QED
        BY <1>6, <1>8, <2>1, Piece
<1>10. Len(t) < Len(s) /\ \A k \in 1..Len(t) : t[k] = s[k]
    BY <1>1, <1>5, <1>7, <1>9
<1> QED
    BY <1>9, <1>10 DEF t, rd

\* A line of a status, and what is copied of it, is shorter than ret_buff.
LEMMA LineFits ==
    ASSUME NEW a \in Short(Chars \cup Keys \cup {"blank", "newline"}), NEW c \in Short(Chars),
           NEW f \in Short(Chars), NEW old, IsBuffer(old, RdSize), NEW b, IsBuffer(b, RetSize), NEW key
    PROVE  ShowInfo(b, StrStr(ReadInto(old, StatusOf(a, c, f)), key)).fits = TRUE
<1> DEFINE s == StatusOf(a, c, f)  rd == ReadInto(old, s)  found == StrStr(rd, key)
           line == LineOf(Skipped(Tail(found)))
<1>1. RetSize \in Nat /\ Len(b) = RetSize
    BY ProcessListAssumption, BufferIsSeq
<1>2. PICK na, nc, nf \in Nat : na = Len(a) /\ nc = Len(c) /\ nf = Len(f)
    BY LenProperties DEF Short
<1>3. na + 2 < RetSize /\ nc + 2 < RetSize /\ nf + 2 < RetSize
    BY <1>2 DEF Short
<1>4. PICK q, u \in Nat : q = na + 2 /\ u = na + 5 + nc
    BY <1>2
<1>5. a \in Seq(Cells) /\ c \in Seq(Cells) /\ f \in Seq(Cells)
    BY SeqMonotonic DEF Cells, Short
<1>6. Parts(s, a, c, f, na, nc, nf, q, u)
    <2>1. PICK s6 : s6 = a \o <<"newline", "Pid:", "blank">> \o c \o <<"newline", "Uid:", "blank">> \o f \o <<"newline">>
        OBVIOUS
    <2>2. Parts(s6, a, c, f, na, nc, nf, q, u)
        BY <1>2, <1>4, <1>5, <2>1, Positions, ZenonT(60)
    <2>3. s6 = s
        BY <2>1 DEF StatusOf
    <2> QED
        BY <2>2, <2>3
<1> HIDE DEF s
<1>7. s \in Seq(Cells) /\ Len(s) = u + 2 + nf /\ s[q - 1] = "newline" /\ s[u - 1] = "newline"
    BY <1>6 DEF Parts
<1>8. PICK S : /\ Text(rd) \in Seq(S) /\ Len(Text(rd)) < Len(s)
               /\ \A k \in 1..Len(Text(rd)) : Text(rd)[k] = s[k]
    <2>1. Len(s) > 0
        BY <1>2, <1>4, <1>7
    <2> QED
        BY <1>7, <2>1, TextRead
<1> DEFINE t == Text(rd)  k == SelectInSeq(t, LAMBDA x : x = key)
<1>9. k \in 0..Len(t) /\ found = IF k = 0 THEN <<>> ELSE SubSeq(t, k, Len(t))
    <2> DEFINE I == {j \in 1..Len(t) : t[j] = key}
    <2>1. k = IF I # {} THEN Min(I) ELSE 0
        BY DEF SelectInSeq
    <2>2. I \in SUBSET (1..Len(t))
        OBVIOUS
    <2>3. found = IF k = 0 THEN <<>> ELSE SubSeq(t, k, Len(t))
        BY DEF StrStr
    <2> HIDE DEF k, I, t, found
    <2>4. t \in Seq(S)
        BY <1>8 DEF t
    <2>5. k \in 0..Len(t)
        BY <2>1, <2>2, <2>4, Selected
    <2> QED
        BY <2>3, <2>5
<1> HIDE DEF rd, t, k
<1>10. Len(t) \in Nat /\ t \in Seq(S) /\ Len(t) < Len(s) /\ \A j \in 1..Len(t) : t[j] = s[j]
    BY <1>8, LenProperties DEF t
<1>13. (Len(found) <= 1 => ShowInfo(b, found).fits = TRUE)
       /\ (~(Len(found) <= 1) /\ Len(line) < Len(b) => ShowInfo(b, found).fits = TRUE)
    <2> DEFINE after == Copied(b, line)  text == Text(after)  fits == Len(line) < Len(b)
               none == [ret |-> b, text |-> <<>>, fits |-> TRUE]
               some == [ret |-> after, text |-> text, fits |-> fits]
    <2>1. ShowInfo(b, found) = IF Len(found) <= 1 THEN none ELSE some
        BY DEF ShowInfo
    <2>2. none.fits = TRUE
        OBVIOUS
    <2>3. some.fits = fits
        <3> HIDE DEF after, text, fits
        <3> QED
            OBVIOUS
    <2>4. Len(line) < Len(b) => fits = TRUE
        OBVIOUS
    <2> HIDE DEF none, some, fits, found, line
    <2> QED
        BY <2>1, <2>2, <2>3, <2>4
<1>11. CASE Len(found) <= 1
    BY <1>11, <1>13 DEF rd, s
<1>12. CASE ~(Len(found) <= 1)
    <2>1. k # 0
        <3>1. k = 0 => found = <<>>
            BY <1>9
        <3> HIDE DEF found
        <3> QED
            BY <1>12, <3>1, EmptySeq
    <2>2. found = SubSeq(t, k, Len(t)) /\ k \in 1..Len(t)
        BY <1>9, <1>10, <2>1
    <2>3. k < Len(t)
        <3>1. k \in 1..(Len(t) + 1) /\ Len(t) \in (k - 1)..Len(t)
            BY <1>10, <2>2
        <3>2. Len(found) = Len(t) - k + 1
            BY <1>10, <2>2, <3>1, Piece
        <3> HIDE DEF found
        <3> QED
            BY <1>10, <1>12, <2>2, <3>2
    <2>4. line = LineOf(Skipped(Tail(SubSeq(t, k, Len(t)))))
        BY <2>2
    <2> HIDE DEF line
    <2>5. PICK o \in Nat : o >= 1 /\ Behind(line, t, o) /\ \A j \in 1..Len(line) : line[j] # "newline"
        BY <1>10, <2>2, <2>3, <2>4, LineBehind
    <2> DEFINE n == Len(line)
    <2>6. n \in Nat /\ o + n <= Len(t) /\ \A j \in 1..n : t[o + j] # "newline"
        BY <2>5, LenProperties DEF Behind, IsSeq
    <2> HIDE DEF n
    <2>7. ASSUME NEW x \in (o + 1)..(o + n) PROVE s[x] # "newline"
        <3>1. x - o \in 1..n /\ o + (x - o) = x /\ x \in 1..Len(t)
            BY <1>10, <2>5, <2>6
        <3> QED
            BY <1>10, <2>6, <3>1
    <2>8. q - 1 \notin (o + 1)..(o + n) /\ u - 1 \notin (o + 1)..(o + n)
        BY <1>7, <2>7
    <2>9. n < RetSize
        BY <1>1, <1>2, <1>3, <1>4, <1>7, <1>10, <2>5, <2>6, <2>8
    <2> QED
        BY <1>1, <1>12, <1>13, <2>9 DEF n, rd, s
<1> QED
    BY <1>11, <1>12 DEF rd, s

LineRight(entries, line) ==
    LET e == entries[line.path] IN Plain(e) => line.pid = e.pid /\ line.uid = e.uid

\* The lines are those of the processes up to the n-th entry.
LinesUpTo(entries, n, lines) ==
    /\ IsSeq(lines)
    /\ {lines[k].path : k \in DOMAIN lines} = {k \in Listable(entries) : k <= n}
    /\ \A j, k \in DOMAIN lines : j < k => lines[j].path < lines[k].path
    /\ \A k \in DOMAIN lines : LineRight(entries, lines[k])

NoneGone(entries, n) == \A j \in Procs(entries) : j <= n => ~entries[j].gone

ListInv ==
    command = "getproc-info" =>
    /\ input \in Directories
    /\ work = [at |-> work.at, rd |-> work.rd, ret |-> work.ret, fits |-> work.fits, lines |-> work.lines, end |-> work.end]
    /\ work.at \in 0..Len(input) /\ IsBuffer(work.rd, RdSize) /\ IsBuffer(work.ret, RetSize) /\ work.fits = TRUE
    /\ LinesUpTo(input, work.at, work.lines)
    /\ \/ work.end = "running" /\ NoneGone(input, work.at)
       \/ work.end = "failed" /\ work.at \in Procs(input) /\ input[work.at].gone
       \/ work.end = "done" /\ work.at = Len(input) /\ NoneGone(input, work.at)

LEMMA SeqAppended ==
    ASSUME NEW s, IsSeq(s), NEW x
    PROVE  /\ IsSeq(Append(s, x)) /\ Len(s) \in Nat /\ DOMAIN s = 1..Len(s)
           /\ DOMAIN Append(s, x) = 1..(Len(s) + 1)
           /\ \A k \in 1..Len(s) : Append(s, x)[k] = s[k]
           /\ Append(s, x)[Len(s) + 1] = x
<1>1. PICK S : s \in Seq(S)
    BY DEF IsSeq
<1>2. s \in Seq(S \cup {x}) /\ x \in S \cup {x}
    BY <1>1, SeqMonotonic
<1>3. /\ Append(s, x) \in Seq(S \cup {x}) /\ Len(Append(s, x)) = Len(s) + 1
      /\ \A k \in 1..Len(s) : Append(s, x)[k] = s[k]
      /\ Append(s, x)[Len(s) + 1] = x
    BY <1>2, AppendProperties
<1>4. Len(s) \in Nat /\ DOMAIN s = 1..Len(s) /\ DOMAIN Append(s, x) = 1..(Len(s) + 1)
    BY <1>2, <1>3, LenProperties
<1> QED
    BY <1>3, <1>4 DEF IsSeq

LEMMA LinesSkip ==
    ASSUME NEW entries, NEW n \in Nat, NEW lines, LinesUpTo(entries, n, lines), DOMAIN entries \subseteq Nat,
           n + 1 \notin Procs(entries) \/ entries[n + 1].gone
    PROVE  LinesUpTo(entries, n + 1, lines)
<1>1. n + 1 \notin Listable(entries)
    BY DEF Listable, Procs
<1>2. {k \in Listable(entries) : k <= n} = {k \in Listable(entries) : k <= n + 1}
    BY <1>1 DEF Listable, Procs
<1> QED
    BY <1>2 DEF LinesUpTo

LEMMA LinesShow ==
    ASSUME NEW entries, NEW n \in Nat, NEW lines, LinesUpTo(entries, n, lines), DOMAIN entries \subseteq Nat,
           n + 1 \in Procs(entries), ~entries[n + 1].gone, NoneGone(entries, n),
           NEW line, line.path = n + 1, LineRight(entries, line)
    PROVE  LinesUpTo(entries, n + 1, Append(lines, line))
<1> DEFINE more == Append(lines, line)  m == Len(lines)
<1>1. /\ IsSeq(more) /\ m \in Nat /\ DOMAIN lines = 1..m /\ DOMAIN more = 1..(m + 1)
      /\ \A k \in 1..m : more[k] = lines[k]
      /\ more[m + 1] = line
    BY SeqAppended DEF LinesUpTo
<1> HIDE DEF more, m
<1>2. n + 1 \in Listable(entries)
    BY DEF Listable, Procs, NoneGone
<1>3. {k \in Listable(entries) : k <= n + 1} = {k \in Listable(entries) : k <= n} \cup {n + 1}
    BY <1>2 DEF Listable, Procs
<1>4. {lines[k].path : k \in 1..m} = {k \in Listable(entries) : k <= n}
    BY <1>1 DEF LinesUpTo
<1>5. {more[k].path : k \in 1..(m + 1)} = {lines[k].path : k \in 1..m} \cup {n + 1}
    <2>1. \A k \in 1..(m + 1) : k \in 1..m \/ k = m + 1
        BY <1>1
    <2>2. m + 1 \in 1..(m + 1) /\ \A k \in 1..m : k \in 1..(m + 1)
        BY <1>1
    <2> QED
        BY <1>1, <2>1, <2>2
<1>6. ASSUME NEW j \in 1..(m + 1), NEW k \in 1..(m + 1), j < k PROVE more[j].path < more[k].path
    <2>1. j \in 1..m /\ (k \in 1..m \/ k = m + 1)
        BY <1>1, <1>6
    <2>2. lines[j].path \in Nat /\ lines[j].path <= n
        <3>1. lines[j].path \in {i_ \in Listable(entries) : i_ <= n}
            BY <1>4, <2>1
        <3> QED
            BY <3>1 DEF Listable, Procs
    <2>3. CASE k \in 1..m
        BY <1>1, <1>6, <2>1, <2>3 DEF LinesUpTo
    <2>4. CASE k = m + 1
        BY <1>1, <2>1, <2>2, <2>4
    <2> QED
        BY <2>1, <2>3, <2>4
<1>7. ASSUME NEW k \in 1..(m + 1) PROVE LineRight(entries, more[k])
    <2>1. k \in 1..m \/ k = m + 1
        BY <1>1
    <2> QED
        BY <1>1, <2>1 DEF LinesUpTo
<1> QED
    BY <1>1, <1>3, <1>4, <1>5, <1>6, <1>7 DEF LinesUpTo, more

LEMMA ListInit == ListBegins => ListInv
<1> SUFFICES ASSUME ListBegins PROVE ListInv
    OBVIOUS
<1>1. PICK d \in Directories : command = "getproc-info" /\ input = d /\ work = NothingShown
    BY DEF ListBegins, Begins
<1>2. d \in Seq(ProcEntries) /\ Len(d) \in Nat /\ DOMAIN d = 1..Len(d)
    BY SmallAssumption, LenProperties
<1>3. IsBuffer([k \in 1..RdSize |-> NUL], RdSize) /\ IsBuffer([k \in 1..RetSize |-> NUL], RetSize)
    BY DEF IsBuffer
<1>4. LinesUpTo(d, 0, <<>>)
    <2>1. <<>> \in Seq({}) /\ DOMAIN <<>> = {}
        BY EmptySeq
    <2>2. {k \in Listable(d) : k <= 0} = {}
        BY <1>2 DEF Listable, Procs
    <2> QED
        BY <2>1, <2>2 DEF LinesUpTo, IsSeq
<1>5. NoneGone(d, 0)
    BY <1>2 DEF NoneGone, Procs
<1> QED
    BY <1>1, <1>2, <1>3, <1>4, <1>5 DEF ListInv, NothingShown

LEMMA ListTurnInv == ListInv /\ ListTurn => ListInv'
<1> SUFFICES ASSUME ListInv, ListTurn PROVE ListInv'
    OBVIOUS
<1> DEFINE n == work.at  e == input[n + 1]
<1>1. /\ command = "getproc-info" /\ work.end = "running" /\ n < Len(input)
      /\ work' = ShowProc(work, input) /\ command' = command /\ input' = input
    BY DEF ListTurn, Runs, Does
<1>2. /\ input \in Directories
      /\ work = [at |-> work.at, rd |-> work.rd, ret |-> work.ret, fits |-> work.fits, lines |-> work.lines, end |-> work.end]
      /\ n \in 0..Len(input) /\ IsBuffer(work.rd, RdSize) /\ IsBuffer(work.ret, RetSize) /\ work.fits = TRUE
      /\ LinesUpTo(input, n, work.lines) /\ NoneGone(input, n)
    BY <1>1 DEF ListInv
<1>3. /\ input \in Seq(ProcEntries) /\ Len(input) \in Nat /\ DOMAIN input = 1..Len(input)
      /\ n \in Nat /\ n + 1 \in 1..Len(input) /\ e \in ProcEntries
    <2>1. input \in Seq(ProcEntries) /\ Len(input) \in Nat /\ DOMAIN input = 1..Len(input)
        BY <1>2, SmallAssumption, LenProperties
    <2>2. n \in Nat /\ n + 1 \in 1..Len(input)
        BY <1>1, <1>2, <2>1
    <2> QED
        BY <2>1, <2>2, ElementOfSeq
<1>4. n + 1 \in Procs(input) <=> e.proc
    BY <1>3 DEF Procs
<1> HIDE DEF n, e
<1> DEFINE next == [at |-> n + 1, rd |-> work.rd, ret |-> work.ret, fits |-> work.fits, lines |-> work.lines, end |-> work.end]
<1>5. work' = IF ~e.proc THEN next ELSE IF e.gone THEN [next EXCEPT !.end = "failed"] ELSE ReadFile(next, n + 1, e)
    <2>1. [work EXCEPT !.at = n + 1] = next
        BY <1>2
    <2> HIDE DEF next
    <2> QED
        BY <1>1, <2>1 DEF ShowProc, n, e
<1>6. CASE ~e.proc
    <2>1. LinesUpTo(input, n + 1, work.lines)
        BY <1>2, <1>3, <1>4, <1>6, LinesSkip
    <2>2. NoneGone(input, n + 1)
        BY <1>2, <1>3, <1>4, <1>6 DEF NoneGone, Procs
    <2>3. work' = next
        BY <1>5, <1>6
    <2> QED
        BY <1>1, <1>2, <1>3, <2>1, <2>2, <2>3 DEF ListInv
<1>7. CASE e.proc /\ e.gone
    <2>1. LinesUpTo(input, n + 1, work.lines)
        BY <1>2, <1>3, <1>4, <1>7, LinesSkip DEF e
    <2>2. work' = [at |-> n + 1, rd |-> work.rd, ret |-> work.ret, fits |-> work.fits, lines |-> work.lines, end |-> "failed"]
        BY <1>5, <1>7
    <2> QED
        BY <1>1, <1>2, <1>3, <1>4, <1>7, <2>1, <2>2 DEF ListInv, e
<1>8. CASE e.proc /\ ~e.gone
    <2> DEFINE rd == ReadInto(work.rd, Status(e))
               pid == ShowInfo(work.ret, StrStr(rd, "Pid:"))
               uid == ShowInfo(pid.ret, StrStr(rd, "Uid:"))
               line == [path |-> n + 1, pid |-> pid.text, uid |-> uid.text]
               fits == work.fits /\ pid.fits /\ uid.fits
    <2>1. work' = [at |-> n + 1, rd |-> rd, ret |-> uid.ret, fits |-> fits,
                    lines |-> Append(work.lines, line), end |-> work.end]
        <3>1. work' = [next EXCEPT !.rd = rd, !.ret = uid.ret, !.fits = next.fits /\ pid.fits /\ uid.fits,
                                   !.lines = Append(next.lines, line)]
            BY <1>5, <1>8 DEF ReadFile, ReadInto
        <3>2. next.fits = work.fits /\ next.lines = work.lines
            OBVIOUS
        <3>3. work' = [next EXCEPT !.rd = rd, !.ret = uid.ret, !.fits = fits, !.lines = Append(work.lines, line)]
            BY <3>1, <3>2
        <3> HIDE DEF rd, pid, uid, line, fits
        <3> QED
            BY <3>3
    <2>2. IsBuffer(rd, RdSize)
        <3> DEFINE s == Status(e)  given == IF Len(s) < RdSize THEN Len(s) ELSE RdSize
        <3>1. IsBuffer(Over(work.rd, SubSeq(s, 1, given)), RdSize)
            BY <1>2, OverIs, ProcessListAssumption
        <3> QED
            BY <3>1 DEF ReadInto, IsBuffer
    <2>3. IsBuffer(pid.ret, RetSize)
        BY <1>2, ShowInfoBuffer
    <2>4. IsBuffer(uid.ret, RetSize)
        BY <2>3, ShowInfoBuffer
    <2>5. LineRight(input, line)
        <3> SUFFICES ASSUME Plain(e) PROVE pid.text = e.pid /\ uid.text = e.uid
            BY DEF LineRight, e
        <3> DEFINE a == e.name  c == e.pid  f == e.uid
        <3>1. /\ a \in Seq(Chars \cup Keys \cup {"blank", "newline"})
              /\ c \in Seq(Chars) \ {<<>>} /\ f \in Seq(Chars) \ {<<>>}
              /\ Len(c) < RetSize /\ Len(f) < RetSize
            <4>1. /\ c \in Seq(Chars) /\ Len(c) + 2 < RetSize /\ Len(c) \in Nat
                  /\ f \in Seq(Chars) /\ Len(f) + 2 < RetSize /\ Len(f) \in Nat
                BY <1>3, LenProperties DEF ProcEntries, Short
            <4>2. a \in Seq(Chars \cup Keys \cup {"blank", "newline"}) /\ c # <<>> /\ f # <<>>
                BY <1>3 DEF ProcEntries, Short
            <4>3. RetSize \in Nat
                BY ProcessListAssumption
            <4> HIDE DEF a, c, f
            <4> QED
                BY <4>1, <4>2, <4>3
        <3>2. ToSet(a) \cap Keys = {} /\ Len(StatusOf(a, c, f)) <= RdSize /\ rd = ReadInto(work.rd, StatusOf(a, c, f))
            BY DEF Plain, Status, StatusOf
        <3> HIDE DEF a, c, f
        <3>3. Reads(work.ret, rd, c, f) /\ Reads(pid.ret, rd, c, f)
            BY <1>2, <2>3, <3>1, <3>2, PlainRead
        <3> QED
            BY <3>3 DEF Reads, c, f
    <2>9. fits = TRUE
        <3> DEFINE a == e.name  c == e.pid  f == e.uid
        <3>1. /\ a \in Short(Chars \cup Keys \cup {"blank", "newline"})
              /\ c \in Short(Chars) /\ f \in Short(Chars)
            BY <1>3 DEF ProcEntries
        <3>2. rd = ReadInto(work.rd, StatusOf(a, c, f))
            BY DEF Status, StatusOf
        <3> HIDE DEF a, c, f, rd
        <3>3. pid.fits = TRUE /\ uid.fits = TRUE
            BY <1>2, <2>3, <3>1, <3>2, LineFits
        <3> QED
            BY <1>2, <3>3
    <2>6. line.path = n + 1
        OBVIOUS
    <2> HIDE DEF rd, pid, uid, line, fits
    <2>7. LinesUpTo(input, n + 1, Append(work.lines, line))
        BY <1>2, <1>3, <1>4, <1>8, <2>5, <2>6, LinesShow DEF e
    <2>8. NoneGone(input, n + 1)
        BY <1>2, <1>3, <1>8 DEF NoneGone, Procs, e
    <2> QED
        BY <1>1, <1>3, <2>1, <2>2, <2>4, <2>7, <2>8, <2>9 DEF ListInv
<1> QED
    BY <1>6, <1>7, <1>8

LEMMA ListEndsInv == ListInv /\ ListEnds => ListInv'
BY DEF ListInv, ListEnds, Runs, Does

LEMMA ListOthers == ListInv /\ (WalkGoesOn \/ OptionsGoOn \/ CopyGoesOn \/ Dup2GoesOn) => ListInv'
BY DEF ListInv, WalkGoesOn, WalkTurn, WalkReturns, WalkCrashes, InLoop, OptionsGoOn, OptionTurn, OptionsEnd,
       CopyGoesOn, Dup2GoesOn, DupTurn, CloseTurn, Dup2Returns, Runs, Does

LEMMA ListShows == ListInv => ProcessesShown
<1> SUFFICES ASSUME ListInv, command = "getproc-info", work.end # "running" PROVE ProcessesShown
    BY DEF ProcessesShown, ListInv
<1>1. /\ input \in Directories /\ work.at \in 0..Len(input) /\ LinesUpTo(input, work.at, work.lines)
      /\ \/ work.end = "failed" /\ work.at \in Procs(input) /\ input[work.at].gone
         \/ work.end = "done" /\ work.at = Len(input) /\ NoneGone(input, work.at)
      /\ work.fits = TRUE
    BY DEF ListInv
<1>2. Len(input) \in Nat /\ DOMAIN input = 1..Len(input) /\ Procs(input) \subseteq 1..Len(input)
      /\ Listable(input) \subseteq Procs(input)
    BY <1>1, SmallAssumption, LenProperties DEF Procs, Listable
<1>3. {k \in Listable(input) : k <= work.at} = Listable(input)
    <2>1. ASSUME NEW k \in Listable(input), work.at \in Procs(input), input[work.at].gone PROVE k <= work.at
        <3>1. k \in Nat /\ work.at \in Nat
            BY <1>1, <1>2
        <3>2. ~(work.at <= k)
            BY <2>1 DEF Listable
        <3> QED
            BY <3>1, <3>2
    <2>2. ASSUME NEW k \in Listable(input) PROVE k <= Len(input)
        BY <1>2
    <2> QED
        BY <1>1, <2>1, <2>2
<1>4. work.end = "failed" <=> Listable(input) # Procs(input)
    <2>1. CASE work.end = "failed"
        <3>1. work.at \notin Listable(input) /\ work.at \in Procs(input)
            BY <1>1, <1>2, <2>1 DEF Listable
        <3> QED
            BY <2>1, <3>1
    <2>2. CASE work.end = "done"
        <3>1. \A k \in Procs(input) : ~input[k].gone
            BY <1>1, <1>2, <2>2 DEF NoneGone
        <3>2. Listable(input) = Procs(input)
            BY <3>1 DEF Listable
        <3> QED
            BY <2>2, <3>2
    <2> QED
        BY <1>1, <2>1, <2>2
<1> QED
    BY <1>1, <1>3, <1>4 DEF ProcessesShown, LinesUpTo, LineRight

\* Whatever /proc holds, getproc-info shows each process up to the first that has gone
\* once, in order, with what its own status says.
THEOREM ProcessesCorrect == SmallSpec => []ProcessesShown
<1>1. SmallInit => ListInv
    BY ListInit DEF SmallInit, WalkBegins, OptionsBegin, CopyBegins, Dup2Begins, Begins, ListInv
<1>2. ListInv /\ [SmallNext]_smallVars => ListInv'
    <2>1. ListInv /\ UNCHANGED smallVars => ListInv'
        BY DEF smallVars, ListInv
    <2> QED
        BY <2>1, ListTurnInv, ListEndsInv, ListOthers DEF SmallNext, ListGoesOn
<1> QED
    BY <1>1, <1>2, ListShows, PTL DEF SmallSpec

-----------------------------------------------------------------------------
(***************************************************************************)
(* The copies, for any source, any size of the buffer, and any answers of  *)
(* read and write.                                                         *)
(***************************************************************************)
LEMMA Induct ==
    ASSUME NEW S, 0 \in S, \A n \in Nat : n \in S => n + 1 \in S
    PROVE  Nat \subseteq S
<1> SUFFICES ASSUME Nat \ S # {} PROVE FALSE
    OBVIOUS
<1>1. PICK x \in Nat \ S : \A y \in Nat \ S : x <= y
    BY Least
<1>2. x # 0
    OBVIOUS
<1>3. x - 1 \in Nat /\ x - 1 \notin Nat \ S
    BY <1>1, <1>2
<1> QED
    BY <1>3

\* What NonZero has kept of the first n bytes.
IsKept(kept, bytes) ==
    kept = [n \in 0..Len(bytes) |->
               IF n = 0 THEN <<>>
               ELSE IF bytes[n] = NulByte THEN kept[n - 1] ELSE Append(kept[n - 1], bytes[n])]

LEMMA KeptExists == ASSUME NEW bytes \in Seq(Nat) PROVE \E kept : IsKept(kept, bytes)
<1> DEFINE Upto(kept, m) ==
        kept = [n \in 0..m |->
                   IF n = 0 THEN <<>>
                   ELSE IF bytes[n] = NulByte THEN kept[n - 1] ELSE Append(kept[n - 1], bytes[n])]
      S == {m \in Nat : \E kept : Upto(kept, m)}
<1>1. 0 \in S
    <2>1. Upto([n \in 0..0 |-> <<>>], 0)
        OBVIOUS
    <2> QED
        BY <2>1
<1>2. ASSUME NEW m \in Nat, m \in S PROVE m + 1 \in S
    <2>1. PICK kept : Upto(kept, m)
        BY <1>2
    <2> DEFINE last == IF bytes[m + 1] = NulByte THEN kept[m] ELSE Append(kept[m], bytes[m + 1])
               more == [n \in 0..(m + 1) |-> IF n <= m THEN kept[n] ELSE last]
    <2>2. more[m + 1] = last /\ \A n \in 0..m : more[n] = kept[n]
        OBVIOUS
    <2>3. \A n \in 0..m : kept[n] = IF n = 0 THEN <<>>
                   ELSE IF bytes[n] = NulByte THEN kept[n - 1] ELSE Append(kept[n - 1], bytes[n])
        BY <2>1
    <2>4. \A n \in 1..(m + 1) : more[n - 1] = kept[n - 1]
        BY <2>2
    <2>5. \A n \in 0..(m + 1) : more[n] = IF n = 0 THEN <<>>
                   ELSE IF bytes[n] = NulByte THEN more[n - 1] ELSE Append(more[n - 1], bytes[n])
        <3> SUFFICES ASSUME NEW n \in 0..(m + 1)
                     PROVE  more[n] = IF n = 0 THEN <<>>
                                      ELSE IF bytes[n] = NulByte THEN more[n - 1] ELSE Append(more[n - 1], bytes[n])
            OBVIOUS
        <3> HIDE DEF more
        <3>1. CASE n <= m
            BY <2>2, <2>3, <2>4, <3>1
        <3>2. CASE n = m + 1
            BY <2>2, <2>4, <3>2
        <3> QED
            BY <3>1, <3>2
    <2>6. more = [n \in 0..(m + 1) |-> more[n]]
        OBVIOUS
    <2> HIDE DEF more
    <2>7. Upto(more, m + 1)
        BY <2>5, <2>6
    <2>8. m + 1 \in Nat
        OBVIOUS
    <2> HIDE DEF Upto
    <2> QED
        BY <2>7, <2>8
<1>3. Len(bytes) \in S
    <2> HIDE DEF S
    <2> QED
        BY <1>1, <1>2, Induct
<1> QED
    BY <1>3 DEF IsKept

LEMMA NonZeroDef ==
    ASSUME NEW bytes \in Seq(Nat)
    PROVE  \E kept : /\ kept[0] = <<>> /\ NonZero(bytes) = kept[Len(bytes)]
                     /\ \A n \in 1..Len(bytes) :
                           kept[n] = IF bytes[n] = NulByte THEN kept[n - 1] ELSE Append(kept[n - 1], bytes[n])
                     /\ \A n \in 0..Len(bytes) : kept[n] \in Seq(Nat)
<1> DEFINE kept == CHOOSE kept : IsKept(kept, bytes)
<1>1. NonZero(bytes) = kept[Len(bytes)]
    BY DEF NonZero, IsKept
<1>2. IsKept(kept, bytes)
    BY KeptExists
<1> HIDE DEF kept
<1>0. Len(bytes) \in Nat /\ \A n \in 1..Len(bytes) : bytes[n] \in Nat
    OBVIOUS
<1>3. \A n \in 0..Len(bytes) : kept[n] = IF n = 0 THEN <<>>
               ELSE IF bytes[n] = NulByte THEN kept[n - 1] ELSE Append(kept[n - 1], bytes[n])
    BY <1>2 DEF IsKept
<1> DEFINE S == {n \in Nat : n <= Len(bytes) => kept[n] \in Seq(Nat)}
<1>4. 0 \in S
    <2>1. kept[0] = <<>> /\ <<>> \in Seq(Nat)
        <3>1. 0 \in 0..Len(bytes)
            BY <1>0
        <3> QED
            BY <1>3, <3>1, EmptySeq
    <2> QED
        BY <2>1
<1>5. ASSUME NEW n \in Nat, n \in S PROVE n + 1 \in S
    <2>1. CASE n + 1 <= Len(bytes)
        <3>1. kept[n] \in Seq(Nat) /\ bytes[n + 1] \in Nat /\ n + 1 \in 0..Len(bytes) /\ n + 1 # 0 /\ n + 1 - 1 = n
            BY <1>0, <1>5, <2>1
        <3>2. kept[n + 1] = kept[n] \/ kept[n + 1] = Append(kept[n], bytes[n + 1])
            <4>1. kept[n + 1] = IF n + 1 = 0 THEN <<>>
                                ELSE IF bytes[n + 1] = NulByte THEN kept[n + 1 - 1] ELSE Append(kept[n + 1 - 1], bytes[n + 1])
                BY <1>3, <3>1
            <4> QED
                BY <3>1, <4>1
        <3>3. kept[n + 1] \in Seq(Nat)
            BY <3>1, <3>2, AppendProperties, ZenonT(30)
        <3> QED
            BY <3>3
    <2> QED
        BY <2>1
<1>6. \A n \in 0..Len(bytes) : kept[n] \in Seq(Nat)
    <2>1. Nat \subseteq S
        <3> HIDE DEF S
        <3> QED
            BY <1>4, <1>5, Induct
    <2> QED
        BY <2>1
<1> QED
    <2>1. \A n \in 1..Len(bytes) : n \in 0..Len(bytes) /\ n # 0
        BY <1>0
    <2>2. 0 \in 0..Len(bytes)
        BY <1>0
    <2> QED
        BY <1>1, <1>3, <1>6, <2>1, <2>2

\* What is not NUL of two pieces is that of the one, then that of the other.
LEMMA NonZeroConcat ==
    ASSUME NEW s \in Seq(Nat), NEW t \in Seq(Nat)
    PROVE  /\ NonZero(s) \in Seq(Nat) /\ NonZero(t) \in Seq(Nat)
           /\ NonZero(s \o t) = NonZero(s) \o NonZero(t)
<1> DEFINE u == s \o t
<1>1. /\ u \in Seq(Nat) /\ Len(u) = Len(s) + Len(t) /\ Len(s) \in Nat /\ Len(t) \in Nat
      /\ \A n \in 1..Len(s) : u[n] = s[n]
      /\ \A n \in 1..Len(t) : u[Len(s) + n] = t[n]
    BY ConcatProperties
<1> HIDE DEF u
<1>2. PICK ks : /\ ks[0] = <<>> /\ NonZero(s) = ks[Len(s)]
                /\ \A n \in 1..Len(s) : ks[n] = IF s[n] = NulByte THEN ks[n - 1] ELSE Append(ks[n - 1], s[n])
                /\ \A n \in 0..Len(s) : ks[n] \in Seq(Nat)
    BY NonZeroDef
<1>3. PICK kt : /\ kt[0] = <<>> /\ NonZero(t) = kt[Len(t)]
                /\ \A n \in 1..Len(t) : kt[n] = IF t[n] = NulByte THEN kt[n - 1] ELSE Append(kt[n - 1], t[n])
                /\ \A n \in 0..Len(t) : kt[n] \in Seq(Nat)
    BY NonZeroDef
<1>4. PICK ku : /\ ku[0] = <<>> /\ NonZero(u) = ku[Len(u)]
                /\ \A n \in 1..Len(u) : ku[n] = IF u[n] = NulByte THEN ku[n - 1] ELSE Append(ku[n - 1], u[n])
                /\ \A n \in 0..Len(u) : ku[n] \in Seq(Nat)
    BY <1>1, NonZeroDef
<1> DEFINE S == {n \in Nat : n <= Len(s) => ku[n] = ks[n]}
           T == {n \in Nat : n <= Len(t) => ku[Len(s) + n] = NonZero(s) \o kt[n]}
<1>5. Nat \subseteq S
    <2>1. 0 \in S
        BY <1>2, <1>4
    <2>2. ASSUME NEW n \in Nat, n \in S, n + 1 <= Len(s) PROVE ku[n + 1] = ks[n + 1]
        <3>1. n + 1 \in 1..Len(s) /\ n + 1 \in 1..Len(u) /\ u[n + 1] = s[n + 1] /\ ku[n] = ks[n] /\ n + 1 - 1 = n
            BY <1>1, <2>2
        <3>2. /\ ks[n + 1] = IF s[n + 1] = NulByte THEN ks[n + 1 - 1] ELSE Append(ks[n + 1 - 1], s[n + 1])
              /\ ku[n + 1] = IF u[n + 1] = NulByte THEN ku[n + 1 - 1] ELSE Append(ku[n + 1 - 1], u[n + 1])
            BY <1>2, <1>4, <3>1
        <3> QED
            BY <3>1, <3>2
    <2>3. ASSUME NEW n \in Nat, n \in S PROVE n + 1 \in S
        <3>1. n + 1 <= Len(s) => ku[n + 1] = ks[n + 1]
            BY <2>2, <2>3
        <3> QED
            BY <3>1
    <2> HIDE DEF S
    <2> QED
        BY <2>1, <2>3, Induct
<1>6. Nat \subseteq T
    <2>1. 0 \in T
        <3>1. ku[Len(s)] = NonZero(s) /\ NonZero(s) \in Seq(Nat)
            BY <1>1, <1>2, <1>5
        <3>2. NonZero(s) \o <<>> = NonZero(s) /\ Len(s) + 0 = Len(s)
            BY <1>1, <3>1, ConcatEmptySeq
        <3> QED
            BY <1>1, <1>3, <3>1, <3>2
    <2>2. ASSUME NEW n \in Nat, n \in T, n + 1 <= Len(t) PROVE ku[Len(s) + n + 1] = NonZero(s) \o kt[n + 1]
        <3>1. /\ n + 1 \in 1..Len(t) /\ Len(s) + n + 1 \in 1..Len(u) /\ u[Len(s) + n + 1] = t[n + 1]
              /\ ku[Len(s) + n] = NonZero(s) \o kt[n] /\ n + 1 - 1 = n /\ Len(s) + n + 1 - 1 = Len(s) + n
            BY <1>1, <2>2, SMTT(30)
        <3>2. NonZero(s) \in Seq(Nat) /\ kt[n] \in Seq(Nat) /\ t[n + 1] \in Nat
            <4>1. n \in 0..Len(t) /\ Len(s) \in 0..Len(s)
                BY <1>1, <2>2
            <4> QED
                BY <1>2, <1>3, <3>1, <4>1
        <3>3. Append(NonZero(s) \o kt[n], t[n + 1]) = NonZero(s) \o Append(kt[n], t[n + 1])
            <4> DEFINE a == NonZero(s)  b == kt[n]  c == t[n + 1]
            <4>1. a \in Seq(Nat) /\ b \in Seq(Nat) /\ c \in Nat
                BY <3>2
            <4> HIDE DEF a, b, c
            <4>2. a \o b \in Seq(Nat) /\ <<c>> \in Seq(Nat)
                BY <4>1, ConcatProperties
            <4>3. Append(a \o b, c) = (a \o b) \o <<c>> /\ Append(b, c) = b \o <<c>>
                BY <4>1, <4>2, AppendIsConcat
            <4>4. (a \o b) \o <<c>> = a \o (b \o <<c>>)
                BY <4>1, <4>2, ConcatAssociative, SMTT(30)
            <4>5. Append(a \o b, c) = a \o Append(b, c)
                BY <4>3, <4>4
            <4> QED
                BY <4>5 DEF a, b, c
        <3>4. /\ kt[n + 1] = IF t[n + 1] = NulByte THEN kt[n] ELSE Append(kt[n], t[n + 1])
              /\ ku[Len(s) + n + 1] = IF u[Len(s) + n + 1] = NulByte THEN ku[Len(s) + n]
                                      ELSE Append(ku[Len(s) + n], u[Len(s) + n + 1])
            <4>1. kt[n + 1] = IF t[n + 1] = NulByte THEN kt[n + 1 - 1] ELSE Append(kt[n + 1 - 1], t[n + 1])
                BY <1>3, <3>1
            <4>2. ku[Len(s) + n + 1] = IF u[Len(s) + n + 1] = NulByte THEN ku[Len(s) + n + 1 - 1]
                                      ELSE Append(ku[Len(s) + n + 1 - 1], u[Len(s) + n + 1])
                BY <1>4, <3>1
            <4> QED
                BY <3>1, <4>1, <4>2
        <3> QED
            BY <3>1, <3>3, <3>4
    <2>3. ASSUME NEW n \in Nat, n \in T PROVE n + 1 \in T
        <3>1. n + 1 <= Len(t) => ku[Len(s) + n + 1] = NonZero(s) \o kt[n + 1]
            BY <2>2, <2>3
        <3>2. Len(s) + n + 1 = Len(s) + (n + 1)
            BY <1>1
        <3> QED
            BY <3>1, <3>2
    <2> HIDE DEF T
    <2> QED
        BY <2>1, <2>3, Induct
<1> QED
    <2>1. Len(s) \in 0..Len(s) /\ Len(t) \in 0..Len(t) /\ Len(t) \in T
        BY <1>1, <1>6
    <2>2. ku[Len(s) + Len(t)] = NonZero(s) \o kt[Len(t)]
        BY <1>1, <2>1
    <2> QED
        BY <1>1, <1>2, <1>3, <1>4, <2>1, <2>2 DEF u

\* Sequences of bytes, joined.
LEMMA Joined ==
    /\ \A a, b \in Seq(Nat) : a \o b \in Seq(Nat)
    /\ \A a \in Seq(Nat) : <<>> \o a = a /\ a \o <<>> = a
    /\ \A a, b, c \in Seq(Nat) : (a \o b) \o c = a \o (b \o c)
BY ConcatProperties, ConcatEmptySeq, ConcatAssociative

LEMMA Single ==
    ASSUME NEW s \in Seq(Nat), Len(s) = 1
    PROVE  s[1] \in Nat /\ s = <<s[1]>>
<1>0. s[1] \in Nat
    <2>1. 1 \in 1..Len(s)
        OBVIOUS
    <2> QED
        BY <2>1, ElementOfSeq
<1>1. <<s[1]>> \in Seq(Nat) /\ Len(<<s[1]>>) = 1 /\ <<s[1]>>[1] = s[1]
    BY <1>0
<1>2. \A n \in 1..Len(s) : s[n] = <<s[1]>>[n]
    BY <1>1
<1> QED
    BY <1>0, <1>1, <1>2, SeqEqual

Programs == {"aupe", "tlpi", "cpstd"}

LEMMA WantedConcat ==
    ASSUME NEW p \in Programs, NEW s \in Seq(Nat), NEW t \in Seq(Nat)
    PROVE  /\ Wanted(p, s) \in Seq(Nat) /\ Wanted(p, t) \in Seq(Nat)
           /\ Wanted(p, s \o t) = Wanted(p, s) \o Wanted(p, t)
BY NonZeroConcat DEF Wanted

LEMMA WantedEmpty == ASSUME NEW p \in Programs PROVE Wanted(p, <<>>) = <<>>
<1>1. PICK kept : kept[0] = <<>> /\ NonZero(<<>>) = kept[Len(<<>>)]
    BY NonZeroDef, EmptySeq
<1> QED
    BY <1>1, EmptySeq DEF Wanted

LEMMA PrefixOf == ASSUME NEW s \in Seq(Nat), NEW t \in Seq(Nat) PROVE IsPrefix(s, s \o t)
<1>1. s \o t \in Seq(Nat) /\ Len(s \o t) = Len(s) + Len(t) /\ Len(s) \in Nat /\ Len(t) \in Nat
      /\ \A n \in 1..Len(s) : (s \o t)[n] = s[n]
    BY ConcatProperties
<1> DEFINE a == SubSeq(s, 1, Len(s))  b == SubSeq(s \o t, 1, Len(s))
<1>2. a = s
    BY SubSeqFull
<1>3. b \in Seq(Nat) /\ Len(b) = Len(s) /\ \A n \in 1..Len(s) : b[n] = (s \o t)[n]
    <2> DEFINE u == s \o t
    <2>1. \A n \in 1..Len(s) : u[n] \in Nat
        BY <1>1
    <2> HIDE DEF u
    <2>2. SubSeq(u, 1, Len(s)) \in Seq(Nat) /\ Len(SubSeq(u, 1, Len(s))) = (IF 1 <= Len(s) THEN Len(s) - 1 + 1 ELSE 0)
          /\ \A n \in 1..(Len(s) - 1 + 1) : SubSeq(u, 1, Len(s))[n] = u[1 + n - 1]
        BY <1>1, <2>1, SubSeqProperties
    <2> QED
        BY <1>1, <2>2 DEF u
<1> HIDE DEF a, b
<1>4. b = s
    BY <1>1, <1>3, SeqEqual
<1> QED
    BY <1>1, <1>2, <1>4 DEF IsPrefix, a, b

\* The first given of a sequence, and the rest.
LEMMA Split ==
    ASSUME NEW s \in Seq(Nat), NEW given \in 0..Len(s)
    PROVE  /\ SubSeq(s, 1, given) \in Seq(Nat) /\ SubSeq(s, given + 1, Len(s)) \in Seq(Nat)
           /\ Len(SubSeq(s, 1, given)) = given
           /\ \A n \in 1..given : SubSeq(s, 1, given)[n] = s[n]
           /\ s = SubSeq(s, 1, given) \o SubSeq(s, given + 1, Len(s))
<1>1. \A n \in 1..Len(s) : s[n] \in Nat
    OBVIOUS
<1>2. /\ SubSeq(s, 1, given) \in Seq(Nat)
      /\ Len(SubSeq(s, 1, given)) = (IF 1 <= given THEN given - 1 + 1 ELSE 0)
      /\ \A n \in 1..(given - 1 + 1) : SubSeq(s, 1, given)[n] = s[1 + n - 1]
    BY <1>1, SubSeqProperties
<1>3. SubSeq(s, given + 1, Len(s)) \in Seq(Nat)
    BY <1>1, SubSeqProperties
<1>4. SubSeq(s, 1, given) \o SubSeq(s, given + 1, Len(s)) = SubSeq(s, 1, Len(s))
    <2>1. 1 \in 1..(Len(s) + 1) /\ given \in (1 - 1)..Len(s) /\ Len(s) \in given..Len(s)
        OBVIOUS
    <2> QED
        BY <2>1, ConcatAdjacentSubSeq
<1>5. SubSeq(s, 1, Len(s)) = s
    BY SubSeqFull
<1>6. Len(SubSeq(s, 1, given)) = given
    BY <1>2
<1>7. \A n \in 1..given : SubSeq(s, 1, given)[n] = s[n]
    <2>1. \A n \in 1..given : n \in 1..(given - 1 + 1) /\ 1 + n - 1 = n
        OBVIOUS
    <2> QED
        BY <1>2, <2>1
<1> QED
    BY <1>2, <1>3, <1>4, <1>5, <1>6, <1>7

CopyEnds == {"running", "done", "failed", "crashed", "quit", "stopped"}
CopyWorks == [rest : Seq(Nat), buff : Seq(Nat), wr_buff : Seq(Nat), dest : Seq(Nat), end : CopyEnds]

CopyInv ==
    command = "copy" =>
    LET p == input.program
    IN  /\ input \in [program : Programs, src : Sources,
                      trouble : {"none", "type", "source", "destination", "same"}]
        /\ work \in CopyWorks
        /\ work.end = "running" =>
              /\ work.wr_buff = <<>>
              /\ input.trouble = "none" =>
                     Wanted(p, input.src) = work.dest \o Wanted(p, work.rest)
              /\ input.trouble = "same" => work.rest = <<>>
        /\ CopyFaithful

LEMMA CopyInit == CopyBegins => CopyInv
<1> SUFFICES ASSUME NEW p \in Programs, NEW src \in Sources, NEW trouble \in Troubles(p),
                    Begins("copy", [program |-> p, src |-> src, trouble |-> trouble],
                           Opened(src, << 1 >>, trouble))
             PROVE  CopyInv
    BY DEF CopyBegins, Programs
<1>1. /\ input = [program |-> p, src |-> src, trouble |-> trouble]
      /\ work = Opened(src, <<1>>, trouble) /\ command = "copy"
    BY DEF Begins
<1>2. /\ src \in Seq(Nat) /\ <<1>> \in Seq(Nat) /\ <<>> \in Seq(Nat)
      /\ trouble \in {"none", "type", "source", "destination", "same"}
    BY SmallAssumption DEF Troubles
<1> DEFINE zeros == [k \in 1..BufferSize |-> NulByte]
           rest == IF trouble = "same" THEN <<>> ELSE src
           bad == trouble \in {"type", "source", "destination"}
<1>3. zeros \in Seq(Nat) /\ rest \in Seq(Nat)
    BY <1>2, FileCopyAssumption, SeqDef DEF NulByte
<1>4. work = [rest |-> rest, buff |-> zeros, wr_buff |-> <<>>, 
              dest |-> IF bad THEN <<1>> ELSE <<>>, end |-> IF bad THEN "failed" ELSE "running"]
    BY <1>1 DEF Opened
<1>5. Wanted(p, src) = <<>> \o Wanted(p, src) /\ IsPrefix(<<>>, Wanted(p, src))
    <2>1. Wanted(p, src) \in Seq(Nat)
        BY <1>2, WantedConcat
    <2> QED
        BY <1>2, <2>1, Joined, PrefixOf, ZenonT(30)
<1> HIDE DEF zeros
<1>6. work \in CopyWorks
    BY <1>2, <1>3, <1>4 DEF CopyWorks, CopyEnds
<1>7. /\ work.rest = rest /\ work.wr_buff = <<>> /\ work.dest = IF bad THEN <<1>> ELSE <<>>
      /\ work.end = IF bad THEN "failed" ELSE "running"
    BY <1>4
<1>8. input \in [program : Programs, src : Sources,
                trouble : {"none", "type", "source", "destination", "same"}]
      /\ input.program = p /\ input.src = src /\ input.trouble = trouble
    BY <1>1, <1>2
<1>9. CopyFaithful
    BY <1>2, <1>5, <1>7, <1>8 DEF CopyFaithful
<1> QED
    BY <1>2, <1>5, <1>6, <1>7, <1>8, <1>9 DEF CopyInv

LEMMA CopyTurnInv == CopyInv /\ CopyGoesOn => CopyInv'
<1> SUFFICES ASSUME CopyInv, NEW a \in Answers, Runs("copy"), Does(Turned(input.program, work, a))
             PROVE  CopyInv'
    BY DEF CopyGoesOn
<1> DEFINE p == input.program  src == input.src
           given == IF a.got < Len(work.rest) THEN a.got ELSE Len(work.rest)
           took == SubSeq(work.rest, 1, given)
           left == SubSeq(work.rest, given + 1, Len(work.rest))
           buff == took \o SubSeq(work.buff, given + 1, Len(work.buff))
           wr == Wanted(p, took)
<1>1. /\ command = "copy" /\ work.end = "running" /\ command' = command /\ input' = input
      /\ work' = Turned(p, work, a) /\ p \in Programs /\ src \in Seq(Nat) /\ work \in CopyWorks
      /\ work.wr_buff = <<>>
      /\ input \in [program : Programs, src : Sources,
                    trouble : {"none", "type", "source", "destination", "same"}]
    BY SmallAssumption DEF Runs, Does, CopyInv
<1>2. input.trouble \in {"none", "same"}
    BY <1>1 DEF CopyInv, CopyFaithful
<1>3. /\ input.trouble = "none" => Wanted(p, src) = work.dest \o Wanted(p, work.rest)
      /\ input.trouble = "same" => work.rest = <<>>
    BY <1>1 DEF CopyInv
<1>4. /\ work.rest \in Seq(Nat) /\ work.dest \in Seq(Nat) /\ work.buff \in Seq(Nat)
      /\ Wanted(p, src) \in Seq(Nat) /\ Len(work.rest) \in Nat
    BY <1>1, WantedConcat DEF CopyWorks
<1>5. CASE a.got = -1
    <2>1. work' = work \/ \E e \in {"crashed", "stopped"} : work' = [work EXCEPT !.end = e]
        BY <1>1, <1>5 DEF Turned, ReadFailed, Programs
    <2> QED
        BY <1>1, <1>2, <2>1 DEF CopyInv, CopyFaithful, CopyWorks, CopyEnds
<1>6. CASE a.got # -1 /\ given = 0
    <2>1. work' = [work EXCEPT !.end = "done"]
        BY <1>1, <1>6 DEF Turned
    <2>2. work.rest = <<>>
        BY <1>4, <1>6, FileCopyAssumption DEF Answers
    <2>3. input.trouble = "none" => Wanted(p, src) = work.dest
        BY <1>1, <1>3, <1>4, <2>2, WantedEmpty, ConcatEmptySeq
    <2> QED
        BY <1>1, <1>2, <2>1, <2>3 DEF CopyInv, CopyFaithful, CopyWorks, CopyEnds
<1>7. CASE a.got # -1 /\ given # 0
    <2>1. given \in 1..Len(work.rest)
        BY <1>4, <1>7, FileCopyAssumption DEF Answers
    <2>2. input.trouble = "none"
        BY <1>2, <1>3, <2>1, EmptySeq
    <2>3. /\ took \in Seq(Nat) /\ left \in Seq(Nat) /\ Len(took) = given /\ took[1] = work.rest[1]
          /\ work.rest = took \o left
        <3>1. given \in 0..Len(work.rest)
            BY <1>4, <2>1
        <3> HIDE DEF given
        <3> QED
            BY <1>4, <2>1, <3>1, Split
    <2>4. SubSeq(work.buff, given + 1, Len(work.buff)) \in Seq(Nat)
        <3>1. \A n \in (given + 1)..Len(work.buff) : work.buff[n] \in Nat
            BY <1>4, <2>1, SMTT(30)
        <3> QED
            BY <1>4, <2>1, <3>1, SubSeqProperties
    <2>5. buff \in Seq(Nat) /\ buff[1] = took[1]
        <3>1. Len(SubSeq(work.buff, given + 1, Len(work.buff))) \in Nat
            BY <2>4
        <3> QED
            BY <2>1, <2>3, <2>4, <3>1, ConcatProperties
    <2>6. <<>> \o wr = wr /\ wr \in Seq(Nat) /\ Wanted(p, left) \in Seq(Nat)
        <3>1. Wanted(p, took) \in Seq(Nat) /\ Wanted(p, left) \in Seq(Nat)
            <4> HIDE DEF took, left
            <4> QED
                BY <1>1, <2>3, WantedConcat
        <3> QED
            BY <3>1, Joined
    <2>7. Wanted(p, src) = work.dest \o (wr \o Wanted(p, left))
        <3>1. Wanted(p, work.rest) = Wanted(p, took) \o Wanted(p, left)
            <4> HIDE DEF took, left
            <4> QED
                BY <1>1, <2>3, WantedConcat
        <3> HIDE DEF took, left
        <3> QED
            BY <1>3, <2>2, <3>1
    <2> DEFINE read == [work EXCEPT !.rest = left, !.buff = buff, !.wr_buff = wr]
    <2>8. work' = IF Quits(p, read.buff) THEN [read EXCEPT !.end = "quit"]
                  ELSE Reset(IF read.wr_buff = <<>> THEN read ELSE Write(p, read, a.put))
        BY <1>1, <1>7, <2>6 DEF Turned, CopyWorks
    <2>9. read \in CopyWorks /\ read.buff = buff /\ read.rest = left /\ read.dest = work.dest
          /\ read.wr_buff = wr /\ read.end = "running"
        BY <1>1, <2>3, <2>5, <2>6 DEF CopyWorks
    <2> HIDE DEF read, took, left, buff, wr, given
    <2>10. IsPrefix(work.dest, Wanted(p, src))
        BY <1>4, <2>6, <2>7, ConcatProperties, PrefixOf
    <2>11. CASE Quits(p, read.buff)
        <3>1. p = "cpstd" /\ IsPrefix(ExitFlag, buff)
            BY <2>9, <2>11 DEF Quits
        <3>2. buff[1] = 1
            <4>1. ExitFlag \in Seq(Nat) /\ Len(ExitFlag) = 2 /\ ExitFlag[1] = 1
                BY DEF ExitFlag
            <4>2. SubSeq(ExitFlag, 1, 2) = SubSeq(buff, 1, 2) /\ 2 <= Len(buff)
                BY <3>1, <4>1 DEF IsPrefix
            <4>3. SubSeq(ExitFlag, 1, 2)[1] = 1 /\ SubSeq(buff, 1, 2)[1] = buff[1]
                BY <2>5, <4>1, <4>2, Split
            <4> QED
                BY <4>2, <4>3
        <3>3. Wanted(p, work.rest) = work.rest /\ Wanted(p, src) = work.dest \o work.rest
            BY <1>3, <2>2, <3>1 DEF Wanted
        <3>4. IsPrefix(Append(work.dest, 1), Wanted(p, src))
            <4> DEFINE one == SubSeq(work.rest, 1, 1)  more == SubSeq(work.rest, 2, Len(work.rest))
            <4>1. one \in Seq(Nat) /\ more \in Seq(Nat) /\ Len(one) = 1 /\ one[1] = 1 /\ work.rest = one \o more
                <5>1. 1 \in 0..Len(work.rest) /\ work.rest[1] = 1
                    BY <1>4, <2>1, <2>3, <2>5, <3>2
                <5>2. one \in Seq(Nat) /\ Len(one) = 1 /\ one[1] = work.rest[1]
                    BY <1>4, <5>1, Split
                <5>3. more \in Seq(Nat) /\ work.rest = one \o more
                    <6>1. SubSeq(work.rest, 1 + 1, Len(work.rest)) \in Seq(Nat)
                          /\ work.rest = SubSeq(work.rest, 1, 1) \o SubSeq(work.rest, 1 + 1, Len(work.rest))
                        BY <1>4, <5>1, Split
                    <6> QED
                        BY <6>1
                <5> QED
                    BY <5>1, <5>2, <5>3
            <4>2. one = <<1>>
                <5> HIDE DEF one
                <5> QED
                    BY <4>1, Single
            <4> HIDE DEF one, more
            <4>3. Append(work.dest, 1) = work.dest \o one /\ Append(work.dest, 1) \in Seq(Nat)
                <5>1. 1 \in Nat
                    OBVIOUS
                <5> QED
                    BY <1>4, <4>2, <5>1, AppendIsConcat, AppendProperties
            <4>4. Wanted(p, src) = Append(work.dest, 1) \o more
                <5>1. (work.dest \o one) \o more = work.dest \o (one \o more)
                    BY <1>4, <4>1, Joined, ZenonT(30)
                <5> QED
                    BY <3>3, <4>1, <4>3, <5>1
            <4> QED
                BY <4>1, <4>3, <4>4, PrefixOf
        <3>5. work' \in CopyWorks /\ work'.end = "quit" /\ work'.dest = work.dest
            BY <2>8, <2>9, <2>11 DEF CopyWorks, CopyEnds
        <3> QED
            BY <1>1, <2>2, <2>10, <3>4, <3>5 DEF CopyInv, CopyFaithful, ExitFlag
    <2>12. CASE ~Quits(p, read.buff) /\ wr = <<>>
        <3>1. work' = [read EXCEPT !.wr_buff = <<>>]
            BY <2>8, <2>9, <2>12 DEF Reset
        <3>2. Wanted(p, src) = work.dest \o Wanted(p, left)
            BY <2>6, <2>7, <2>12, ConcatEmptySeq
        <3> QED
            BY <1>1, <2>2, <2>6, <2>9, <2>10, <2>12, <3>1, <3>2 DEF CopyInv, CopyFaithful, CopyWorks
    <2>13. CASE ~Quits(p, read.buff) /\ wr # <<>>
        <3>1. work' = [Write(p, read, a.put) EXCEPT !.wr_buff = <<>>]
            BY <2>8, <2>9, <2>13 DEF Reset
        <3> DEFINE front == Front(wr)
        <3>2. front \in Seq(Nat) /\ \E x \in Nat : wr = front \o <<x>>
            <4>1. /\ Len(wr) - 1 \in 0..Len(wr)
                BY <2>6, <2>13
            <4> DEFINE end == SubSeq(wr, Len(wr) - 1 + 1, Len(wr))
            <4>2. front \in Seq(Nat) /\ wr = front \o end /\ end \in Seq(Nat)
                BY <2>6, <4>1, Split DEF Front
            <4>3. Len(end) = 1
                <5>1. Len(front) = Len(wr) - 1
                    BY <2>6, <4>1, Split DEF Front
                <5>2. Len(front \o end) = Len(front) + Len(end) /\ Len(end) \in Nat
                    BY <4>2, ConcatProperties
                <5>3. Len(wr) = Len(front \o end)
                    BY <4>2
                <5>4. Len(wr) \in Nat
                    BY <2>6
                <5> HIDE DEF end, front
                <5> QED
                    BY <5>1, <5>2, <5>3, <5>4, SMTT(30)
            <4>4. end = <<end[1]>> /\ end[1] \in Nat
                <5> HIDE DEF end
                <5> QED
                    BY <4>2, <4>3, Single
            <4> QED
                BY <4>2, <4>4
        <3> HIDE DEF front
        <3>3. CASE a.put = "all"
            <4>1. work' = [read EXCEPT !.dest = work.dest \o wr, !.wr_buff = <<>>]
                BY <2>9, <3>1, <3>3 DEF Write, CopyWorks
            <4>2. work.dest \o wr \in Seq(Nat)
                BY <1>4, <2>6, ConcatProperties
            <4>3. Wanted(p, src) = (work.dest \o wr) \o Wanted(p, left)
                BY <1>4, <2>6, <2>7, Joined, ZenonT(30)
            <4>4. IsPrefix(work.dest \o wr, Wanted(p, src))
                BY <2>6, <4>2, <4>3, PrefixOf
            <4>5. work' \in CopyWorks /\ work'.end = "running" /\ work'.dest = work.dest \o wr 
                  /\ work'.rest = left /\ work'.wr_buff = <<>>
                BY <2>9, <4>1, <4>2, EmptySeq DEF CopyWorks
            <4> QED
                BY <1>1, <2>2, <4>3, <4>4, <4>5 DEF CopyInv, CopyFaithful
        <3>4. CASE a.put = "some"
            <4>1. PICK x \in Nat : wr = front \o <<x>>
                BY <3>2
            <4>2. PICK e \in {"stopped", "failed"} :
                     work' = [read EXCEPT !.dest = work.dest \o front, !.end = e, !.wr_buff = <<>>]
                BY <2>9, <3>1, <3>4 DEF Write, CopyWorks, front
            <4>3. work.dest \o front \in Seq(Nat) /\ <<x>> \in Seq(Nat) /\ <<x>> \o Wanted(p, left) \in Seq(Nat)
                BY <1>4, <2>6, <3>2, ConcatProperties
            <4>4. wr \o Wanted(p, left) = front \o (<<x>> \o Wanted(p, left))
                BY <2>6, <3>2, <4>1, <4>3, Joined
            <4>5. Wanted(p, src) = (work.dest \o front) \o (<<x>> \o Wanted(p, left))
                <5>1. (work.dest \o front) \o (<<x>> \o Wanted(p, left))
                         = work.dest \o (front \o (<<x>> \o Wanted(p, left)))
                    <6> DEFINE u == <<x>> \o Wanted(p, left)
                    <6>1. u \in Seq(Nat)
                        BY <4>3
                    <6> HIDE DEF u
                    <6>2. (work.dest \o front) \o u = work.dest \o (front \o u)
                        BY <1>4, <3>2, <6>1, Joined, ZenonT(30)
                    <6> QED
                        BY <6>2 DEF u
                <5> QED
                    BY <2>7, <4>4, <5>1
            <4>6. IsPrefix(work.dest \o front, Wanted(p, src))
                BY <4>3, <4>5, PrefixOf
            <4>7. work' \in CopyWorks /\ work'.end = e /\ work'.dest = work.dest \o front
                BY <2>9, <4>2, <4>3, EmptySeq DEF CopyWorks, CopyEnds
            <4> QED
                BY <1>1, <2>2, <4>6, <4>7 DEF CopyInv, CopyFaithful
        <3>5. CASE a.put = "none"
            <4>1. PICK e \in {"stopped", "failed"} : work' = [read EXCEPT !.end = e, !.wr_buff = <<>>]
                BY <2>9, <3>1, <3>5 DEF Write, CopyWorks
            <4>2. work' \in CopyWorks /\ work'.end = e /\ work'.dest = work.dest
                BY <2>9, <4>1, EmptySeq DEF CopyWorks, CopyEnds
            <4> QED
                BY <1>1, <2>2, <2>10, <4>2 DEF CopyInv, CopyFaithful
        <3> QED
            BY <3>3, <3>4, <3>5 DEF Answers
    <2> QED
        BY <2>11, <2>12, <2>13
<1> QED
    BY <1>5, <1>6, <1>7

LEMMA CopyOthers == CopyInv /\ (WalkGoesOn \/ OptionsGoOn \/ ListGoesOn \/ Dup2GoesOn) => CopyInv'
BY DEF CopyInv, WalkGoesOn, WalkTurn, WalkReturns, WalkCrashes, InLoop, OptionsGoOn, OptionTurn, OptionsEnd,
       ListGoesOn, ListTurn, ListEnds, Dup2GoesOn, DupTurn, CloseTurn, Dup2Returns, Runs, Does

\* Whatever the source and however read and write split its bytes, a copy holds a
\* beginning of what its program keeps of the source, and all of that when it is done.
THEOREM CopyCorrect == SmallSpec => []CopyFaithful
<1>1. SmallInit => CopyInv
    BY CopyInit DEF SmallInit, WalkBegins, OptionsBegin, ListBegins, Dup2Begins, Begins, CopyInv
<1>2. CopyInv /\ [SmallNext]_smallVars => CopyInv'
    <2>1. CopyInv /\ UNCHANGED smallVars => CopyInv'
        BY DEF smallVars, CopyInv, CopyFaithful
    <2> QED
        BY <2>1, CopyTurnInv, CopyOthers DEF SmallNext
<1>3. CopyInv => CopyFaithful
    BY DEF CopyInv, CopyFaithful
<1> QED
    BY <1>1, <1>2, <1>3, PTL DEF SmallSpec

-----------------------------------------------------------------------------
(***************************************************************************)
(* dup2_ex, for any number of descriptors and any that are open.           *)
(***************************************************************************)
\* fds with newfd closed, and what is free of it below m opened on the file of oldfd.
Filled(fds, oldfd, newfd, m) ==
    [fd \in Fds |->
        IF fd = newfd THEN IF fd < m THEN fds[oldfd] ELSE NoFile
        ELSE IF fds[fd] = NoFile /\ fd < m THEN fds[oldfd] ELSE fds[fd]]

\* fd is one that begin_fd has come by, on its way from oldfd or again from 0.
Passed(oldfd, begin, fd) ==
    IF oldfd <= begin THEN oldfd <= fd /\ fd < begin ELSE oldfd <= fd \/ fd < begin

Emptied(fds, oldfd, newfd, begin) ==
    [fd \in Fds |-> IF Passed(oldfd, begin, fd) THEN NoFile
                    ELSE Filled(fds, oldfd, newfd, newfd + 1)[fd]]

Dup2Works ==
    [fds : FdTables, cur_fd : Int, begin_fd : Int, ret : Int, end : {"running", "returned", "endless"}]

DupInv ==
    command = "dup2" =>
    LET fds == input.fds  oldfd == input.oldfd  newfd == input.newfd
    IN  /\ input \in [fds : FdTables, oldfd : -1..OpenMax, newfd : -1..OpenMax]
        /\ work \in Dup2Works
        /\ work.end = "running" =>
              /\ oldfd >= 0 /\ newfd >= 0 /\ oldfd # newfd
              /\ IF work.cur_fd # newfd
                 THEN /\ work.begin_fd = oldfd
                      /\ \E m \in 0..newfd : work.fds = Filled(fds, oldfd, newfd, m)
                 ELSE /\ newfd < OpenMax /\ Open(fds, oldfd)
                      /\ work.begin_fd \in 0..OpenMax
                      /\ oldfd < newfd => oldfd <= work.begin_fd /\ work.begin_fd <= newfd
                      /\ newfd < oldfd => oldfd <= work.begin_fd \/ work.begin_fd <= newfd
                      /\ work.fds = Emptied(fds, oldfd, newfd, work.begin_fd)
        /\ ReplacedAsTold

LEMMA DupInit == Dup2Begins => DupInv
<1> SUFFICES ASSUME NEW fds \in FdTables, NEW oldfd \in -1..OpenMax, NEW newfd \in -1..OpenMax,
                    Begins("dup2", [fds |-> fds, oldfd |-> oldfd, newfd |-> newfd], Dup2Ex(fds, oldfd, newfd))
             PROVE  DupInv
    BY DEF Dup2Begins
<1>1. /\ input = [fds |-> fds, oldfd |-> oldfd, newfd |-> newfd]
      /\ work = Dup2Ex(fds, oldfd, newfd)
    BY DEF Begins
<1>2. fds \in FdTables /\ OpenMax \in Nat \ {0}
    BY Dup2Assumption
<1>3. CloseFd(fds, newfd) \in FdTables /\ CloseFd(fds, newfd) = Filled(fds, oldfd, newfd, 0)
    BY <1>2 DEF CloseFd, Filled, FdTables, Fds
<1>4. CASE oldfd < 0 \/ newfd < 0 \/ oldfd = newfd
    <2>1. /\ work \in Dup2Works /\ work.end = "returned" /\ work.fds = fds
          /\ work.ret = IF oldfd < 0 \/ newfd < 0 THEN -1 ELSE newfd
        <3> DEFINE ret == IF oldfd < 0 \/ newfd < 0 THEN -1 ELSE newfd
        <3>1. work = [fds |-> fds, cur_fd |-> oldfd, begin_fd |-> oldfd, ret |-> ret, end |-> "returned"]
            BY <1>1, <1>4 DEF Dup2Ex
        <3>2. ret \in Int
            BY <1>2
        <3> QED
            BY <3>1, <3>2, <1>2 DEF Dup2Works
    <2> QED
        BY <1>1, <1>2, <1>4, <2>1 DEF DupInv, ReplacedAsTold
<1>5. CASE ~ (oldfd < 0 \/ newfd < 0 \/ oldfd = newfd)
    <2>1. work = [fds |-> CloseFd(fds, newfd), cur_fd |-> oldfd, begin_fd |-> oldfd, ret |-> -1, end |-> "running"]
        BY <1>1, <1>5 DEF Dup2Ex
    <2> QED
        BY <1>1, <1>2, <1>3, <1>5, <2>1 DEF DupInv, ReplacedAsTold, Dup2Works, FdTables
<1> QED
    BY <1>4, <1>5

LEMMA DupTurnInv == DupInv /\ DupTurn => DupInv'
<1> SUFFICES ASSUME DupInv, DupTurn PROVE DupInv'
    OBVIOUS
<1> DEFINE fds == input.fds  oldfd == input.oldfd  newfd == input.newfd
<1>1. /\ command = "dup2" /\ work.end = "running" /\ work.cur_fd # newfd
      /\ work' = Dupped(work, oldfd) /\ command' = command /\ input' = input
    BY DEF DupTurn, Runs, Does
<1>2. /\ input \in [fds : FdTables, oldfd : -1..OpenMax, newfd : -1..OpenMax]
      /\ work \in Dup2Works /\ OpenMax \in Nat \ {0}
      /\ fds \in FdTables /\ oldfd \in Nat /\ newfd \in 0..OpenMax /\ oldfd # newfd
      /\ work.begin_fd = oldfd
    BY <1>1, Dup2Assumption DEF DupInv, FdTables
<1>3. PICK m \in 0..newfd : work.fds = Filled(fds, oldfd, newfd, m)
    BY <1>1 DEF DupInv, FdTables
<1>4. CASE ~ (Open(work.fds, oldfd) /\ Free(work.fds) # {})
    <2>1. work' = [work EXCEPT !.cur_fd = -1]
        BY <1>1, <1>4 DEF Dupped
    <2> QED
        BY <1>1, <1>2, <1>3, <2>1 DEF DupInv, ReplacedAsTold, Dup2Works, FdTables
<1>5. CASE Open(work.fds, oldfd) /\ Free(work.fds) # {}
    <2> DEFINE cur == Min(Free(work.fds))
    <2>1. work' = [work EXCEPT !.cur_fd = cur, !.fds = [work.fds EXCEPT ![cur] = work.fds[oldfd]]]
        BY <1>1, <1>2, <1>5 DEF Dupped, Dup2Works, FdTables
    <2>2. /\ cur \in Fds /\ work.fds[cur] = NoFile
          /\ \A y \in Fds : work.fds[y] = NoFile => cur <= y
        <3>1. Free(work.fds) \in SUBSET Nat /\ Free(work.fds) = {y \in Fds : work.fds[y] = NoFile}
            BY <1>2 DEF Free, Dup2Works, Fds, FdTables
        <3> QED
            BY <3>1, <1>5, Minimum
    <2>3. /\ oldfd \in Fds /\ fds[oldfd] # NoFile /\ work.fds[oldfd] = fds[oldfd]
        BY <1>2, <1>3, <1>5 DEF Open, Filled, FdTables
    <2>4. \A y \in Fds : work.fds[y] = (IF y = newfd THEN IF y < m THEN fds[oldfd] ELSE NoFile
                             ELSE IF fds[y] = NoFile /\ y < m THEN fds[oldfd] ELSE fds[y])
        BY <1>3 DEF Filled, FdTables
    <2>5. cur <= newfd /\ m <= cur
        BY <1>2, <2>2, <2>3, <2>4 DEF Fds
    <2>6. [work.fds EXCEPT ![cur] = work.fds[oldfd]] = Filled(fds, oldfd, newfd, cur + 1)
        <3>1. work.fds \in FdTables
            BY <1>2 DEF Dup2Works, FdTables
        <3>2. ASSUME NEW y \in Fds
              PROVE  [work.fds EXCEPT ![cur] = work.fds[oldfd]][y] = Filled(fds, oldfd, newfd, cur + 1)[y]
            BY <1>2, <2>2, <2>3, <2>4, <2>5, <3>1 DEF Filled, Fds, FdTables
        <3> QED
            BY <3>1, <3>2 DEF Filled, FdTables
    <2>7. Filled(fds, oldfd, newfd, cur + 1) \in FdTables
        BY <1>2, <2>3 DEF Filled, FdTables
    <2>8. work' \in Dup2Works /\ work'.end = "running" /\ work'.cur_fd = cur /\ work'.begin_fd = oldfd
          /\ work'.fds = Filled(fds, oldfd, newfd, cur + 1)
        <3>1. cur \in Int
            BY <1>2, <2>2 DEF Fds
        <3>2. work' = [work EXCEPT !.cur_fd = cur, !.fds = Filled(fds, oldfd, newfd, cur + 1)]
            BY <2>1, <2>6
        <3> HIDE DEF cur
        <3> QED
            BY <1>1, <1>2, <2>7, <3>1, <3>2 DEF Dup2Works
    <2>9. CASE cur = newfd
        <3>1. Filled(fds, oldfd, newfd, cur + 1) = Emptied(fds, oldfd, newfd, oldfd)
            BY <1>2, <2>9 DEF Filled, Emptied, Passed, Fds, FdTables
        <3> QED
            BY <1>1, <1>2, <2>2, <2>3, <2>8, <2>9, <3>1 DEF DupInv, ReplacedAsTold, Open, Fds, FdTables
    <2>10. CASE cur # newfd
        <3>1. cur + 1 \in 0..newfd
            BY <1>2, <2>2, <2>5, <2>10 DEF Fds
        <3> QED
            BY <1>1, <1>2, <2>2, <2>3, <2>8, <2>10, <3>1 DEF DupInv, ReplacedAsTold, FdTables
    <2> QED
        BY <2>9, <2>10
<1> QED
    BY <1>4, <1>5

LEMMA CloseTurnInv == DupInv /\ CloseTurn => DupInv'
<1> SUFFICES ASSUME DupInv, CloseTurn PROVE DupInv'
    OBVIOUS
<1> DEFINE fds == input.fds  oldfd == input.oldfd  newfd == input.newfd
           begin == work.begin_fd
<1>1. /\ command = "dup2" /\ work.end = "running" /\ work.cur_fd = newfd /\ begin # newfd
      /\ work' \in ClosedNext(work) /\ command' = command /\ input' = input
    BY DEF CloseTurn, Runs, Does, Reached
<1>2. /\ input \in [fds : FdTables, oldfd : -1..OpenMax, newfd : -1..OpenMax]
      /\ work \in Dup2Works /\ OpenMax \in Nat \ {0}
      /\ fds \in FdTables /\ oldfd \in Nat /\ newfd \in Nat /\ oldfd # newfd
      /\ newfd < OpenMax /\ Open(fds, oldfd) /\ begin \in 0..OpenMax
      /\ oldfd < newfd => oldfd <= begin /\ begin <= newfd
      /\ newfd < oldfd => oldfd <= begin \/ begin <= newfd
      /\ work.fds = Emptied(fds, oldfd, newfd, begin)
    BY <1>1, Dup2Assumption DEF DupInv, FdTables, Dup2Works
<1>3. oldfd < OpenMax
    BY <1>2 DEF Open, FdTables, Fds
<1>4. CASE begin = OpenMax /\ work' = [work EXCEPT !.end = "endless"]
    <2>1. work' \in Dup2Works /\ work'.end = "endless"
        BY <1>2, <1>4 DEF Dup2Works, FdTables
    <2> QED
        BY <1>1, <1>2, <2>1 DEF DupInv, ReplacedAsTold
<1>5. CASE begin = OpenMax /\ work' = [work EXCEPT !.begin_fd = 0]
    <2>1. Emptied(fds, oldfd, newfd, 0) = Emptied(fds, oldfd, newfd, OpenMax)
        BY <1>2, <1>3, <1>5 DEF Emptied, Passed, Fds
    <2>2. work' \in Dup2Works /\ work'.end = "running" /\ work'.cur_fd = newfd
          /\ work'.begin_fd = 0 /\ work'.fds = Emptied(fds, oldfd, newfd, 0)
        BY <1>1, <1>2, <1>5, <2>1 DEF Dup2Works, FdTables
    <2> QED
        BY <1>1, <1>2, <1>5, <2>2 DEF DupInv, ReplacedAsTold
<1>6. CASE begin # OpenMax /\ work' = [work EXCEPT !.fds = CloseFd(work.fds, begin), !.begin_fd = begin + 1]
    <2>1. CloseFd(work.fds, begin) = Emptied(fds, oldfd, newfd, begin + 1)
        BY <1>1, <1>2, <1>6 DEF CloseFd, Emptied, Passed, Fds
    <2>2. CloseFd(work.fds, begin) \in FdTables
        BY <1>2 DEF CloseFd, Dup2Works, FdTables
    <2>3. work' \in Dup2Works /\ work'.end = "running" /\ work'.cur_fd = newfd
          /\ work'.begin_fd = begin + 1 /\ work'.fds = Emptied(fds, oldfd, newfd, begin + 1)
        <3> DEFINE next == CloseFd(work.fds, begin)
        <3>1. begin + 1 \in Int /\ next \in FdTables
            BY <1>2, <2>2
        <3>2. work' = [work EXCEPT !.fds = next, !.begin_fd = begin + 1]
            BY <1>6
        <3> HIDE DEF next
        <3>3. work' \in Dup2Works /\ work'.end = "running" /\ work'.cur_fd = newfd
              /\ work'.begin_fd = begin + 1 /\ work'.fds = next
            BY <1>1, <1>2, <3>1, <3>2 DEF Dup2Works
        <3> QED
            BY <2>1, <3>3 DEF next
    <2>4. /\ begin + 1 \in 0..OpenMax
          /\ oldfd < newfd => oldfd <= begin + 1 /\ begin + 1 <= newfd
          /\ newfd < oldfd => oldfd <= begin + 1 \/ begin + 1 <= newfd
        BY <1>1, <1>2, <1>6
    <2> QED
        BY <1>1, <1>2, <2>3, <2>4 DEF DupInv, ReplacedAsTold
<1> QED
    <2>1. CASE begin = OpenMax
        BY <1>1, <1>4, <1>5, <2>1 DEF ClosedNext, Overflowed
    <2>2. CASE begin # OpenMax
        BY <1>1, <1>2, <1>6, <2>2 DEF ClosedNext, Dup2Works, FdTables
    <2> QED
        BY <2>1, <2>2

LEMMA Dup2ReturnsInv == DupInv /\ Dup2Returns => DupInv'
<1> SUFFICES ASSUME DupInv, Dup2Returns PROVE DupInv'
    OBVIOUS
<1> DEFINE fds == input.fds  oldfd == input.oldfd  newfd == input.newfd
<1>1. /\ command = "dup2" /\ work.end = "running" /\ work.cur_fd = newfd /\ work.begin_fd = newfd
      /\ work' = [work EXCEPT !.ret = newfd, !.end = "returned"] /\ command' = command /\ input' = input
    BY DEF Dup2Returns, Runs, Does, Reached
<1>2. /\ input \in [fds : FdTables, oldfd : -1..OpenMax, newfd : -1..OpenMax]
      /\ work \in Dup2Works /\ OpenMax \in Nat \ {0}
      /\ fds \in FdTables /\ oldfd \in Nat /\ newfd \in Nat /\ oldfd # newfd
      /\ newfd < OpenMax /\ Open(fds, oldfd)
      /\ work.fds = Emptied(fds, oldfd, newfd, newfd)
    BY <1>1, Dup2Assumption DEF DupInv, FdTables
<1> DEFINE told == KernelDup2(fds, oldfd, newfd)
<1>3. /\ told = [ret |-> newfd, fds |-> [fds EXCEPT ![newfd] = fds[oldfd]]]
      /\ told.ret = newfd /\ told.fds[newfd] = fds[oldfd]
    BY <1>2 DEF KernelDup2, Fds, FdTables
<1> HIDE DEF told
<1>6. Emptied(fds, oldfd, newfd, newfd) =
         [fd \in DOMAIN fds |->
                    CASE fd = newfd -> told.fds[fd]
                      [] fd \in Between(oldfd, newfd) -> NoFile
                      [] fd < oldfd /\ oldfd < newfd /\ fds[fd] = NoFile -> fds[oldfd]
                      [] OTHER -> fds[fd]]
    <2>1. ASSUME NEW fd \in Fds
          PROVE  /\ fd # newfd => (Passed(oldfd, newfd, fd) <=> fd \in Between(oldfd, newfd))
                 /\ fd = newfd => ~Passed(oldfd, newfd, fd)
        BY <1>2 DEF Passed, Between, Fds, Open, FdTables
    <2>2. DOMAIN fds = Fds
        BY <1>2 DEF FdTables
    <2>3. ASSUME NEW fd \in Fds
          PROVE  Emptied(fds, oldfd, newfd, newfd)[fd] =
                 CASE fd = newfd -> told.fds[fd]
                   [] fd \in Between(oldfd, newfd) -> NoFile
                   [] fd < oldfd /\ oldfd < newfd /\ fds[fd] = NoFile -> fds[oldfd]
                   [] OTHER -> fds[fd]
        <3>1. Emptied(fds, oldfd, newfd, newfd)[fd] =
                 IF Passed(oldfd, newfd, fd) THEN NoFile ELSE Filled(fds, oldfd, newfd, newfd + 1)[fd]
            BY DEF Emptied
        <3>2. Filled(fds, oldfd, newfd, newfd + 1)[fd] =
                 IF fd = newfd THEN fds[oldfd]
                 ELSE IF fds[fd] = NoFile /\ fd < newfd THEN fds[oldfd] ELSE fds[fd]
            BY <1>2 DEF Filled, Fds
        <3>3. /\ fd # newfd => (Passed(oldfd, newfd, fd) <=> fd \in Between(oldfd, newfd))
              /\ fd = newfd => ~Passed(oldfd, newfd, fd)
            BY <2>1
        <3>4. /\ fd < newfd /\ fd \notin Between(oldfd, newfd) => fd < oldfd /\ oldfd < newfd
              /\ fd < oldfd /\ oldfd < newfd => fd < newfd /\ fd # newfd /\ fd \notin Between(oldfd, newfd)
              /\ newfd \notin Between(oldfd, newfd)
            BY <1>2 DEF Between, Fds
        <3>5. CASE fd = newfd
            BY <1>2, <1>3, <3>1, <3>2, <3>3, <3>4, <3>5
        <3>6. CASE fd # newfd /\ fd \in Between(oldfd, newfd)
            BY <3>1, <3>3, <3>4, <3>6
        <3>7. CASE fd # newfd /\ fd \notin Between(oldfd, newfd) /\ fd < oldfd /\ oldfd < newfd /\ fds[fd] = NoFile
            BY <3>1, <3>2, <3>3, <3>4, <3>7
        <3>8. CASE fd # newfd /\ fd \notin Between(oldfd, newfd) /\ ~ (fd < oldfd /\ oldfd < newfd /\ fds[fd] = NoFile)
            <4>1. Emptied(fds, oldfd, newfd, newfd)[fd] = fds[fd]
                BY <3>1, <3>2, <3>3, <3>4, <3>8
            <4> QED
                BY <3>8, <4>1
        <3> QED
            BY <3>5, <3>6, <3>7, <3>8
    <2>4. Emptied(fds, oldfd, newfd, newfd) = [fd \in Fds |-> Emptied(fds, oldfd, newfd, newfd)[fd]]
        BY DEF Emptied
    <2> QED
        BY <2>2, <2>3, <2>4
<1>4. work' \in Dup2Works /\ work'.end = "returned" /\ work'.ret = newfd /\ work'.fds = work.fds
    BY <1>1, <1>2 DEF Dup2Works, FdTables
<1>5. ReplacedAsTold'
    BY <1>1, <1>2, <1>3, <1>4, <1>6 DEF ReplacedAsTold, told
<1> QED
    BY <1>1, <1>2, <1>4, <1>5 DEF DupInv, FdTables

LEMMA Dup2Others == DupInv /\ (WalkGoesOn \/ OptionsGoOn \/ ListGoesOn \/ CopyGoesOn) => DupInv'
BY DEF DupInv, WalkGoesOn, WalkTurn, WalkReturns, WalkCrashes, InLoop, OptionsGoOn, OptionTurn, OptionsEnd, 
       ListGoesOn, ListTurn, ListEnds, CopyGoesOn, Runs, Does

\* Whatever the process has open and whatever becomes of the overflow, dup2_ex returns
\* only where dup2 would have replaced newfd; it has replaced it then, but closed every
\* descriptor its second loop came by, and may have opened the free ones below oldfd.
THEOREM ReplacedCorrect == SmallSpec => []ReplacedAsTold
<1>1. SmallInit => DupInv
    BY DupInit DEF SmallInit, WalkBegins, OptionsBegin, ListBegins, CopyBegins, Begins, DupInv
<1>2. DupInv /\ [SmallNext]_smallVars => DupInv'
    <2>1. DupInv /\ UNCHANGED smallVars => DupInv'
        BY DEF smallVars, DupInv, ReplacedAsTold
    <2> QED
        BY <2>1, DupTurnInv, CloseTurnInv, Dup2ReturnsInv, Dup2Others DEF SmallNext, Dup2GoesOn
<1>3. DupInv => ReplacedAsTold
    BY DEF DupInv, ReplacedAsTold
<1> QED
    BY <1>1, <1>2, <1>3, PTL DEF SmallSpec
=============================================================================
