----------------------- MODULE IterativeServerProofs -----------------------
(***************************************************************************)
(* Theorems about the select client and the iterative server, for any      *)
(* number of clients, of lines and sizes of the sockets' buffers.          *)
(***************************************************************************)
EXTENDS IterativeServerProperties, TcpServiceProofs

\* A client that turned to its standard input has just left room for an answer,
\* or found none: if the server has filled that room since, it has also read.
Polite ==
    \A c \in Clients :
        at[c] \in {"stdin", "send"} /\ conn[c] = "writing" /\ answers[c] = Outbox
            => Len(inbox[c]) < Inbox

\* What is left of a closed connection is of a closed connection.
RestInv == \A c \in Clients : rest[c] > 0 => conn[c] = "left"

\* No inbox holds more than fits.
FitInv == \A c \in Clients : Len(inbox[c]) <= Inbox

IInv == TypeOK /\ Polite /\ RestInv /\ FitInv

LEMMA InitInv == Init => IInv
<1> SUFFICES ASSUME Init PROVE IInv
    OBVIOUS
<1> USE DEF Init, ClientInit, ServiceInit
<1>1. 0 \in 0..Outbox /\ "no" \in Resets
    BY ServiceAssumption DEF Resets
<1>2. ServiceTypeOK
    <2>1. <<>> \in Seq(Message) /\ "away" \in Stages
        BY DEF Stages
    <2> QED
        BY <1>1, <2>1 DEF ServiceTypeOK
<1>3. TypeOK
    BY <1>1, <1>2, ServiceAssumption, LinesAssumption DEF TypeOK, Working
<1>4. Polite /\ RestInv /\ FitInv
    BY ServiceAssumption DEF Polite, RestInv, FitInv
<1> QED
    BY <1>3, <1>4 DEF IInv

-----------------------------------------------------------------------------
(* Types.  A step of the loop changes the loop's variables at one client. *)

LEMMA ServiceUnchangedType == ASSUME ServiceTypeOK, UNCHANGED serviceVars PROVE ServiceTypeOK'
BY DEF ServiceTypeOK, serviceVars

LEMMA GoesType ==
    ASSUME at \in [Clients -> Working \cup Final], NEW c \in Clients,
           NEW l \in Working \cup Final, Goes(c, l)
    PROVE  at' \in [Clients -> Working \cup Final]
BY DEF Goes

LEMMA DialType == ASSUME TypeOK, NEW c \in Clients, Dial(c) PROVE TypeOK'
<1>1. ServiceTypeOK'
    BY ClientStepType, ServiceUnchangedType DEF Dial, Client, TypeOK
<1>2. at' \in [Clients -> Working \cup Final]
    BY GoesType DEF Dial, TypeOK, Working, Final
<1> QED
    BY <1>1, <1>2 DEF TypeOK, Dial, userVars, farVars

LEMMA SelectType == ASSUME TypeOK, NEW c \in Clients, Select(c) PROVE TypeOK'
<1>1. PICK r \in SUBSET {"socket", "stdin"} :
        ready' = [ready EXCEPT ![c] = r] /\ Goes(c, FirstOf(r))
    BY DEF Select
<1>2. FirstOf(r) \in Working \cup Final
    BY DEF FirstOf, Working
<1>3. at' \in [Clients -> Working \cup Final] /\ ready' \in [Clients -> SUBSET {"socket", "stdin"}]
    BY <1>1, <1>2, GoesType DEF TypeOK
<1>4. ServiceTypeOK'
    BY ServiceUnchangedType DEF Select, TypeOK
<1> QED
    BY <1>3, <1>4 DEF TypeOK, Select, userVars, farVars

LEMMA ReadSocketType == ASSUME TypeOK, NEW c \in Clients, ReadSocket(c) PROVE TypeOK'
<1>1. ServiceTypeOK'
    BY ClientStepType, ServiceUnchangedType DEF ReadSocket, Client, TypeOK
<1>2. \E l \in Working \cup Final : Goes(c, l)
    BY DEF ReadSocket, Working, Final
<1>3. at' \in [Clients -> Working \cup Final]
    BY <1>2, GoesType DEF TypeOK
<1>4. rest' \in [Clients -> 0..Outbox]
    <2>1. rest' = rest \/ \E n \in 1..rest[c] : rest' = [rest EXCEPT ![c] = @ - n]
        BY DEF ReadSocket
    <2>2. rest[c] \in 0..Outbox /\ Outbox \in Nat
        BY ServiceAssumption DEF TypeOK
    <2>3. \A n \in 1..rest[c] : rest[c] - n \in 0..Outbox
        BY <2>2
    <2> QED
        BY <2>1, <2>3 DEF TypeOK
<1>5. creset' \in [Clients -> Resets]
    <2>1. creset' = creset \/ creset' = [creset EXCEPT ![c] = "told"]
        BY DEF ReadSocket
    <2> QED
        BY <2>1 DEF TypeOK, Resets
<1> QED
    BY <1>1, <1>3, <1>4, <1>5 DEF TypeOK, ReadSocket, userVars

LEMMA ReadStdinType == ASSUME TypeOK, NEW c \in Clients, ReadStdin(c) PROVE TypeOK'
<1> USE DEF TypeOK
<1>1. ServiceTypeOK'
    BY ClientStepType, ServiceUnchangedType
       DEF ReadStdin, StdinEnds, Shutdown, Quit, TakeLine, Client
<1>2. \E l \in Working \cup Final : Goes(c, l)
    BY DEF ReadStdin, StdinEnds, Quit, TakeLine, Working, Final
<1>3. at' \in [Clients -> Working \cup Final]
    BY <1>2, GoesType
<1>4. stdineof' \in [Clients -> BOOLEAN]
    BY DEF ReadStdin, StdinEnds, Quit, TakeLine, userVars
<1>5. line' \in [Clients -> Message] /\ asked' \in [Clients -> BOOLEAN]
    <2>1. \/ UNCHANGED <<line, asked>>
          \/ \E m \in Message : /\ line' = [line EXCEPT ![c] = m]
                                /\ asked' = [asked EXCEPT ![c] = @ \/ m # "line"]
        BY DEF ReadStdin, StdinEnds, Quit, TakeLine, userVars
    <2> QED
        BY <2>1
<1>6. typed' \in [Clients -> Nat] /\ \A d \in Clients : typed'[d] <= Lines[d]
    <2>1. typed' = typed \/ (typed[c] < Lines[c] /\ typed' = [typed EXCEPT ![c] = @ + 1])
        BY DEF ReadStdin, StdinEnds, Quit, TakeLine, userVars
    <2> QED
        BY <2>1, LinesAssumption
<1> QED
    BY <1>1, <1>3, <1>4, <1>5, <1>6 DEF ReadStdin, farVars

LEMMA SendLineType == ASSUME TypeOK, NEW c \in Clients, SendLine(c) PROVE TypeOK'
<1>1. ServiceTypeOK'
    BY ClientStepType, ServiceUnchangedType DEF SendLine, Client, TypeOK
<1>2. \E l \in Working \cup Final : Goes(c, l)
    BY DEF SendLine, Working, Final
<1>3. at' \in [Clients -> Working \cup Final]
    BY <1>2, GoesType DEF TypeOK
<1>4. creset' \in [Clients -> Resets]
    <2>1. creset' = creset \/ \E s \in {"due", "told"} : creset' = [creset EXCEPT ![c] = s]
        BY DEF SendLine
    <2> QED
        BY <2>1 DEF TypeOK, Resets
<1> QED
    BY <1>1, <1>3, <1>4 DEF TypeOK, SendLine, userVars

LEMMA ResetReachesType == ASSUME TypeOK, NEW c \in Clients, ResetReaches(c) PROVE TypeOK'
<1>1. ServiceTypeOK'
    BY ClientStepType, ServiceUnchangedType DEF ResetReaches, Client, TypeOK
<1>2. creset' \in [Clients -> Resets]
    <2>1. creset' = creset \/ creset' = [creset EXCEPT ![c] = "yes"]
        BY DEF ResetReaches, clientVars, farVars
    <2> QED
        BY <2>1 DEF TypeOK, Resets
<1>3. UNCHANGED <<listening, loopVars, rest, seof>>
    BY DEF ResetReaches, clientVars, farVars
<1> QED
    BY <1>1, <1>2, <1>3 DEF TypeOK, loopVars, userVars

LEMMA ServerClosesType ==
    ASSUME TypeOK, NEW S \in SUBSET Clients, ServerCloses(S), listening' \in BOOLEAN
    PROVE  TypeOK' /\ \A c \in Clients : conn'[c] = IF c \in S THEN "left" ELSE conn[c]
<1>1. /\ ServiceTypeOK'
      /\ \A c \in Clients : conn'[c] = IF c \in S THEN "left" ELSE conn[c]
    BY EndedType DEF ServerCloses, TypeOK, Stages
<1>2. rest' \in [Clients -> 0..Outbox]
    <2>1. \A c \in Clients : answers[c] \in 0..Outbox /\ rest[c] \in 0..Outbox
        BY DEF TypeOK, ServiceTypeOK
    <2> QED
        BY <2>1 DEF ServerCloses
<1>3. seof' \in [Clients -> BOOLEAN] /\ creset' \in [Clients -> Resets]
    BY DEF ServerCloses, TypeOK, Resets
<1> QED
    BY <1>1, <1>2, <1>3 DEF TypeOK, ServerCloses, loopVars, userVars

-----------------------------------------------------------------------------
(* The invariant *)

\* A step of client c's loop, seen from the sockets: who turns to the standard
\* input has room for an answer, who was there has sent nothing yet.
LEMMA LoopInv ==
    ASSUME IInv, TypeOK', NEW c \in Clients,
           \A d \in Clients \ {c} : at'[d] = at[d] /\ answers'[d] = answers[d],
           \A d \in Clients \ {c} : inbox'[d] = inbox[d], Len(inbox'[c]) <= Inbox,
           \A d \in Clients : conn'[d] = "writing" => conn[d] = "writing",
           \A d \in Clients : conn[d] = "left" => conn'[d] = "left",
           \A d \in Clients : rest'[d] <= rest[d],
           at'[c] \in {"stdin", "send"} /\ conn'[c] = "writing" /\ answers'[c] = Outbox
             => at[c] = "stdin" /\ answers'[c] = answers[c] /\ inbox'[c] = inbox[c]
    PROVE  IInv'
<1>1. Polite'
    BY DEF IInv, Polite
<1>2. RestInv'
    <2>1. \A d \in Clients : rest[d] \in Nat /\ rest'[d] \in Nat
        BY ServiceAssumption DEF IInv, TypeOK
    <2> QED
        BY <2>1 DEF IInv, RestInv
<1>3. FitInv'
    BY DEF IInv, FitInv
<1> QED
    BY <1>1, <1>2, <1>3 DEF IInv

LEMMA NatRest == ASSUME TypeOK, NEW c \in Clients PROVE rest[c] \in 0..Outbox /\ answers[c] \in 0..Outbox
BY DEF TypeOK, ServiceTypeOK

LEMMA GoesAt ==
    ASSUME TypeOK, NEW c \in Clients, NEW l, Goes(c, l)
    PROVE  at'[c] = l /\ \A d \in Clients \ {c} : at'[d] = at[d]
BY DEF TypeOK, Goes

LEMMA DialInv == ASSUME IInv, NEW c \in Clients, Dial(c) PROVE IInv'
<1>0. TypeOK /\ TypeOK'
    BY DialType DEF IInv
<1>1. \E l \in {"select", "refused"} : Goes(c, l)
    BY DEF Dial
<1>2. at'[c] \notin {"stdin", "send"} /\ \A d \in Clients \ {c} : at'[d] = at[d]
    BY <1>0, <1>1, GoesAt
<1>3. conn' = conn \/ (conn[c] = "away" /\ conn' = [conn EXCEPT ![c] = "queued"])
    BY DEF Dial, Connect, Stage, serviceVars
<1>4. /\ \A d \in Clients : conn'[d] = "writing" => conn[d] = "writing"
      /\ \A d \in Clients : conn[d] = "left" => conn'[d] = "left"
    BY <1>0, <1>3 DEF TypeOK, ServiceTypeOK
<1>5. UNCHANGED <<inbox, answers, rest>>
    BY DEF Dial, Connect, serviceVars, farVars
<1>6. \A d \in Clients : rest'[d] <= rest[d]
    BY <1>0, <1>5, NatRest
<1> QED
    BY <1>0, <1>2, <1>4, <1>5, <1>6, LoopInv DEF IInv, FitInv

LEMMA SelectInv == ASSUME IInv, NEW c \in Clients, Select(c) PROVE IInv'
<1>0. TypeOK /\ TypeOK'
    BY SelectType DEF IInv
<1>1. PICK r \in SUBSET {"socket", "stdin"} :
        Goes(c, FirstOf(r)) /\ ("socket" \in r <=> SocketReadable(c))
    BY DEF Select
<1>2. at'[c] = FirstOf(r) /\ \A d \in Clients \ {c} : at'[d] = at[d]
    BY <1>0, <1>1, GoesAt
<1>3. UNCHANGED <<conn, inbox, answers, rest>>
    BY DEF Select, serviceVars, farVars
<1>4. at'[c] \in {"stdin", "send"} => answers[c] # Outbox
    <2>1. at'[c] \in {"stdin", "send"} => ~SocketReadable(c)
        BY <1>1, <1>2 DEF FirstOf
    <2> QED
        BY <1>0, <2>1, NatRest, ServiceAssumption DEF SocketReadable
<1>5. \A d \in Clients : rest'[d] <= rest[d]
    BY <1>0, <1>3, NatRest
<1> QED
    BY <1>0, <1>2, <1>3, <1>4, <1>5, LoopInv DEF IInv, FitInv

LEMMA ReadSocketInv == ASSUME IInv, NEW c \in Clients, ReadSocket(c) PROVE IInv'
<1>0. TypeOK /\ TypeOK' /\ RestInv
    BY ReadSocketType DEF IInv
<1>1. PICK l : Goes(c, l)
    BY DEF ReadSocket
<1>2. \A d \in Clients \ {c} : at'[d] = at[d]
    BY <1>0, <1>1, GoesAt
<1>3. UNCHANGED <<conn, inbox>>
    BY DEF ReadSocket, Receive, serviceVars
<1>4. /\ rest[c] \in 0..Outbox /\ answers[c] \in 0..Outbox /\ Outbox \in Nat \ {0}
      /\ answers \in [Clients -> 0..Outbox] /\ rest \in [Clients -> 0..Outbox]
    BY <1>0, ServiceAssumption DEF TypeOK, ServiceTypeOK
<1>5. answers' = answers \/ \E n \in 1..answers[c] : answers' = [answers EXCEPT ![c] = @ - n]
    BY DEF ReadSocket, Receive, serviceVars
<1>6. rest' = rest \/ \E n \in 1..rest[c] : rest' = [rest EXCEPT ![c] = @ - n]
    BY DEF ReadSocket
<1>7. \A d \in Clients : rest'[d] <= rest[d]
    BY <1>4, <1>6
<1>8. \A d \in Clients \ {c} : answers'[d] = answers[d]
    BY <1>4, <1>5
<1>9. conn'[c] = "writing" => answers'[c] # Outbox
    <2>1. CASE Receive(c)
        BY <1>4, <2>1 DEF Receive
    <2>2. CASE rest[c] > 0
        BY <1>0, <1>3, <2>2 DEF RestInv
    <2>3. CASE answers[c] + rest[c] = 0 /\ UNCHANGED serviceVars
        BY <1>4, <2>3 DEF serviceVars
    <2> QED
        BY <1>4, <2>1, <2>2, <2>3 DEF ReadSocket
<1> QED
    BY <1>0, <1>2, <1>3, <1>7, <1>8, <1>9, LoopInv DEF IInv, FitInv

LEMMA ReadStdinInv == ASSUME IInv, NEW c \in Clients, ReadStdin(c) PROVE IInv'
<1>0. TypeOK /\ TypeOK'
    BY ReadStdinType DEF IInv
<1>1. /\ UNCHANGED <<conn, inbox, rest>> /\ at[c] = "stdin"
      /\ UNCHANGED answers \/ (Goes(c, "done") /\ answers' = [answers EXCEPT ![c] = 0])
    <2>1. CASE StdinEnds(c)
        BY <2>1 DEF ReadStdin, StdinEnds, Shutdown, HalfClose, serviceVars, farVars
    <2>2. CASE Quit(c)
        BY <2>2 DEF ReadStdin, Quit, Leave, serviceVars, farVars
    <2>3. CASE TakeLine(c)
        BY <2>3 DEF ReadStdin, TakeLine, serviceVars, farVars
    <2> QED
        BY <2>1, <2>2, <2>3 DEF ReadStdin
<1>2. PICK l : Goes(c, l)
    BY DEF ReadStdin, StdinEnds, Quit, TakeLine
<1>3. \A d \in Clients \ {c} : at'[d] = at[d]
    BY <1>0, <1>2, GoesAt
<1>4. \A d \in Clients \ {c} : answers'[d] = answers[d]
    BY <1>0, <1>1 DEF TypeOK, ServiceTypeOK
<1>5. at'[c] \in {"stdin", "send"} => answers' = answers
    BY <1>0, <1>1, GoesAt
<1>6. \A d \in Clients : rest'[d] <= rest[d]
    BY <1>0, <1>1, NatRest
<1> QED
    BY <1>0, <1>1, <1>3, <1>4, <1>5, <1>6, LoopInv DEF IInv, FitInv

LEMMA SendLineInv == ASSUME IInv, NEW c \in Clients, SendLine(c) PROVE IInv'
<1>0. TypeOK /\ TypeOK'
    BY SendLineType DEF IInv
<1>1. \E l \in {"select", "killed"} : Goes(c, l)
    BY DEF SendLine
<1>2. at'[c] \notin {"stdin", "send"} /\ \A d \in Clients \ {c} : at'[d] = at[d]
    BY <1>0, <1>1, GoesAt
<1>3. UNCHANGED <<conn, answers, rest>>
    BY DEF SendLine, Send, serviceVars
<1>4. \A d \in Clients \ {c} : inbox'[d] = inbox[d]
    <2>1. inbox' = inbox \/ \E m \in Message : inbox' = [inbox EXCEPT ![c] = Append(@, m)]
        BY DEF SendLine, Send, serviceVars
    <2> QED
        BY <1>0, <2>1 DEF TypeOK, ServiceTypeOK
<1>5. \A d \in Clients : rest'[d] <= rest[d]
    BY <1>0, <1>3, NatRest
<1>6. Len(inbox'[c]) <= Inbox
    <2>1. CASE UNCHANGED inbox
        BY <2>1 DEF IInv, FitInv
    <2>2. CASE Len(inbox[c]) < Inbox /\ \E m \in Message : inbox' = [inbox EXCEPT ![c] = Append(@, m)]
        <3>1. inbox[c] \in Seq(Message) /\ inbox \in [Clients -> Seq(Message)]
            BY <1>0 DEF TypeOK, ServiceTypeOK
        <3>2. \A m \in Message : Len(Append(inbox[c], m)) = Len(inbox[c]) + 1
            BY <3>1, AppendProperties
        <3> QED
            BY <2>2, <3>1, <3>2, LenProperties, ServiceAssumption
    <2> QED
        BY <2>1, <2>2 DEF SendLine, Send, serviceVars
<1> QED
    BY <1>0, <1>2, <1>3, <1>4, <1>5, <1>6, LoopInv

LEMMA ResetReachesInv == ASSUME IInv, NEW c \in Clients, ResetReaches(c) PROVE IInv'
<1>1. TypeOK'
    BY ResetReachesType DEF IInv
<1>2. UNCHANGED <<at, conn, inbox, answers, rest>>
    BY DEF ResetReaches, ResetArrives, serviceVars, clientVars, loopVars, farVars
<1> QED
    BY <1>1, <1>2 DEF IInv, Polite, RestInv, FitInv

-----------------------------------------------------------------------------
LEMMA AcceptInv == ASSUME IInv, NEW c \in Clients, Accept(c) PROVE IInv'
<1>1. TypeOK /\ conn[c] = "queued" /\ conn' = [conn EXCEPT ![c] = "reading"]
    BY DEF Accept, Stage, IInv
<1>2. UNCHANGED <<inbox, answers, fin, gone, reset, listening, clientVars>>
    BY DEF Accept
<1>3. conn' \in [Clients -> Stages]
    BY <1>1 DEF TypeOK, ServiceTypeOK, Stages
<1>4. TypeOK'
    BY <1>1, <1>2, <1>3 DEF TypeOK, ServiceTypeOK, clientVars, loopVars, userVars, farVars
<1>5. Polite' /\ RestInv' /\ FitInv'
    BY <1>1, <1>2 DEF IInv, Polite, RestInv, FitInv, TypeOK, ServiceTypeOK, clientVars, loopVars, farVars
<1> QED
    BY <1>4, <1>5 DEF IInv

\* A read makes room in the inbox; a write is followed by a read.
LEMMA HandleInfoInv == ASSUME IInv, NEW c \in Clients, HandleInfo(c) PROVE IInv'
<1>0. TypeOK /\ Polite /\ RestInv /\ FitInv /\ UNCHANGED <<listening, clientVars>>
    BY DEF HandleInfo, IInv
<1>1. ServiceTypeOK'
    BY <1>0, HandleInfoType DEF HandleInfo, TypeOK
<1>2. TypeOK'
    BY <1>0, <1>1 DEF TypeOK, clientVars, loopVars, userVars, farVars
<1>3. conn[c] \in {"reading", "writing"}
    BY DEF HandleInfo, Read, Write
<1>4. \E s \in {"reading", "writing", "over"} : conn' = [conn EXCEPT ![c] = s]
    BY DEF HandleInfo, Read, Write, Stage
<1>5. RestInv'
    BY <1>0, <1>3, <1>4 DEF RestInv, TypeOK, ServiceTypeOK, clientVars, farVars
<1>6. /\ \A d \in Clients \ {c} : inbox'[d] = inbox[d]
      /\ Len(inbox'[c]) <= Inbox
      /\ Read(c) /\ conn'[c] = "writing" => Len(inbox'[c]) < Inbox
    <2>1. Inbox \in Nat \ {0} /\ inbox[c] \in Seq(Message) /\ Len(inbox[c]) \in Nat
        BY <1>0, ServiceAssumption, LenProperties DEF TypeOK, ServiceTypeOK
    <2>2. CASE Write(c)
        <3>1. inbox' = inbox /\ conn[c] = "writing"
            BY <2>2 DEF Write
        <3> QED
            BY <1>0, <3>1 DEF FitInv, Read
    <2>3. CASE inbox[c] = <<>> /\ inbox' = inbox
        <3>1. Len(inbox[c]) = 0
            BY <2>3
        <3> QED
            BY <2>1, <2>3, <3>1
    <2>4. ASSUME NEW q \in Seq(Message), Len(q) < Len(inbox[c]), inbox' = [inbox EXCEPT ![c] = q]
          PROVE  <1>6!1 /\ <1>6!2 /\ <1>6!3
        <3>1. inbox'[c] = q /\ Len(q) \in Nat /\ \A d \in Clients \ {c} : inbox'[d] = inbox[d]
            BY <1>0, <2>4, LenProperties DEF TypeOK, ServiceTypeOK
        <3>2. Len(inbox[c]) <= Inbox
            BY <1>0 DEF FitInv
        <3> QED
            BY <2>1, <2>4, <3>1, <3>2
    <2>5. CASE Read(c)
        <3>1. ServiceTypeOK
            BY <1>0 DEF TypeOK
        <3> QED
            BY <2>3, <2>4, <2>5, <3>1, ReadTakes
    <2> QED
        BY <2>2, <2>5 DEF HandleInfo
<1>7. Polite'
    <2>1. \A d \in Clients \ {c} : conn'[d] = conn[d]
        BY <1>0, <1>4 DEF TypeOK, ServiceTypeOK
    <2>2. \A d \in Clients \ {c} : answers'[d] = answers[d]
        BY <1>0 DEF HandleInfo, Read, Write, TypeOK, ServiceTypeOK
    <2>3. conn'[c] = "writing" => Len(inbox'[c]) < Inbox
        <3>1. Write(c) => conn'[c] # "writing"
            BY <1>0 DEF Write, Stage, TypeOK, ServiceTypeOK
        <3> QED
            BY <1>6, <3>1 DEF HandleInfo
    <2>4. UNCHANGED at
        BY <1>0 DEF clientVars, loopVars
    <2> QED
        BY <1>0, <1>6, <2>1, <2>2, <2>3, <2>4 DEF Polite
<1>8. FitInv'
    BY <1>0, <1>6 DEF FitInv
<1> QED
    BY <1>2, <1>5, <1>7, <1>8 DEF IInv

\* The process that closes, or ends, leaves every connection it held behind.
LEMMA ServerClosesInv ==
    ASSUME IInv, NEW S \in SUBSET Clients, ServerCloses(S), listening' \in BOOLEAN
    PROVE  IInv'
<1>1. TypeOK' /\ \A c \in Clients : conn'[c] = IF c \in S THEN "left" ELSE conn[c]
    BY ServerClosesType DEF IInv
<1>2. /\ UNCHANGED at
      /\ \A c \in Clients : c \notin S => inbox'[c] = inbox[c] /\ answers'[c] = answers[c]
      /\ \A c \in Clients : c \in S => inbox'[c] = <<>>
      /\ \A c \in Clients : c \notin S => rest'[c] = rest[c]
    BY DEF ServerCloses, Ended, loopVars
<1>3. Polite' /\ RestInv'
    BY <1>1, <1>2 DEF IInv, Polite, RestInv
<1>4. FitInv'
    BY <1>2, ServiceAssumption DEF IInv, FitInv
<1> QED
    BY <1>1, <1>3, <1>4 DEF IInv

LEMMA ServerEndsInv == IInv /\ ServerEnds => IInv'
<1>1. {c \in Clients : Linked(c)} \in SUBSET Clients
    OBVIOUS
<1> QED
    BY <1>1, ServerClosesInv DEF ServerEnds

LEMMA NextInv == IInv /\ [Next]_vars => IInv'
<1> SUFFICES ASSUME IInv, [Next]_vars PROVE IInv'
    OBVIOUS
<1>1. CASE \E c \in Clients : ClientLoop(c)
    BY <1>1, DialInv, SelectInv, ReadSocketInv, ReadStdinInv, SendLineInv DEF ClientLoop
<1>2. CASE \E c \in Clients : ResetReaches(c)
    BY <1>2, ResetReachesInv
<1>3. CASE \E c \in Clients : Accept(c)
    BY <1>3, AcceptInv
<1>4. CASE \E c \in Clients : HandleInfo(c)
    BY <1>4, HandleInfoInv
<1>5. CASE \E c \in Clients : CloseConnection(c)
    <2>1. PICK c \in Clients : ServerCloses({c}) /\ UNCHANGED listening
        BY <1>5 DEF CloseConnection
    <2>2. {c} \in SUBSET Clients /\ listening' \in BOOLEAN
        BY <2>1 DEF IInv, TypeOK
    <2> QED
        BY <2>1, <2>2, ServerClosesInv
<1>6. CASE AcceptError \/ \E c \in Clients : CloseError(c) \/ Killed(c)
    BY <1>6, ServerEndsInv DEF AcceptError, CloseError, Killed
<1>7. CASE UNCHANGED vars
    <2>1. TypeOK'
        BY <1>7 DEF IInv, TypeOK, ServiceTypeOK, vars, serviceVars, clientVars, loopVars,
                    userVars, farVars
    <2> QED
        BY <1>7, <2>1 DEF IInv, Polite, RestInv, FitInv, vars, serviceVars, clientVars, loopVars,
                          farVars
<1> QED
    BY <1>1, <1>2, <1>3, <1>4, <1>5, <1>6, <1>7 DEF Next

LEMMA InvariantHolds == Spec => []IInv
BY InitInv, NextInv, PTL DEF Spec

-----------------------------------------------------------------------------
\* Every variable of the client and the server keeps its type.
THEOREM TypeCorrect == Spec => []TypeOK
<1>1. IInv => TypeOK
    BY DEF IInv
<1> QED
    BY <1>1, InvariantHolds, PTL

\* However small the buffers and however fast the user types, client and server
\* never wait for each other with both sockets full.
THEOREM NoMutualWait == Spec => []NeverStuck
<1>1. IInv => NeverStuck
    <2> SUFFICES ASSUME IInv, NEW c \in Clients, at[c] = "send", Len(inbox[c]) = Inbox,
                        conn[c] = "writing", ~Room(c)
                 PROVE  FALSE
        BY DEF NeverStuck
    <2>1. answers[c] = Outbox
        BY ServiceAssumption DEF Room, IInv, TypeOK, ServiceTypeOK
    <2> QED
        BY <2>1, ServiceAssumption DEF IInv, Polite
<1> QED
    BY <1>1, InvariantHolds, PTL

-----------------------------------------------------------------------------
(* No client is cut short *)

\* What a client and its connection know of each other.  A client whose socket is
\* closed is done; half a connection is closed at the end of the input, after
\* which no line is taken; the server learns of a reset only from who is gone.
Honest(c) ==
    /\ reset[c] # "no" => gone[c]
    /\ gone[c] => at[c] = "done"
    /\ fin[c] => stdineof[c] \/ gone[c]
    /\ stdineof[c] => at[c] \notin {"stdin", "send"} /\ (at[c] = "socket" => "stdin" \notin ready[c])
    /\ listening => at[c] # "refused" /\ (at[c] = "start" <=> conn[c] = "away")

\* Without a "server quit" the server's loop ends only behind the last message of
\* a client that has ended its input, or is gone.
Untroubled(c) ==
    /\ line[c] = "line" /\ inbox[c] \in Seq({"line"})
    /\ conn[c] = "over" => gone[c] \/ (stdineof[c] /\ fin[c] /\ inbox[c] = <<>>)
    /\ conn[c] = "left" => stdineof[c] \/ at[c] = "done"
    /\ creset[c] = "no" /\ at[c] \notin {"premature", "killed"}
    /\ seof[c] => stdineof[c]

Courteous(c) == Honest(c) /\ (listening /\ ~asked[c] => Untroubled(c))
Courtesy == \A c \in Clients : Courteous(c)

\* What a step does to client c it does to no other.
SameAt(d) ==
    /\ conn'[d] = conn[d] /\ inbox'[d] = inbox[d] /\ fin'[d] = fin[d]
    /\ gone'[d] = gone[d] /\ reset'[d] = reset[d] /\ at'[d] = at[d] /\ ready'[d] = ready[d]
    /\ stdineof'[d] = stdineof[d] /\ line'[d] = line[d] /\ asked'[d] = asked[d]
    /\ seof'[d] = seof[d] /\ creset'[d] = creset[d]

LEMMA CourtesyAt ==
    ASSUME Courtesy, NEW c \in Clients, listening' => listening,
           \A d \in Clients \ {c} : SameAt(d), Courteous(c)'
    PROVE  Courtesy'
<1> SUFFICES ASSUME NEW d \in Clients, d # c PROVE Courteous(d)'
    BY DEF Courtesy
<1>1. SameAt(d) /\ Courteous(d)
    BY DEF Courtesy
<1> QED
    BY <1>1 DEF SameAt, Courteous, Honest, Untroubled

LEMMA ServiceAt ==
    ASSUME TypeOK, UNCHANGED serviceVars, NEW d \in Clients
    PROVE  conn'[d] = conn[d] /\ inbox'[d] = inbox[d] /\ fin'[d] = fin[d]
           /\ gone'[d] = gone[d] /\ reset'[d] = reset[d]
BY DEF serviceVars

LEMMA InitCourtesy == Init => Courtesy
<1> SUFFICES ASSUME Init, NEW c \in Clients PROVE Courteous(c)
    BY DEF Courtesy
<1>1. <<>> \in Seq({"line"})
    OBVIOUS
<1> QED
    BY <1>1 DEF Init, ClientInit, ServiceInit, Courteous, Honest, Untroubled

LEMMA DialCourtesy == ASSUME TypeOK, Courtesy, NEW c \in Clients, Dial(c) PROVE Courtesy'
<1>1. UNCHANGED <<listening, ready, userVars, farVars, inbox, fin, gone, reset>> /\ at[c] = "start"
    BY DEF Dial, Connect, serviceVars
<1>2. \/ Goes(c, "select") /\ conn' = [conn EXCEPT ![c] = "queued"]
      \/ ~listening /\ Goes(c, "refused") /\ conn' = conn
    BY DEF Dial, Connect, Stage, serviceVars
<1>3. ASSUME NEW d \in Clients \ {c} PROVE SameAt(d)
    BY <1>1, <1>2 DEF SameAt, TypeOK, ServiceTypeOK, Goes, userVars, farVars
<1>4. /\ Courteous(c) /\ UNCHANGED <<stdineof, line, asked, seof, creset>>
      /\ at'[c] \in {"select", "refused"} /\ (listening => at'[c] = "select" /\ conn'[c] = "queued")
    BY <1>1, <1>2 DEF Courtesy, TypeOK, ServiceTypeOK, Goes, userVars, farVars
<1>5. Honest(c)'
    BY <1>1, <1>4 DEF Courteous, Honest
<1>6. listening' /\ ~asked'[c] => Untroubled(c)'
    BY <1>1, <1>4 DEF Courteous, Untroubled
<1> QED
    BY <1>1, <1>3, <1>5, <1>6, CourtesyAt DEF Courteous

LEMMA SelectCourtesy == ASSUME TypeOK, Courtesy, NEW c \in Clients, Select(c) PROVE Courtesy'
<1>1. UNCHANGED <<serviceVars, listening, userVars, farVars>> /\ at[c] = "select"
    BY DEF Select
<1>2. PICK r \in (SUBSET {"socket", "stdin"}) \ {{}} :
        /\ ready' = [ready EXCEPT ![c] = r] /\ Goes(c, FirstOf(r)) /\ ("stdin" \in r => ~stdineof[c])
    BY DEF Select
<1>3. ASSUME NEW d \in Clients \ {c} PROVE SameAt(d)
    BY <1>1, <1>2 DEF SameAt, TypeOK, Goes, serviceVars, userVars, farVars
<1>4. Courteous(c) /\ UNCHANGED <<stdineof, line, asked, seof, creset, conn, inbox, fin, gone, reset>>
    BY <1>1 DEF Courtesy, serviceVars, userVars, farVars
<1>5. at'[c] = FirstOf(r) /\ ready'[c] = r
    BY <1>2 DEF TypeOK, Goes
<1>6. at'[c] \in {"socket", "stdin"} /\ (at'[c] = "stdin" => "stdin" \in r)
    <2>1. "socket" \in r \/ "stdin" \in r
        <3>1. r # {} /\ r \subseteq {"socket", "stdin"}
            BY <1>2
        <3>2. PICK x : x \in r
            BY <3>1
        <3> QED
            BY <3>1, <3>2
    <2> QED
        BY <1>5, <2>1 DEF FirstOf
<1>7. Honest(c)'
    BY <1>1, <1>2, <1>4, <1>5, <1>6 DEF Courteous, Honest
<1>8. listening' /\ ~asked'[c] => Untroubled(c)'
    BY <1>1, <1>4, <1>6 DEF Courteous, Untroubled
<1> QED
    BY <1>1, <1>3, <1>7, <1>8, CourtesyAt DEF Courteous

LEMMA ReadSocketCourtesy == ASSUME TypeOK, Courtesy, NEW c \in Clients, ReadSocket(c) PROVE Courtesy'
<1>1. /\ UNCHANGED <<listening, ready, userVars, seof, conn, inbox, fin, gone, reset>>
      /\ at[c] = "socket" /\ Courteous(c)
    BY DEF ReadSocket, Receive, serviceVars, Courtesy
<1>2. \/ /\ Goes(c, IF "stdin" \in ready[c] THEN "stdin" ELSE "select")
         /\ \/ creset' = creset
            \/ creset[c] = "yes" /\ creset' = [creset EXCEPT ![c] = "told"]
      \/ /\ seof[c] \/ creset[c] = "told"
         /\ Goes(c, IF stdineof[c] THEN "done" ELSE "premature") /\ creset' = creset
    BY DEF ReadSocket
<1>3. ASSUME NEW d \in Clients \ {c} PROVE SameAt(d)
    BY <1>1, <1>2 DEF SameAt, TypeOK, Goes, userVars
<1>4. \/ /\ at'[c] = (IF "stdin" \in ready[c] THEN "stdin" ELSE "select")
         /\ creset'[c] = creset[c] \/ creset[c] = "yes"
      \/ /\ seof[c] \/ creset[c] = "told"
         /\ at'[c] = (IF stdineof[c] THEN "done" ELSE "premature") /\ creset' = creset
    BY <1>2 DEF TypeOK, Goes
<1>5. Honest(c)'
    BY <1>1, <1>4 DEF Courteous, Honest, userVars
<1>6. listening' /\ ~asked'[c] => Untroubled(c)'
    BY <1>1, <1>4 DEF Courteous, Untroubled, userVars
<1> QED
    BY <1>1, <1>3, <1>5, <1>6, CourtesyAt DEF Courteous

LEMMA ReadStdinCourtesy == ASSUME TypeOK, Courtesy, NEW c \in Clients, ReadStdin(c) PROVE Courtesy'
<1>1. UNCHANGED <<listening, ready, farVars>> /\ at[c] = "stdin" /\ Courteous(c)
    BY DEF ReadStdin, Courtesy
<1>2. ~stdineof[c] /\ ~gone[c] /\ reset[c] = "no" /\ ~fin[c] /\ (listening => conn[c] # "away")
    BY <1>1 DEF Courteous, Honest
<1>3. CASE StdinEnds(c)
    <2>1. /\ stdineof' = [stdineof EXCEPT ![c] = TRUE] /\ Goes(c, "select")
          /\ UNCHANGED <<line, asked, conn, inbox, gone, reset>>
          /\ fin' = fin \/ fin' = [fin EXCEPT ![c] = TRUE]
        BY <1>3 DEF StdinEnds, Shutdown, HalfClose, serviceVars
    <2>2. ASSUME NEW d \in Clients \ {c} PROVE SameAt(d)
        BY <1>1, <2>1 DEF SameAt, TypeOK, ServiceTypeOK, Goes, farVars
    <2>3. stdineof'[c] /\ at'[c] = "select"
        BY <2>1 DEF TypeOK, Goes
    <2>4. Honest(c)'
        BY <1>1, <1>2, <2>1, <2>3 DEF Courteous, Honest
    <2>5. listening' /\ ~asked'[c] => Untroubled(c)'
        <3>1. SUFFICES ASSUME listening, ~asked[c] PROVE Untroubled(c)'
            BY <1>1, <2>1
        <3>2. Untroubled(c)
            BY <1>1, <3>1 DEF Courteous
        <3> QED
            BY <1>1, <1>2, <2>1, <2>3, <3>2 DEF Untroubled, farVars
    <2> QED
        BY <1>1, <2>2, <2>4, <2>5, CourtesyAt DEF Courteous
<1>4. CASE Quit(c)
    <2>1. /\ Goes(c, "done") /\ UNCHANGED <<stdineof, line, asked, conn, inbox>>
          /\ gone' = gone \/ gone' = [gone EXCEPT ![c] = TRUE]
          /\ \/ UNCHANGED <<fin, reset>>
             \/ gone' = [gone EXCEPT ![c] = TRUE] /\ reset' = [reset EXCEPT ![c] = "due"] /\ fin' = fin
             \/ gone' = [gone EXCEPT ![c] = TRUE] /\ reset' = reset /\ fin' = [fin EXCEPT ![c] = TRUE]
        BY <1>4 DEF Quit, Leave, serviceVars, userVars
    <2>2. ASSUME NEW d \in Clients \ {c} PROVE SameAt(d)
        BY <1>1, <2>1 DEF SameAt, TypeOK, ServiceTypeOK, Goes, farVars
    <2>3. at'[c] = "done" /\ (UNCHANGED <<fin, reset, gone>> \/ gone'[c])
        BY <2>1 DEF TypeOK, ServiceTypeOK, Goes
    <2>4. Honest(c)'
        BY <1>1, <1>2, <2>1, <2>3 DEF Courteous, Honest
    <2>5. listening' /\ ~asked'[c] => Untroubled(c)'
        <3>1. SUFFICES ASSUME listening, ~asked[c] PROVE Untroubled(c)'
            BY <1>1, <2>1
        <3>2. Untroubled(c)
            BY <1>1, <3>1 DEF Courteous
        <3> QED
            BY <1>1, <1>2, <2>1, <2>3, <3>2 DEF Untroubled, farVars
    <2> QED
        BY <1>1, <2>2, <2>4, <2>5, CourtesyAt DEF Courteous
<1>5. CASE TakeLine(c)
    <2>1. PICK m \in Message :
            /\ line' = [line EXCEPT ![c] = m] /\ asked' = [asked EXCEPT ![c] = @ \/ m # "line"]
            /\ Goes(c, "send") /\ UNCHANGED <<serviceVars, stdineof>>
        BY <1>5 DEF TakeLine
    <2>2. ASSUME NEW d \in Clients \ {c} PROVE SameAt(d)
        BY <1>1, <2>1 DEF SameAt, TypeOK, Goes, farVars, serviceVars
    <2>3. at'[c] = "send" /\ line'[c] = m /\ (~asked'[c] => ~asked[c] /\ m = "line")
        BY <2>1 DEF TypeOK, Goes
    <2>4. Honest(c)'
        BY <1>1, <1>2, <2>1, <2>3 DEF Courteous, Honest, serviceVars
    <2>5. listening' /\ ~asked'[c] => Untroubled(c)'
        BY <1>1, <1>2, <2>1, <2>3 DEF Courteous, Untroubled, serviceVars, farVars
    <2> QED
        BY <1>1, <2>2, <2>4, <2>5, CourtesyAt DEF Courteous
<1> QED
    BY <1>3, <1>4, <1>5 DEF ReadStdin

\* A line goes to a server that serves, or it follows a "server quit".
LEMMA SendLineCourtesy == ASSUME TypeOK, Courtesy, NEW c \in Clients, SendLine(c) PROVE Courtesy'
<1>1. /\ UNCHANGED <<listening, ready, userVars, seof, conn, fin, gone, reset>>
      /\ at[c] = "send" /\ Courteous(c)
    BY DEF SendLine, Send, serviceVars, Courtesy
<1>2. \/ Linked(c) /\ Goes(c, "select") /\ creset' = creset /\ inbox' = [inbox EXCEPT ![c] = Append(@, line[c])]
      \/ /\ ~Linked(c) \/ creset[c] \in {"yes", "told"}
         /\ Goes(c, "select") \/ Goes(c, "killed")
         /\ creset' = creset \/ \E s \in Resets : creset' = [creset EXCEPT ![c] = s]
         /\ inbox' = inbox
    <2>1. Linked(c) /\ Send(c) /\ inbox'[c] = Append(inbox[c], line[c])
            => inbox' = [inbox EXCEPT ![c] = Append(@, line[c])]
        <3>1. Send(c) => \E m \in Message : inbox' = [inbox EXCEPT ![c] = Append(@, m)]
            BY DEF Send
        <3> QED
            BY <3>1 DEF TypeOK, ServiceTypeOK
    <2> QED
        BY <2>1 DEF SendLine, serviceVars, Resets
<1>3. ASSUME NEW d \in Clients \ {c} PROVE SameAt(d)
    BY <1>1, <1>2 DEF SameAt, TypeOK, ServiceTypeOK, Goes, userVars
<1>4. \/ /\ Linked(c) /\ at'[c] = "select" /\ creset'[c] = creset[c]
         /\ inbox'[c] = Append(inbox[c], line[c])
      \/ /\ ~Linked(c) \/ creset[c] \in {"yes", "told"}
         /\ at'[c] \in {"select", "killed"} /\ inbox' = inbox
    BY <1>2 DEF TypeOK, ServiceTypeOK, Goes
<1>5. Honest(c)'
    BY <1>1, <1>4 DEF Courteous, Honest, userVars
<1>6. listening' /\ ~asked'[c] => Untroubled(c)'
    <2>1. SUFFICES ASSUME listening, ~asked[c] PROVE Untroubled(c)'
        BY <1>1 DEF userVars
    <2>2. Honest(c) /\ Untroubled(c)
        BY <1>1, <2>1 DEF Courteous
    <2>3. Linked(c) /\ creset[c] = "no" /\ ~stdineof[c] /\ ~gone[c]
        BY <1>1, <2>1, <2>2 DEF Honest, Untroubled, Linked
    <2>4. at'[c] = "select" /\ creset'[c] = creset[c] /\ inbox'[c] = Append(inbox[c], line[c])
        BY <1>4, <2>3
    <2>5. inbox'[c] \in Seq({"line"})
        BY <2>2, <2>4, AppendProperties DEF Untroubled
    <2> QED
        BY <1>1, <2>2, <2>3, <2>4, <2>5 DEF Untroubled, userVars
<1> QED
    BY <1>1, <1>3, <1>5, <1>6, CourtesyAt DEF Courteous

LEMMA ResetReachesCourtesy ==
    ASSUME TypeOK, Courtesy, NEW c \in Clients, ResetReaches(c)
    PROVE  Courtesy'
<1>1. /\ UNCHANGED <<listening, loopVars, rest, seof, conn, inbox, fin, gone>>
      /\ \/ creset[c] = "due" /\ creset' = [creset EXCEPT ![c] = "yes"] /\ reset' = reset
         \/ reset[c] = "due" /\ reset' = [reset EXCEPT ![c] = "yes"] /\ creset' = creset
    BY DEF ResetReaches, ResetArrives, serviceVars, clientVars, farVars
<1>2. ASSUME NEW d \in Clients \ {c} PROVE SameAt(d)
    BY <1>1 DEF SameAt, TypeOK, ServiceTypeOK, loopVars, userVars
<1>3. Courteous(c) /\ (reset' = reset \/ reset[c] = "due") /\ (creset' = creset \/ creset[c] = "due")
    BY <1>1 DEF Courtesy
<1>4. Honest(c)'
    BY <1>1, <1>3 DEF Courteous, Honest, loopVars, userVars
<1>5. listening' /\ ~asked'[c] => Untroubled(c)'
    BY <1>1, <1>3 DEF Courteous, Untroubled, loopVars, userVars
<1> QED
    BY <1>1, <1>2, <1>4, <1>5, CourtesyAt DEF Courteous

-----------------------------------------------------------------------------
LEMMA AcceptCourtesy == ASSUME TypeOK, Courtesy, NEW c \in Clients, Accept(c) PROVE Courtesy'
<1>1. /\ conn[c] = "queued" /\ conn' = [conn EXCEPT ![c] = "reading"] /\ Courteous(c)
      /\ UNCHANGED <<inbox, answers, fin, gone, reset, listening, clientVars>>
    BY DEF Accept, Stage, Courtesy
<1>2. conn'[c] = "reading"
    BY <1>1 DEF TypeOK, ServiceTypeOK
<1>3. ASSUME NEW d \in Clients \ {c} PROVE SameAt(d)
    BY <1>1 DEF SameAt, TypeOK, ServiceTypeOK, clientVars, loopVars, userVars, farVars
<1>4. Honest(c)'
    BY <1>1, <1>2 DEF Courteous, Honest, clientVars, loopVars, userVars, farVars
<1>5. listening' /\ ~asked'[c] => Untroubled(c)'
    BY <1>1, <1>2 DEF Courteous, Untroubled, clientVars, loopVars, userVars, farVars
<1> QED
    BY <1>1, <1>3, <1>4, <1>5, CourtesyAt DEF Courteous

\* What is left of lines is lines.
LEMMA LinesRemain ==
    ASSUME NEW s \in Seq({"line"}), NEW n \in 1..Len(s), NEW cut \in BOOLEAN, cut => n < Len(s),
           NEW q \in Remainders(s, n, cut)
    PROVE  q \in Seq({"line"})
<1>1. Len(s) \in Nat /\ n \in Nat /\ n >= 1 /\ n <= Len(s)
    BY LenProperties
<1>2. CASE ~cut
    <2>1. q = SubSeq(s, n + 1, Len(s))
        BY <1>2 DEF Remainders
    <2> QED
        BY <1>1, <2>1, SubSeqProperties
<1>3. CASE cut
    <2>1. n + 1 \in 1..Len(s) /\ n + 2 \in 1..(Len(s) + 1)
        BY <1>1, <1>3
    <2>2. s[n + 1] = "line"
        BY <2>1, ElementOfSeq
    <2>3. q \in {<<m>> \o SubSeq(s, n + 2, Len(s)) : m \in Rests("line")}
        BY <1>3, <2>2 DEF Remainders
    <2>4. Rests("line") = {"line"}
        BY Zenon DEF Rests
    <2>5. q = <<"line">> \o SubSeq(s, n + 2, Len(s))
        BY <2>3, <2>4
    <2>6. SubSeq(s, n + 2, Len(s)) \in Seq({"line"})
        BY <1>1, <2>1, SubSeqProperties
    <2> QED
        BY <2>5, <2>6, ConcatProperties
<1> QED
    BY <1>2, <1>3

\* handle_info leaves its loop at a "server quit", at the end of file behind the
\* last message, or told of a reset; all but the first need the client's doing.
LEMMA HandleInfoCourtesy ==
    ASSUME TypeOK, Courtesy, NEW c \in Clients, HandleInfo(c)
    PROVE  Courtesy'
<1>1. /\ UNCHANGED <<listening, clientVars, fin, gone>> /\ Courteous(c)
      /\ conn[c] \in {"reading", "writing"}
    BY DEF HandleInfo, Read, Write, Courtesy
<1>2. \E s \in {"reading", "writing", "over"} : conn' = [conn EXCEPT ![c] = s]
    BY DEF HandleInfo, Read, Write, Stage
<1>3. /\ inbox' = inbox
         \/ \E n \in 1..Len(inbox[c]), cut \in BOOLEAN :
              /\ cut => n < Len(inbox[c])
              /\ \E q \in Remainders(inbox[c], n, cut) : inbox' = [inbox EXCEPT ![c] = q]
      /\ reset' = reset \/ ((gone[c] \/ reset[c] = "yes") /\ \E s \in Resets : reset' = [reset EXCEPT ![c] = s])
    BY DEF HandleInfo, Read, Write, Resets
<1>4. ASSUME NEW d \in Clients \ {c} PROVE SameAt(d)
    <2>1. conn'[d] = conn[d] /\ reset'[d] = reset[d]
        BY <1>2, <1>3 DEF TypeOK, ServiceTypeOK
    <2>2. inbox'[d] = inbox[d]
        BY <1>3 DEF TypeOK, ServiceTypeOK
    <2> QED
        BY <1>1, <2>1, <2>2 DEF SameAt, clientVars, loopVars, userVars, farVars
<1>5. conn'[c] \in {"reading", "writing", "over"} /\ (reset' = reset \/ gone[c] \/ reset[c] = "yes")
    BY <1>2, <1>3 DEF TypeOK, ServiceTypeOK
<1>6. Honest(c)'
    BY <1>1, <1>5 DEF Courteous, Honest, clientVars, loopVars, userVars, farVars
<1>7. listening' /\ ~asked'[c] => Untroubled(c)'
    <2>1. SUFFICES ASSUME listening, ~asked[c] PROVE Untroubled(c)'
        BY <1>1 DEF clientVars, loopVars, userVars
    <2>2. Honest(c) /\ Untroubled(c)
        BY <1>1, <2>1 DEF Courteous
    <2>3. inbox[c] \in Seq({"line"}) /\ (inbox[c] # <<>> => Head(inbox[c]) = "line")
        BY <2>2, HeadTailProperties DEF Untroubled
    <2>4. inbox'[c] \in Seq({"line"})
        <3>1. ASSUME NEW n \in 1..Len(inbox[c]), NEW cut \in BOOLEAN, cut => n < Len(inbox[c]),
                     NEW q \in Remainders(inbox[c], n, cut)
              PROVE  q \in Seq({"line"})
            BY <2>3, <3>1, LinesRemain
        <3> QED
            BY <1>3, <2>3, <3>1 DEF TypeOK, ServiceTypeOK
    <2>5. conn'[c] = "over" => gone[c] \/ (fin[c] /\ inbox[c] = <<>> /\ inbox' = inbox)
        <3>1. CASE Write(c)
            <4>1. Write(c) /\ conn'[c] = "over" => reset[c] = "yes"
                BY DEF Write, Stage, TypeOK, ServiceTypeOK
            <4> QED
                BY <2>2, <3>1, <4>1 DEF Honest
        <3>2. CASE Read(c)
            <4>1. \A n \in 1..Len(inbox[c]) : inbox[c] # <<>>
                BY <2>3, EmptySeq, LenProperties
            <4> QED
                BY <2>3, <3>2, <4>1 DEF Read, Stage, TypeOK, ServiceTypeOK
        <3> QED
            BY <3>1, <3>2 DEF HandleInfo
    <2>6. fin[c] /\ ~gone[c] => stdineof[c]
        BY <2>2 DEF Honest
    <2> QED
        BY <1>1, <1>5, <2>2, <2>4, <2>5, <2>6 DEF Untroubled, clientVars, loopVars, userVars, farVars
<1> QED
    BY <1>1, <1>4, <1>6, <1>7, CourtesyAt DEF Courteous

LEMMA ServerClosesHonest ==
    ASSUME TypeOK, Courtesy, NEW S \in SUBSET Clients, ServerCloses(S),
           \A c \in S : conn[c] # "away", listening' => listening
    PROVE  \A c \in Clients : Honest(c)'
<1> SUFFICES ASSUME NEW c \in Clients PROVE Honest(c)'
    OBVIOUS
<1>1. Honest(c) /\ UNCHANGED <<at, ready, stdineof>>
    BY DEF Courtesy, Courteous, ServerCloses, loopVars, userVars
<1>2. CASE c \in S
    <2>1. conn'[c] = "left" /\ ~fin'[c] /\ ~gone'[c] /\ reset'[c] = "no"
        BY <1>2 DEF ServerCloses, Ended
    <2> QED
        BY <1>1, <1>2, <2>1 DEF Honest
<1>3. CASE c \notin S
    <2>1. conn'[c] = conn[c] /\ fin'[c] = fin[c] /\ gone'[c] = gone[c] /\ reset'[c] = reset[c]
        BY <1>3 DEF ServerCloses, Ended
    <2> QED
        BY <1>1, <2>1 DEF Honest
<1> QED
    BY <1>2, <1>3

LEMMA CloseConnectionCourtesy ==
    ASSUME TypeOK, Courtesy, NEW c \in Clients, CloseConnection(c)
    PROVE  Courtesy'
<1>1. /\ conn[c] = "over" /\ ServerCloses({c}) /\ UNCHANGED <<listening, loopVars>>
    BY DEF CloseConnection, Over, ServerCloses
<1>2. \A d \in Clients : Honest(d)'
    BY <1>1, ServerClosesHonest
<1>3. ASSUME NEW d \in Clients, listening, ~asked[d] PROVE Untroubled(d)'
    <2>1. Honest(d) /\ Untroubled(d) /\ UNCHANGED <<line, stdineof, at>>
        BY <1>1, <1>3 DEF Courtesy, Courteous, loopVars, userVars
    <2>2. CASE d # c
        <3>1. /\ conn'[d] = conn[d] /\ inbox'[d] = inbox[d] /\ fin'[d] = fin[d] /\ gone'[d] = gone[d]
              /\ seof'[d] = seof[d] /\ creset'[d] = creset[d]
            BY <1>1, <2>2 DEF ServerCloses, Ended, TypeOK
        <3> QED
            BY <2>1, <3>1 DEF Untroubled
    <2>3. CASE d = c
        <3>1. /\ conn'[c] = "left" /\ inbox'[c] = <<>> /\ <<>> \in Seq({"line"})
              /\ gone[c] => seof'[c] = seof[c] /\ creset'[c] = creset[c]
              /\ ~gone[c] /\ inbox[c] = <<>> => creset'[c] = creset[c]
            BY <1>1 DEF ServerCloses, Ended, TypeOK
        <3>2. gone[c] => at[c] = "done"
            BY <2>1, <2>3 DEF Honest
        <3>3. ~gone[c] => stdineof[c] /\ inbox[c] = <<>>
            BY <1>1, <2>1, <2>3 DEF Untroubled
        <3> QED
            BY <2>1, <2>3, <3>1, <3>2, <3>3 DEF Untroubled
    <2> QED
        BY <2>2, <2>3
<1> QED
    BY <1>1, <1>2, <1>3 DEF Courtesy, Courteous, loopVars, userVars

LEMMA ServerEndsCourtesy == TypeOK /\ Courtesy /\ ServerEnds => Courtesy'
<1> SUFFICES ASSUME TypeOK, Courtesy, ServerEnds PROVE Courtesy'
    OBVIOUS
<1>1. /\ ServerCloses({c \in Clients : Linked(c)}) /\ ~listening'
      /\ \A c \in {d \in Clients : Linked(d)} : conn[c] # "away"
    BY DEF ServerEnds, Linked
<1>2. {c \in Clients : Linked(c)} \in SUBSET Clients
    OBVIOUS
<1>3. \A c \in Clients : Honest(c)'
    BY <1>1, <1>2, ServerClosesHonest
<1> QED
    BY <1>1, <1>3 DEF Courtesy, Courteous

LEMMA NextCourtesy == TypeOK /\ Courtesy /\ [Next]_vars => Courtesy'
<1> SUFFICES ASSUME TypeOK, Courtesy, [Next]_vars PROVE Courtesy'
    OBVIOUS
<1>1. CASE \E c \in Clients : ClientLoop(c)
    BY <1>1, DialCourtesy, SelectCourtesy, ReadSocketCourtesy, ReadStdinCourtesy, SendLineCourtesy
       DEF ClientLoop
<1>2. CASE \E c \in Clients : ResetReaches(c) \/ Accept(c) \/ HandleInfo(c) \/ CloseConnection(c)
    BY <1>2, ResetReachesCourtesy, AcceptCourtesy, HandleInfoCourtesy, CloseConnectionCourtesy
<1>3. CASE AcceptError \/ \E c \in Clients : CloseError(c) \/ Killed(c)
    BY <1>3, ServerEndsCourtesy DEF AcceptError, CloseError, Killed
<1>4. CASE UNCHANGED vars
    <2> SUFFICES ASSUME NEW c \in Clients PROVE Courteous(c)'
        BY DEF Courtesy
    <2>1. Courteous(c)
        BY DEF Courtesy
    <2> QED
        BY <1>4, <2>1 DEF Courteous, Honest, Untroubled, vars, serviceVars, clientVars, loopVars,
                          userVars, farVars
<1> QED
    BY <1>1, <1>2, <1>3, <1>4 DEF Next

\* While the server lives, a client that never typed "server quit" is not told
\* "prematurely", nor reset, nor killed by SIGPIPE, and is closed on only behind
\* the end of its input with every line of it read.
THEOREM NobodyCut == Spec => []NotCutShort
<1>1. Courtesy => NotCutShort
    BY DEF Courtesy, Courteous, Honest, Untroubled, NotCutShort
<1>2. TypeOK /\ Courtesy /\ [Next]_vars => Courtesy'
    BY NextCourtesy
<1> QED
    BY <1>1, <1>2, InitCourtesy, TypeCorrect, PTL DEF Spec
=============================================================================
