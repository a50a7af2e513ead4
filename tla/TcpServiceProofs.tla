-------------------------- MODULE TcpServiceProofs --------------------------
(* Lemmas about the connections of TcpService, for the proofs of its servers. *)
EXTENDS TcpService, SequenceTheorems, TLAPS

\* The connections keep their types under every step of a client or of
\* handle_info, and those steps leave the set of served connections alone.
LEMMA ClientStepType ==
    ASSUME ServiceTypeOK, NEW c \in Clients, Client(c)
    PROVE  ServiceTypeOK' /\ \A d \in Clients : conn'[d] \in Served <=> conn[d] \in Served
<1> USE DEF ServiceTypeOK, Stage
<1>0. Outbox \in Nat /\ 0 \in 0..Outbox
    BY ServiceAssumption
<1>1. CASE Connect(c)
    BY <1>1 DEF Connect, Stages, Served
<1>2. CASE Send(c)
    <2>1. \A m \in Message : Append(inbox[c], m) \in Seq(Message)
        BY AppendProperties
    <2> QED
        BY <1>2, <2>1 DEF Send
<1>3. CASE HalfClose(c)
    BY <1>3 DEF HalfClose
<1>4. CASE Receive(c)
    <2>1. answers[c] \in 0..Outbox
        OBVIOUS
    <2>2. \A n \in 1..answers[c] : answers[c] - n \in 0..Outbox
        BY <1>0, <2>1
    <2> QED
        BY <1>4, <2>2 DEF Receive
<1>5. CASE Leave(c)
    BY <1>0, <1>5 DEF Leave, Resets
<1>6. CASE ResetArrives(c)
    BY <1>6 DEF ResetArrives, Resets
<1> QED
    BY <1>1, <1>2, <1>3, <1>4, <1>5, <1>6 DEF Client

\* What a read leaves is fewer messages.
LEMMA RemaindersShorter ==
    ASSUME NEW q \in Seq(Message), NEW n \in 1..Len(q), NEW cut \in BOOLEAN, cut => n < Len(q),
           NEW r \in Remainders(q, n, cut)
    PROVE  r \in Seq(Message) /\ Len(r) = Len(q) - n
<1>1. Len(q) \in Nat /\ n \in Nat /\ n <= Len(q) /\ n >= 1
    BY LenProperties
<1>2. CASE ~cut
    <2>1. r = SubSeq(q, n + 1, Len(q))
        BY <1>2 DEF Remainders
    <2> QED
        BY <1>1, <2>1, SubSeqProperties
<1>3. CASE cut
    <2>1. PICK m \in Rests(q[n + 1]) : r = <<m>> \o SubSeq(q, n + 2, Len(q))
        BY <1>3 DEF Remainders
    <2>2. m \in Message
        BY <2>1, ServiceAssumption DEF Rests
    <2>3. SubSeq(q, n + 2, Len(q)) \in Seq(Message) /\ Len(SubSeq(q, n + 2, Len(q))) = Len(q) - n - 1
        BY <1>1, <1>3, SubSeqProperties
    <2>4. <<m>> \in Seq(Message) /\ Len(<<m>>) = 1
        BY <2>2
    <2> QED
        BY <1>1, <2>1, <2>3, <2>4, ConcatProperties
<1> QED
    BY <1>2, <1>3

LEMMA ReadTakes ==
    ASSUME ServiceTypeOK, NEW c \in Clients, Read(c)
    PROVE  \/ inbox[c] = <<>> /\ inbox' = inbox
           \/ \E q \in Seq(Message) :
                Len(q) < Len(inbox[c]) /\ inbox' = [inbox EXCEPT ![c] = q]
<1>1. inbox[c] \in Seq(Message) /\ Len(inbox[c]) \in Nat
    BY LenProperties DEF ServiceTypeOK
<1>2. ASSUME NEW n \in 1..Len(inbox[c]), NEW cut \in BOOLEAN, cut => n < Len(inbox[c]),
             NEW q \in Remainders(inbox[c], n, cut)
      PROVE  q \in Seq(Message) /\ Len(q) < Len(inbox[c])
    <2>1. q \in Seq(Message) /\ Len(q) = Len(inbox[c]) - n
        BY <1>1, <1>2, RemaindersShorter
    <2> QED
        BY <1>1, <2>1
<1> QED
    BY <1>2 DEF Read

LEMMA HandleInfoType ==
    ASSUME ServiceTypeOK, NEW c \in Clients, Read(c) \/ Write(c)
    PROVE  ServiceTypeOK' /\ \A d \in Clients : conn'[d] \in Served <=> conn[d] \in Served
<1> USE DEF ServiceTypeOK, Stage
<1>1. CASE Read(c)
    <2>2. conn[c] = "reading"
        BY <1>1 DEF Read
    <2>3. inbox' \in [Clients -> Seq(Message)]
        BY <1>1, ReadTakes
    <2>4. conn' = [conn EXCEPT ![c] = "over"] \/ conn' = [conn EXCEPT ![c] = "writing"]
        BY <1>1 DEF Read
    <2>5. conn' \in [Clients -> Stages]
        BY <2>4 DEF Stages
    <2>6. \A d \in Clients : conn'[d] \in Served <=> conn[d] \in Served
        BY <2>2, <2>4 DEF Served
    <2>7. reset' = reset \/ reset' = [reset EXCEPT ![c] = "told"]
        BY <1>1 DEF Read
    <2>8. reset' \in [Clients -> Resets]
        BY <2>7 DEF Resets
    <2>9. UNCHANGED <<answers, fin, gone>>
        BY <1>1 DEF Read
    <2> QED
        BY <2>3, <2>5, <2>6, <2>8, <2>9
<1>2. CASE Write(c)
    <2>1. conn[c] = "writing"
        BY <1>2 DEF Write
    <2>2. conn' = [conn EXCEPT ![c] = "reading"] \/ conn' = [conn EXCEPT ![c] = "over"]
        BY <1>2 DEF Write
    <2>3. conn' \in [Clients -> Stages]
        BY <2>2 DEF Stages
    <2>4. \A d \in Clients : conn'[d] \in Served <=> conn[d] \in Served
        BY <2>1, <2>2 DEF Served
    <2>5. reset' = reset \/ reset' = [reset EXCEPT ![c] = "due"]
        BY <1>2 DEF Write
    <2>6. reset' \in [Clients -> Resets]
        BY <2>5 DEF Resets
    <2>7. answers' = answers \/ (answers[c] < Outbox /\ answers' = [answers EXCEPT ![c] = @ + 1])
        BY <1>2 DEF Write, Room
    <2>8. answers' \in [Clients -> 0..Outbox]
        <3>1. answers[c] \in 0..Outbox /\ (answers[c] < Outbox => answers[c] + 1 \in 0..Outbox)
            BY ServiceAssumption
        <3> QED
            BY <2>7, <3>1
    <2>9. UNCHANGED <<inbox, fin, gone>>
        BY <1>2 DEF Write
    <2> QED
        BY <2>3, <2>4, <2>6, <2>8, <2>9
<1> QED
    BY <1>1, <1>2

\* So does the end of connections.
LEMMA EndedType ==
    ASSUME ServiceTypeOK, NEW S \in SUBSET Clients, NEW s \in Stages, Ended(S, s)
    PROVE  /\ ServiceTypeOK'
           /\ \A c \in Clients : conn'[c] = IF c \in S THEN s ELSE conn[c]
<1>1. 0 \in 0..Outbox /\ "no" \in Resets
    BY ServiceAssumption DEF Resets
<1>2. <<>> \in Seq(Message)
    OBVIOUS
<1> QED
    BY <1>1, <1>2 DEF Ended, ServiceTypeOK
=============================================================================
