----------------------------- MODULE Dictionary -----------------------------
(***************************************************************************)
(* What binary-tree.h promises: a thread-safe dictionary.  Each call takes *)
(* effect in one step between its invocation and its return, and answers   *)
(* 0 for success, -1 for failure.                                          *)
(***************************************************************************)
EXTENDS Integers, Sequences, FiniteSets

CONSTANTS Keys, Values, Threads, NULL

VARIABLES
    store,     \* the entries <<key, value>>, one at most for a key
    call,      \* the call each thread is in
    answer     \* what it will return, once the call has taken effect

vars == <<store, call, answer>>

Pending  == [ret |-> NULL, out |-> <<>>]
NoCall   == [op |-> "none", key |-> NULL, value |-> NULL]
Stored   == {e[1] : e \in store}

Requests ==
    [op : {"add"}, key : Keys, value : Values]
    \cup [op : {"del", "lookup"}, key : Keys, value : {NULL}]
    \cup [op : {"print_info"}, key : {NULL}, value : {NULL}]

Answer(t, r, o) == answer' = [answer EXCEPT ![t] = [ret |-> r, out |-> o]]

Init ==
    /\ store = {}
    /\ call = [t \in Threads |-> NoCall]
    /\ answer = [t \in Threads |-> Pending]

Invoke(t) ==
    /\ call[t] = NoCall
    /\ \E c \in Requests : call' = [call EXCEPT ![t] = c]
    /\ UNCHANGED <<store, answer>>

\* A malformed call fails and does nothing.
Refuse(t) ==
    /\ call[t] = NoCall
    /\ call' = [call EXCEPT ![t] = [NoCall EXCEPT !.op = "refused"]]
    /\ Answer(t, -1, <<>>)
    /\ UNCHANGED store

In(t, op) == call[t].op = op /\ answer[t] = Pending

Add(t) ==
    /\ In(t, "add") /\ UNCHANGED call
    /\ \/ /\ call[t].key \notin Stored
          /\ store' = store \cup {<<call[t].key, call[t].value>>}
          /\ Answer(t, 0, <<>>)
       \/ Answer(t, -1, <<>>) /\ UNCHANGED store    \* present, or no memory

Del(t) ==
    /\ In(t, "del") /\ UNCHANGED call
    /\ store' = {e \in store : e[1] # call[t].key}
    /\ Answer(t, IF call[t].key \in Stored THEN 0 ELSE -1, <<>>)

Lookup(t) ==
    /\ In(t, "lookup") /\ UNCHANGED <<store, call>>
    /\ \/ \E e \in store : e[1] = call[t].key /\ Answer(t, 0, <<e[2]>>)
       \/ call[t].key \notin Stored /\ Answer(t, 0, <<>>)

\* Every key once, in ascending order.
PrintInfo(t) ==
    /\ In(t, "print_info") /\ UNCHANGED <<store, call>>
    /\ \E q \in [1..Cardinality(Stored) -> Stored] :
        /\ \A i, j \in DOMAIN q : i < j => q[i] < q[j]
        /\ Answer(t, 0, q)

\* Called with no other call in progress.
Terminate(t) ==
    /\ \A u \in Threads : call[u] = NoCall
    /\ store' = {}
    /\ call' = [call EXCEPT ![t] = [NoCall EXCEPT !.op = "terminate"]]
    /\ UNCHANGED answer

Terminated(t) ==
    /\ In(t, "terminate") /\ Answer(t, 0, <<>>)
    /\ UNCHANGED <<store, call>>

Return(t) ==
    /\ answer[t] # Pending
    /\ call' = [call EXCEPT ![t] = NoCall]
    /\ answer' = [answer EXCEPT ![t] = Pending]
    /\ UNCHANGED store

Next == \E t \in Threads :
    \/ Invoke(t) \/ Refuse(t) \/ Terminate(t)
    \/ Add(t) \/ Del(t) \/ Lookup(t) \/ PrintInfo(t) \/ Terminated(t)
    \/ Return(t)

Spec == Init /\ [][Next]_vars
=============================================================================
