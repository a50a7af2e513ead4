-------------------------- MODULE BinaryTreeReader --------------------------
(***************************************************************************)
(* The binary tree with a history variable: whether the key a thread looks *)
(* up has been in the tree ever since its call began.                      *)
(***************************************************************************)
EXTENDS BinaryTree

VARIABLE held

\* A key is in the tree until del has cut its node off.
CutOff(a)  == \E t \in Writers : cur[t] = a /\ pc[t] \in {"bottom", "free"}
Present(t) == \E a \in Nodes : key[a] = call[t].key /\ ~CutOff(a)

ReaderInit == Init /\ held = [t \in Readers |-> FALSE]

ReaderNext ==
    /\ Next
    /\ held' = [t \in Readers |-> /\ call'[t].op = "lookup"
                                  /\ pc[t] = "idle" \/ held[t]
                                  /\ Present(t)']

ReaderSpec == ReaderInit /\ [][ReaderNext]_<<vars, held>>

\* binary-tree.h:9, "thread-safe": a key that stays in the tree throughout a
\* lookup is found.
SteadyKeyFound ==
    \A t \in Readers :
        pc[t] = "return" /\ call[t].op = "lookup" /\ held[t] => out[t] # <<>>
=============================================================================
