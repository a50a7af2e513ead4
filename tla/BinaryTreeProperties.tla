------------------------ MODULE BinaryTreeProperties ------------------------
(***************************************************************************)
(* What the binary tree must guarantee, and the mapping under which it     *)
(* implements the Dictionary of binary-tree.h.                             *)
(***************************************************************************)
EXTENDS BinaryTree

Op == {"none", "refused", "add", "del", "lookup", "print_info", "terminate"}
Request == [op : Op, key : Keys \cup {NULL}, long : BOOLEAN, value : Values \cup {NULL}]
Frame == [node : Addr \cup {Wild}, at : {"pre", "in", "post"}]

\* Every variable holds a value of its kind: children are blocks or NULL, the
\* root may in addition be what malloc left there, counters are integers.
TypeOK ==
    /\ tree \in {"none", "up", "closing"}
    /\ root \in Ptr \cup {Wild} /\ count \in Int /\ lock \in Threads \cup {NULL}
    /\ block \in [Addr -> {"free", "raw", "node"}]
    /\ key   \in [Addr -> Keys \cup {NULL}]
    /\ value \in [Addr -> Values \cup {NULL}]
    /\ child \in [Addr -> [Side -> Ptr]]
    /\ size  \in [Addr -> [Side -> Int]]
    /\ pc    \in [Threads -> Labels]
    /\ call  \in [Threads -> Request]
    /\ cur   \in [Threads -> Ptr \cup {Wild}]
    /\ par   \in [Threads -> Slot]
    /\ tmp   \in [Threads -> Ptr]
    /\ path  \in [Threads -> SUBSET (Addr \X Side)]
    /\ stack \in [Threads -> Seq(Frame)]
    /\ out   \in [Threads -> Seq(Keys \cup Values \cup {NULL})]
    /\ ret   \in [Threads -> {NULL, 0, -1}]
    /\ fault \in {"none", "null", "wild", "freed", "uninitialised"}

-----------------------------------------------------------------------------
(* The shape of the tree *)

\* The nodes under p: the least set of blocks that holds p and is closed
\* under the child pointers.
ClosedUnderChild(S) == \A a \in S, s \in Side : child[a][s] # NULL => child[a][s] \in S
Below(p) == {x \in Addr : \A S \in SUBSET Addr :
                ClosedUnderChild(S) /\ (p # NULL => p \in S) => x \in S}

Incoming(a) == {slot \in Nodes \X Side : child[slot[1]][slot[2]] = a}
               \cup (IF root = a THEN {RootSlot} ELSE {})

Quiet == tree = "up" /\ lock = NULL

\* Whenever the mutex is free the reachable blocks are exactly the initialised
\* nodes, each pointed to from one place: add and del (unlink, walk to the
\* bottom, graft, free) never leak a subtree, nor leave a dangling or a
\* shared pointer.
TreeIntact ==
    Quiet /\ root # Wild =>
             /\ Below(root) = Nodes
             /\ \A a \in Addr : block[a] # "raw"
             /\ \A a \in Nodes : Cardinality(Incoming(a)) = 1

\* Even in the middle of a del, a search is led the right way: what hangs left
\* of a reachable node has a smaller key, what hangs right of it has not
\* (equal keys come from arguments that init_node cuts off).
SearchOrder ==
    fault = "none" /\ tree = "up" =>
        \A a \in Below(root) \cap Nodes :
            /\ \A x \in Below(child[a]["left"])  \cap Nodes : key[x] < key[a]
            /\ \A x \in Below(child[a]["right"]) \cap Nodes : key[x] >= key[a]

\* tree->count, corrected after the recursion has unwound, is the number of
\* nodes whenever the mutex is free; terminate relies on it.
CountIsPopulation == Quiet => count = Cardinality(Nodes)

\* left_count and right_count never promise more nodes than there are below,
\* although a graft adds a subtree under nodes whose counters del ignores.
CountersNeverOverstate ==
    Quiet => \A a \in Nodes, s \in Side : size[a][s] <= Cardinality(Below(child[a][s]))

\* terminate gives every block back.
NothingLeaked == tree = "none" => Free = Addr

\* As long as no reader runs beside a writer, only two things go wrong: del
\* looks at the root of an empty tree, and the first call on a tree follows the
\* root that initialize left as it was.
OnlyKnownFaults ==
    fault # "none" =>
        \/ fault = "null" /\ root = NULL /\ lock # NULL /\ call[lock].op = "del"
        \/ fault = "wild" /\ root = Wild /\ count = 0

\* Whoever holds the mutex is between its lock and its unlock, and nobody else
\* is: every failure path of add and del gives the mutex back, once.
MutexHeldInside ==
    \A t \in Threads : lock = t <=> pc[t] \in {"add", "init", "del", "unlink", "bottom",
                                               "free", "unlock"}

-----------------------------------------------------------------------------
(* Progress *)

\* Programs that read the tree only while nobody else is in a call, as
\* use-tree.c does: what a reader beside a writer meets is BinaryTreeReader's.
ReaderAlone ==
    \A t \in Threads : call[t].op \in {"lookup", "print_info"} =>
                          \A u \in Threads \ {t} : pc[u] = "idle"
AloneSpec == Init /\ [][Next /\ ReaderAlone']_vars

\* A call of the only thread returns, unless the process is lost: the mutex is
\* free again after every earlier call, however it ended, and no walk, the one
\* of get_bottom_child_node and the recursions included, meets a cycle.
CallsReturn == \A t \in Threads : pc[t] # "idle" ~> pc[t] = "idle" \/ fault # "none"

-----------------------------------------------------------------------------
(* Refinement: add takes effect when its node is filled in, del when the   *)
(* node is freed, each under the mutex.                                    *)

Dict == INSTANCE Dictionary WITH
    store  <- IF tree = "up" THEN {<<key[a], value[a]>> : a \in Nodes} ELSE {},
    call   <- [t \in Threads |-> [op |-> call[t].op, key |-> call[t].key,
                                  value |-> call[t].value]],
    answer <- [t \in Threads |-> IF ret[t] = NULL THEN [ret |-> NULL, out |-> <<>>]
                                 ELSE [ret |-> ret[t], out |-> out[t]]]

\* However the calls interleave, each takes effect at one instant between its
\* invocation and its return, and answers what the dictionary then holds.
Linearizable == Dict!Spec

=============================================================================
