----------------------------- MODULE BinaryTree -----------------------------
(***************************************************************************)
(* The "thread-safe unbalanced binary tree" of tlpi-chapter29-33:          *)
(* binary-tree.c, at the grain of its accesses to shared memory.  add and  *)
(* del run under tree->lock; lookup and print_info take no lock; terminate *)
(* takes none either and is called when no other call is in progress, as   *)
(* use-tree.c does.                                                        *)
(*                                                                         *)
(* Memory is a set of blocks.  malloc turns a free block into a "raw" one, *)
(* init_node into a "node", free gives it back.  What a raw or a free      *)
(* block holds is indeterminate: a thread that reads one, or follows NULL  *)
(* or an uninitialised pointer, has no defined behaviour, and the model    *)
(* stops there with the reason in fault.                                   *)
(*                                                                         *)
(* A key argument is the 63 characters that init_node keeps of it, an      *)
(* element of the ordered set Keys, and whether it is longer than that.    *)
(*                                                                         *)
(* A definition that precedes another one of the same parameters and has   *)
(* its name plus a word (OtherMixedUp) is a slip one could make in the     *)
(* code; nothing uses it, and the properties are judged by it.             *)
(***************************************************************************)
EXTENDS Integers, Sequences, FiniteSets

CONSTANTS
    Addr,         \* the blocks malloc can hand out
    Keys,         \* the keys a node can hold, in strncmp order
    LongKeys,     \* those that are a cut-off longer argument in some call
    Values,       \* the values stored
    Writers,      \* threads that call add, del, terminate
    Readers,      \* threads that call lookup, print_info
    FreshRoots,   \* what tree->root may hold after malloc(sizeof(BINARY_TREE))
    NULL, Wild    \* the null pointer; a pointer to no block

ASSUME ConstantsAssumption ==
    /\ IsFiniteSet(Addr) /\ NULL \notin Addr /\ Wild \notin Addr /\ NULL # Wild
    /\ Keys \subseteq Int /\ LongKeys \subseteq Keys
    /\ NULL \notin Values /\ NULL \notin Writers \cup Readers /\ NULL \notin Int
    /\ FreshRoots \subseteq {NULL, Wild}

VARIABLES
    tree,                             \* "none", "up" or "closing" (in terminate)
    root, count, lock,                \* struct tree_st
    block, key, value, child, size,   \* the heap: struct node_st
    pc, call,                         \* where each thread is, in which call
    cur, par, tmp, path,              \* root, (parent, comp), tmp of that call
    stack, out, ret,                  \* recursion of traverse_tree; output; result
    fault                             \* undefined behaviour met, or "none"

treeVars  == <<tree, root, count, lock>>
heapVars  == <<block, key, value, child, size>>
walkVars  == <<cur, par, tmp, path>>
frameVars == <<stack, out>>
vars == <<treeVars, heapVars, pc, call, walkVars, frameVars, ret, fault>>

Threads == Writers \cup Readers
Ptr     == Addr \cup {NULL}
Side    == {"left", "right"}
OtherMixedUp(s) == s
Other(s) == IF s = "left" THEN "right" ELSE "left"

\* A slot is a place that holds a pointer to a node: a child field of a node,
\* or tree->root, which del treats like the left field of a parent.
Slot     == Ptr \X Side
RootSlot == <<NULL, "left">>

Args    == {a \in [key : Keys, long : BOOLEAN] : a.long => a.key \in LongKeys}
NoCall  == [op |-> "none", key |-> NULL, long |-> FALSE, value |-> NULL]
Call(op, a, v) == [op |-> op, key |-> a.key, long |-> a.long, value |-> v]
Calls(t) ==
    (IF t \in Writers
     THEN {Call("add", a, v) : a \in Args, v \in Values} \cup {Call("del", a, NULL) : a \in Args}
     ELSE {})
    \cup
    (IF t \in Readers
     THEN {Call("lookup", a, NULL) : a \in Args} \cup {[NoCall EXCEPT !.op = "print_info"]}
     ELSE {})

Labels == {"idle", "lock", "add", "init", "del", "unlink", "bottom", "free",
           "unlock", "lookup", "copy", "traverse", "return"}

Nodes == {a \in Addr : block[a] = "node"}
Free  == {a \in Addr : block[a] = "free"}
NoChild == [s \in Side |-> NULL]
Zero    == [s \in Side |-> 0]

Goto(t, l)   == pc' = [pc EXCEPT ![t] = l]
Answer(t, r) == ret' = [ret EXCEPT ![t] = r]

\* strncmp(key, root->key, KEY_SIZE): an argument longer than the 63
\* characters kept of it never equals a stored key, and sorts after its own.
TowardNoEqual(c, k) == IF c.key <= k THEN "left" ELSE "right"
Toward(c, k) == IF c.key < k THEN "left"
                ELSE IF c.key > k \/ c.long THEN "right" ELSE "here"

-----------------------------------------------------------------------------
(* Undefined behaviour *)

\* Reading *p is defined only for an initialised node.
Valid(p) == p \in Nodes

FaultAt(p) == IF p = NULL THEN "null" ELSE IF p = Wild THEN "wild"
              ELSE IF block[p] = "free" THEN "freed" ELSE "uninitialised"

\* The pointer the thread is about to follow.
Pending(t) == IF pc[t] \in {"add", "del", "lookup", "copy"} THEN cur[t]
              ELSE IF pc[t] = "bottom" THEN tmp[t]
              ELSE IF pc[t] = "traverse" /\ stack[t] # <<>> THEN Head(stack[t]).node
              ELSE NULL

Follows(t) == \/ pc[t] \in {"del", "copy", "bottom"}
              \/ pc[t] \in {"add", "lookup"} /\ cur[t] # NULL
              \/ pc[t] = "traverse" /\ stack[t] # <<>>

Fault(t) ==
    /\ Follows(t) /\ ~Valid(Pending(t))
    /\ fault' = FaultAt(Pending(t))
    /\ UNCHANGED <<treeVars, heapVars, pc, call, walkVars, frameVars, ret>>

-----------------------------------------------------------------------------
(* Starting and finishing a call *)

\* traverse_tree(p), not yet begun: nothing to do for NULL.
Frames(p) == IF p = NULL THEN <<>> ELSE <<[node |-> p, at |-> "pre"]>>

\* initialize: tree->root keeps whatever malloc returned.
Initialize(t) ==
    /\ tree = "none" /\ pc[t] = "idle"
    /\ tree' = "up" /\ count' = 0 /\ lock' = NULL
    /\ root' \in FreshRoots
    /\ UNCHANGED <<heapVars, pc, call, walkVars, frameVars, ret, fault>>

Invoke(t) ==
    /\ tree = "up" /\ pc[t] = "idle"
    /\ \E c \in Calls(t) :
        /\ call' = [call EXCEPT ![t] = c]
        /\ Goto(t, CASE c.op \in {"add", "del"} -> "lock"
                     [] c.op = "lookup"         -> "lookup"
                     [] c.op = "print_info"     -> "traverse")
        /\ cur' = [cur EXCEPT ![t] = IF c.op = "lookup" THEN root ELSE NULL]
        /\ stack' = [stack EXCEPT ![t] =
                        IF c.op = "print_info" THEN Frames(root) ELSE <<>>]
    /\ UNCHANGED <<treeVars, heapVars, par, tmp, path, out, ret, fault>>

\* A null or empty key or value, or a null tree, is turned away at once.
Refuse(t) ==
    /\ tree = "up" /\ pc[t] = "idle"
    /\ call' = [call EXCEPT ![t] = [NoCall EXCEPT !.op = "refused"]]
    /\ Answer(t, -1) /\ Goto(t, "return")
    /\ UNCHANGED <<treeVars, heapVars, walkVars, frameVars, fault>>

Return(t) ==
    /\ pc[t] = "return"
    /\ Goto(t, "idle")
    /\ call' = [call EXCEPT ![t] = NoCall]
    /\ cur'  = [cur EXCEPT ![t] = NULL]
    /\ par'  = [par EXCEPT ![t] = RootSlot]
    /\ tmp'  = [tmp EXCEPT ![t] = NULL]
    /\ path' = [path EXCEPT ![t] = {}]
    /\ out'  = [out EXCEPT ![t] = <<>>]
    /\ Answer(t, NULL)
    /\ UNCHANGED <<treeVars, heapVars, stack, fault>>

MutexFreeUnchecked == TRUE
MutexFree == lock = NULL

\* pthread_mutex_lock, then root = tree->root.
Lock(t) ==
    /\ pc[t] = "lock" /\ MutexFree
    /\ lock' = t
    /\ cur' = [cur EXCEPT ![t] = root]
    /\ Goto(t, call[t].op)
    /\ UNCHANGED <<tree, root, count, heapVars, call, par, tmp, path, frameVars, ret, fault>>

DeltaUnsigned(t) == 1
Delta(t) == IF call[t].op = "add" THEN 1 ELSE -1

SucceededAnyway(t) == TRUE
Succeeded(t) == ret[t] = 0

\* The recursion unwinds: on success every node on the path corrects its
\* counter, and tree->count follows; then the mutex is released.
Unlock(t) ==
    /\ pc[t] = "unlock"
    /\ lock' = NULL
    /\ IF Succeeded(t)
       THEN /\ count' = count + Delta(t)
            /\ size' = [a \in Addr |-> [s \in Side |->
                           IF <<a, s>> \in path[t] THEN size[a][s] + Delta(t) ELSE size[a][s]]]
       ELSE UNCHANGED <<count, size>>
    /\ Goto(t, "return")
    /\ UNCHANGED <<tree, root, block, key, value, child, call, walkVars, frameVars, ret, fault>>

\* A failure is answered after the mutex is released.
FailLocked(t) ==
    /\ Answer(t, -1) /\ Goto(t, "return")
    /\ UNCHANGED <<treeVars, heapVars, call, walkVars, frameVars, fault>>
Fail(t) ==
    /\ Answer(t, -1) /\ Goto(t, "unlock")
    /\ UNCHANGED <<treeVars, heapVars, call, walkVars, frameVars, fault>>

-----------------------------------------------------------------------------
(* add *)

InitNode(t, a) ==
    /\ block' = [block EXCEPT ![a] = "node"]
    /\ key'   = [key EXCEPT ![a] = call[t].key]
    /\ value' = [value EXCEPT ![a] = call[t].value]
    /\ child' = [child EXCEPT ![a] = NoChild]
    /\ size'  = [size EXCEPT ![a] = Zero]

\* An empty tree: the new root is filled in before it is published.
AddRoot(t) ==
    /\ pc[t] = "add" /\ cur[t] = NULL
    /\ \E a \in Free : InitNode(t, a) /\ root' = a
    /\ Answer(t, 0) /\ Goto(t, "unlock")
    /\ UNCHANGED <<tree, count, lock, call, walkVars, frameVars, fault>>

\* malloc may always fail.
AddNoMemory(t) ==
    /\ pc[t] = "add"
    /\ \/ cur[t] = NULL
       \/ /\ Valid(cur[t])
          /\ LET s == Toward(call[t], key[cur[t]])
             IN s # "here" /\ child[cur[t]][s] = NULL
    /\ Fail(t)

AddDuplicate(t) ==
    /\ pc[t] = "add" /\ Valid(cur[t])
    /\ Toward(call[t], key[cur[t]]) = "here"
    /\ Fail(t)

\* Both walks go down one level the same way.
Descend(t, s) ==
    /\ child[cur[t]][s] # NULL
    /\ cur'  = [cur EXCEPT ![t] = child[cur[t]][s]]
    /\ par'  = [par EXCEPT ![t] = <<cur[t], s>>]
    /\ path' = [path EXCEPT ![t] = @ \cup {<<cur[t], s>>}]
    /\ UNCHANGED <<treeVars, heapVars, pc, call, tmp, frameVars, ret, fault>>

AddDescend(t) ==
    /\ pc[t] = "add" /\ Valid(cur[t])
    /\ \E s \in Side : Toward(call[t], key[cur[t]]) = s /\ Descend(t, s)

\* A leaf: the parent's field points to the new block before init_node runs.
AddLeaf(t) ==
    /\ pc[t] = "add" /\ Valid(cur[t])
    /\ \E s \in Side, a \in Free :
        /\ Toward(call[t], key[cur[t]]) = s /\ child[cur[t]][s] = NULL
        /\ block' = [block EXCEPT ![a] = "raw"]
        /\ child' = [child EXCEPT ![cur[t]][s] = a]
        /\ tmp'   = [tmp EXCEPT ![t] = a]
        /\ path'  = [path EXCEPT ![t] = @ \cup {<<cur[t], s>>}]
    /\ Goto(t, "init")
    /\ UNCHANGED <<treeVars, key, value, size, call, cur, par, frameVars, ret, fault>>

AddInit(t) ==
    /\ pc[t] = "init"
    /\ InitNode(t, tmp[t])
    /\ Answer(t, 0) /\ Goto(t, "unlock")
    /\ UNCHANGED <<treeVars, call, walkVars, frameVars, fault>>

-----------------------------------------------------------------------------
(* del *)

DelDescend(t) ==
    /\ pc[t] = "del" /\ Valid(cur[t])
    /\ \E s \in Side : Toward(call[t], key[cur[t]]) = s /\ Descend(t, s)

DelMissing(t) ==
    /\ pc[t] = "del" /\ Valid(cur[t])
    /\ LET s == Toward(call[t], key[cur[t]])
       IN s # "here" /\ child[cur[t]][s] = NULL
    /\ Fail(t)

DelFound(t) ==
    /\ pc[t] = "del" /\ Valid(cur[t])
    /\ Toward(call[t], key[cur[t]]) = "here"
    /\ Goto(t, "unlink")
    /\ UNCHANGED <<treeVars, heapVars, call, walkVars, frameVars, ret, fault>>

SetSlotNoRoot(slot, p) ==
    /\ child' = IF slot = RootSlot THEN child ELSE [child EXCEPT ![slot[1]][slot[2]] = p]
    /\ UNCHANGED root
SetSlot(slot, p) ==
    IF slot = RootSlot
    THEN root' = p /\ UNCHANGED child
    ELSE child' = [child EXCEPT ![slot[1]][slot[2]] = p] /\ UNCHANGED root

\* The victim hangs on side s of its parent.  Without a child on the other
\* side its s-child replaces it; otherwise the other child does, and the
\* s-child is to be grafted below the last node on side s of it.
DelUnlink(t) ==
    LET s   == par[t][2]
        kid == child[cur[t]][Other(s)]
    IN  /\ pc[t] = "unlink"
        /\ IF kid = NULL
           THEN SetSlot(par[t], child[cur[t]][s]) /\ Goto(t, "free") /\ UNCHANGED tmp
           ELSE SetSlot(par[t], kid) /\ Goto(t, "bottom") /\ tmp' = [tmp EXCEPT ![t] = kid]
        /\ UNCHANGED <<tree, count, lock, block, key, value, size, call, cur, par, path,
                       frameVars, ret, fault>>

\* get_bottom_child_node
DelBottom(t) ==
    LET s == par[t][2]
    IN  /\ pc[t] = "bottom" /\ Valid(tmp[t])
        /\ child[tmp[t]][s] # NULL
        /\ tmp' = [tmp EXCEPT ![t] = child[tmp[t]][s]]
        /\ UNCHANGED <<treeVars, heapVars, pc, call, cur, par, path, frameVars, ret, fault>>

DelGraft(t) ==
    LET s == par[t][2]
    IN  /\ pc[t] = "bottom" /\ Valid(tmp[t])
        /\ child[tmp[t]][s] = NULL
        /\ child' = [child EXCEPT ![tmp[t]][s] = child[cur[t]][s]]
        /\ Goto(t, "free")
        /\ UNCHANGED <<treeVars, block, key, value, size, call, walkVars, frameVars, ret, fault>>

\* What a freed block holds is indeterminate; every read of it is a fault.
Release(a) ==
    /\ block' = [block EXCEPT ![a] = "free"]
    /\ key'   = [key EXCEPT ![a] = NULL]
    /\ value' = [value EXCEPT ![a] = NULL]
    /\ child' = [child EXCEPT ![a] = NoChild]
    /\ size'  = [size EXCEPT ![a] = Zero]

DelFree(t) ==
    /\ pc[t] = "free"
    /\ Release(cur[t])
    /\ Answer(t, 0) /\ Goto(t, "unlock")
    /\ UNCHANGED <<treeVars, call, walkVars, frameVars, fault>>

-----------------------------------------------------------------------------
(* lookup: no lock; it answers 0 whether or not the key is there *)

LookupEnd(t) ==
    /\ Answer(t, 0) /\ Goto(t, "return")
    /\ UNCHANGED <<treeVars, heapVars, call, walkVars, stack, fault>>

LookupMiss(t) ==
    /\ pc[t] = "lookup"
    /\ \/ cur[t] = NULL
       \/ /\ Valid(cur[t])
          /\ LET s == Toward(call[t], key[cur[t]])
             IN s # "here" /\ child[cur[t]][s] = NULL
    /\ UNCHANGED out /\ LookupEnd(t)

LookupDescend(t) ==
    /\ pc[t] = "lookup" /\ Valid(cur[t])
    /\ \E s \in Side :
        /\ Toward(call[t], key[cur[t]]) = s /\ child[cur[t]][s] # NULL
        /\ cur' = [cur EXCEPT ![t] = child[cur[t]][s]]
    /\ UNCHANGED <<treeVars, heapVars, pc, call, par, tmp, path, frameVars, ret, fault>>

LookupHit(t) ==
    /\ pc[t] = "lookup" /\ Valid(cur[t])
    /\ Toward(call[t], key[cur[t]]) = "here"
    /\ Goto(t, "copy")
    /\ UNCHANGED <<treeVars, heapVars, call, walkVars, frameVars, ret, fault>>

LookupCopy(t) ==
    /\ pc[t] = "copy" /\ Valid(cur[t])
    /\ out' = [out EXCEPT ![t] = <<value[cur[t]]>>]
    /\ LookupEnd(t)

-----------------------------------------------------------------------------
(* traverse_tree: in order with print_func for print_info, in post order    *)
(* with the freeing handler for terminate; no lock                          *)

Visit(t) ==
    LET f == Head(stack[t])
        n == f.node
        below == Tail(stack[t])
    IN  /\ pc[t] = "traverse" /\ stack[t] # <<>> /\ Valid(n)
        /\ \/ /\ f.at = "pre"
              /\ stack' = [stack EXCEPT ![t] = Frames(child[n]["left"])
                                               \o <<[f EXCEPT !.at = "in"]>> \o below]
              /\ UNCHANGED <<out, heapVars>>
           \/ /\ f.at = "in"
              /\ stack' = [stack EXCEPT ![t] = Frames(child[n]["right"])
                                               \o <<[f EXCEPT !.at = "post"]>> \o below]
              /\ out' = IF call[t].op = "print_info"
                        THEN [out EXCEPT ![t] = Append(@, key[n])] ELSE out
              /\ UNCHANGED heapVars
           \/ /\ f.at = "post"
              /\ stack' = [stack EXCEPT ![t] = below]
              /\ IF call[t].op = "terminate" THEN Release(n) ELSE UNCHANGED heapVars
              /\ UNCHANGED out
        /\ UNCHANGED <<treeVars, pc, call, walkVars, ret, fault>>

PrintEnd(t) ==
    /\ pc[t] = "traverse" /\ stack[t] = <<>> /\ call[t].op = "print_info"
    /\ Answer(t, 0) /\ Goto(t, "return")
    /\ UNCHANGED <<treeVars, heapVars, call, walkVars, frameVars, fault>>

\* The recursion over the nodes starts only if the tree counts some.
WholeTreeOffByOne == IF count > 1 THEN Frames(root) ELSE <<>>
WholeTree == IF count > 0 THEN Frames(root) ELSE <<>>

Terminate(t) ==
    /\ t \in Writers /\ tree = "up" /\ \A u \in Threads : pc[u] = "idle"
    /\ tree' = "closing"
    /\ call' = [call EXCEPT ![t] = [NoCall EXCEPT !.op = "terminate"]]
    /\ stack' = [stack EXCEPT ![t] = WholeTree]
    /\ Goto(t, "traverse")
    /\ UNCHANGED <<root, count, lock, heapVars, walkVars, out, ret, fault>>

TerminateEnd(t) ==
    /\ pc[t] = "traverse" /\ stack[t] = <<>> /\ call[t].op = "terminate"
    /\ tree' = "none" /\ root' = NULL /\ count' = 0 /\ lock' = NULL
    /\ Answer(t, 0) /\ Goto(t, "return")
    /\ UNCHANGED <<heapVars, call, walkVars, frameVars, fault>>

-----------------------------------------------------------------------------
Init ==
    /\ tree = "none" /\ root = NULL /\ count = 0 /\ lock = NULL
    /\ block = [a \in Addr |-> "free"]
    /\ key   = [a \in Addr |-> NULL]
    /\ value = [a \in Addr |-> NULL]
    /\ child = [a \in Addr |-> NoChild]
    /\ size  = [a \in Addr |-> Zero]
    /\ pc    = [t \in Threads |-> "idle"]
    /\ call  = [t \in Threads |-> NoCall]
    /\ cur   = [t \in Threads |-> NULL]
    /\ par   = [t \in Threads |-> RootSlot]
    /\ tmp   = [t \in Threads |-> NULL]
    /\ path  = [t \in Threads |-> {}]
    /\ stack = [t \in Threads |-> <<>>]
    /\ out   = [t \in Threads |-> <<>>]
    /\ ret   = [t \in Threads |-> NULL]
    /\ fault = "none"

Add(t)    == AddRoot(t) \/ AddNoMemory(t) \/ AddDuplicate(t) \/ AddDescend(t)
             \/ AddLeaf(t) \/ AddInit(t)
Del(t)    == DelDescend(t) \/ DelMissing(t) \/ DelFound(t) \/ DelUnlink(t)
             \/ DelBottom(t) \/ DelGraft(t) \/ DelFree(t)
Lookup(t) == LookupMiss(t) \/ LookupDescend(t) \/ LookupHit(t) \/ LookupCopy(t)
Traverse(t) == Visit(t) \/ PrintEnd(t) \/ TerminateEnd(t)

\* The steps of a call once it has begun: a running thread takes them.
Run(t) == Lock(t) \/ Unlock(t) \/ Add(t) \/ Del(t) \/ Lookup(t) \/ Traverse(t)
          \/ Return(t) \/ Fault(t)
Start(t) == Initialize(t) \/ Invoke(t) \/ Refuse(t) \/ Terminate(t)

Next == fault = "none" /\ \E t \in Threads : Start(t) \/ Run(t)

Spec == Init /\ [][Next]_vars

\* The scheduler runs every thread that can take a step.
FairSpec == Spec /\ \A t \in Threads : WF_vars(fault = "none" /\ Run(t))
=============================================================================
