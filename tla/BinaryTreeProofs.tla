-------------------------- MODULE BinaryTreeProofs --------------------------
(***************************************************************************)
(* Theorems about BinaryTree, for any number of threads, blocks, keys and  *)
(* values.                                                                 *)
(***************************************************************************)
EXTENDS BinaryTreeProperties, SequenceTheorems, FiniteSetTheorems, TLAPS

\* A thread is at the labels of the call it makes only, and what del has found
\* is a block.
CallInv ==
    \A t \in Threads :
        /\ pc[t] = "lock" => call[t].op \in {"add", "del"}
        /\ pc[t] \in {"unlink", "bottom", "free"} => cur[t] \in Addr
        /\ pc[t] = "init" => tmp[t] \in Addr

TypeInv == TypeOK /\ CallInv

LEMMA UpdateType ==
    ASSUME NEW A, NEW B, NEW C, NEW f \in [A -> [B -> C]], NEW a, NEW b, NEW c \in C
    PROVE  [f EXCEPT ![a][b] = c] \in [A -> [B -> C]]
OBVIOUS

LEMMA ReplaceType ==
    ASSUME NEW A, NEW C, NEW f \in [A -> C], NEW a, NEW c \in C
    PROVE  [f EXCEPT ![a] = c] \in [A -> C]
OBVIOUS

LEMMA FramesType ==
    ASSUME NEW p \in Ptr \cup {Wild}
    PROVE  Frames(p) \in Seq(Frame)
<1>1. CASE p = NULL
    BY <1>1, EmptySeq DEF Frames
<1>2. CASE p # NULL
    <2> DEFINE f == [node |-> p, at |-> "pre"]
    <2>1. f \in Frame
        BY <1>2 DEF Frame, Ptr
    <2>2. <<f>> \in Seq(Frame)
        BY <2>1
    <2> QED
        BY <1>2, <2>2 DEF Frames
<1> QED
    BY <1>1, <1>2

LEMMA CallsType ==
    ASSUME NEW t, NEW c \in Calls(t)
    PROVE  /\ c \in Request
           /\ c.op \in {"add", "del", "lookup", "print_info"}
<1>1. CASE \E a \in Args, v \in Values \cup {NULL}, op \in {"add", "del", "lookup"} :
               c = Call(op, a, v)
    BY <1>1 DEF Call, Args, Op, Request
<1>2. CASE c = [NoCall EXCEPT !.op = "print_info"]
    BY <1>2 DEF NoCall, Op, Request
<1> QED
    BY <1>1, <1>2 DEF Calls

LEMMA NoCallType == \A o \in Op : [NoCall EXCEPT !.op = o] \in Request
BY DEF NoCall, Op, Request

LEMMA TypeInit == Init => TypeInv
<1> SUFFICES ASSUME Init PROVE TypeInv
    OBVIOUS
<1> USE DEF Init
<1>1. stack \in [Threads -> Seq(Frame)] /\ out \in [Threads -> Seq(Keys \cup Values \cup {NULL})]
    BY EmptySeq
<1>2. call \in [Threads -> Request]
    BY DEF NoCall, Request, Op
<1>3. par \in [Threads -> Slot] /\ path \in [Threads -> SUBSET (Addr \X Side)]
    BY DEF RootSlot, Slot, Ptr, Side
<1>4. child \in [Addr -> [Side -> Ptr]] /\ size \in [Addr -> [Side -> Int]]
    BY DEF NoChild, Zero, Ptr
<1>5. pc \in [Threads -> Labels] /\ CallInv
    BY DEF Labels, CallInv
<1> QED
    BY <1>1, <1>2, <1>3, <1>4, <1>5 DEF TypeInv, TypeOK, Ptr

LEMMA TypeNext == TypeInv /\ [Next]_vars => TypeInv'
<1> SUFFICES ASSUME TypeInv, [Next]_vars PROVE TypeInv'
    OBVIOUS
<1> USE DEF TypeInv, TypeOK, CallInv, treeVars, heapVars, walkVars, frameVars
<1>1. CASE UNCHANGED vars
    BY <1>1 DEF vars
<1>2. ASSUME NEW t \in Threads, Start(t) PROVE TypeInv'
    <2>1. CASE Initialize(t)
        BY <2>1, ConstantsAssumption DEF Initialize, Ptr
    <2>2. CASE Invoke(t)
        <3> PICK c \in Calls(t) :
                /\ call' = [call EXCEPT ![t] = c]
                /\ Goto(t, CASE c.op \in {"add", "del"} -> "lock"
                             [] c.op = "lookup"         -> "lookup"
                             [] c.op = "print_info"     -> "traverse")
                /\ cur' = [cur EXCEPT ![t] = IF c.op = "lookup" THEN root ELSE NULL]
                /\ stack' = [stack EXCEPT ![t] =
                                IF c.op = "print_info" THEN Frames(root) ELSE <<>>]
            BY <2>2 DEF Invoke
        <3>1. c \in Request /\ c.op \in {"add", "del", "lookup", "print_info"}
            BY CallsType
        <3>2. Frames(root) \in Seq(Frame) /\ <<>> \in Seq(Frame)
            BY FramesType
        <3>3. stack' \in [Threads -> Seq(Frame)]
            BY <3>2
        <3>4. pc' \in [Threads -> Labels]
            BY <3>1 DEF Goto, Labels
        <3>5. pc[t] = "idle"
            BY <2>2 DEF Invoke
        <3>6. \A u \in Threads : pc'[u] = "lock" => call'[u].op \in {"add", "del"}
            BY <3>1 DEF Goto
        <3>7. \A u \in Threads : pc'[u] \in {"unlink", "bottom", "free"} => cur'[u] \in Addr
            BY <3>1 DEF Goto
        <3> QED
            <4>1. cur' \in [Threads -> Ptr \cup {Wild}] /\ call' \in [Threads -> Request]
                BY <3>1, ReplaceType DEF Ptr
            <4>2. \A u \in Threads : pc'[u] = "init" => tmp'[u] \in Addr
                BY <2>2, <3>1 DEF Invoke, Goto
            <4> QED
                BY <2>2, <3>3, <3>4, <3>6, <3>7, <4>1, <4>2 DEF Invoke
    <2>3. CASE Refuse(t)
        BY <2>3, NoCallType DEF Refuse, Goto, Answer, Labels, Op
    <2>4. CASE Terminate(t)
        <3>1. WholeTree \in Seq(Frame)
            BY FramesType DEF WholeTree
        <3> QED
            BY <2>4, <3>1, NoCallType DEF Terminate, Goto, Labels, Op
    <2> QED
        BY <1>2, <2>1, <2>2, <2>3, <2>4 DEF Start
<1>3. ASSUME NEW t \in Threads, Run(t) PROVE TypeInv'
    <2>1. CASE Lock(t)
        BY <2>1 DEF Lock, Goto, Labels
    <2>2. CASE Unlock(t)
        <3>1. Delta(t) \in Int
            BY DEF Delta
        <3>2. size' \in [Addr -> [Side -> Int]] /\ count' \in Int
            <4>1. CASE Succeeded(t)
                <5>1. \A a \in Addr, s \in Side :
                          (IF <<a, s>> \in path[t] THEN size[a][s] + Delta(t) ELSE size[a][s]) \in Int
                    <6> TAKE a \in Addr, s \in Side
                    <6>1. size[a][s] \in Int
                        OBVIOUS
                    <6> HIDE DEF TypeInv, TypeOK, CallInv
                    <6> QED
                        BY <3>1, <6>1
                <5>2. size' \in [Addr -> [Side -> Int]]
                    <6>1. size' = [a \in Addr |-> [s \in Side |->
                              IF <<a, s>> \in path[t] THEN size[a][s] + Delta(t) ELSE size[a][s]]]
                        BY <2>2, <4>1 DEF Unlock
                    <6> HIDE DEF TypeInv, TypeOK, CallInv
                    <6> QED
                        BY <5>1, <6>1, Zenon
                <5>3. count' \in Int
                    BY <2>2, <3>1, <4>1 DEF Unlock
                <5> QED
                    BY <5>2, <5>3
            <4>2. CASE ~Succeeded(t)
                BY <2>2, <4>2 DEF Unlock
            <4> QED
                BY <4>1, <4>2
        <3> QED
            BY <2>2, <3>2 DEF Unlock, Goto, Labels
    <2>3. CASE Add(t)
        <3>1. CASE AddRoot(t)
            BY <3>1 DEF AddRoot, InitNode, Free, Goto, Answer, Labels, Request, NoChild, Zero, Ptr, Side
        <3>2. CASE AddNoMemory(t) \/ AddDuplicate(t)
            BY <3>2 DEF AddNoMemory, AddDuplicate, Fail, Goto, Answer, Labels
        <3>3. CASE AddDescend(t)
            BY <3>3 DEF AddDescend, Descend, Valid, Nodes, Ptr, Slot
        <3>4. CASE AddLeaf(t)
            BY <3>4 DEF AddLeaf, Valid, Nodes, Free, Ptr, Goto, Labels
        <3>5. CASE AddInit(t)
            BY <3>5 DEF AddInit, InitNode, Goto, Answer, Labels, Request, NoChild, Zero, Ptr, Side
        <3> QED
            BY <2>3, <3>1, <3>2, <3>3, <3>4, <3>5 DEF Add
    <2>4. CASE Del(t)
        <3>1. CASE DelDescend(t)
            BY <3>1 DEF DelDescend, Descend, Valid, Nodes, Ptr, Slot
        <3>2. CASE DelMissing(t)
            BY <3>2 DEF DelMissing, Fail, Goto, Answer, Labels
        <3>3. CASE DelFound(t)
            BY <3>3 DEF DelFound, Valid, Nodes, Goto, Labels
        <3>4. CASE DelUnlink(t)
            <4>1. /\ cur[t] \in Addr /\ par[t] \in Slot
                  /\ par[t][2] \in Side /\ Other(par[t][2]) \in Side
                BY <3>4 DEF DelUnlink, Slot, Other, Side
            <4>2. \A s \in Side : child[cur[t]][s] \in Ptr
                BY <4>1
            <4>3. \A p \in Ptr : SetSlot(par[t], p) =>
                      root' \in Ptr \cup {Wild} /\ child' \in [Addr -> [Side -> Ptr]]
                <5> TAKE p \in Ptr
                <5>1. child \in [Addr -> [Side -> Ptr]] /\ root \in Ptr \cup {Wild}
                    OBVIOUS
                <5> HIDE DEF TypeInv, TypeOK, CallInv
                <5>2. [child EXCEPT ![par[t][1]][par[t][2]] = p] \in [Addr -> [Side -> Ptr]]
                    BY <5>1, UpdateType
                <5> QED
                    BY <5>1, <5>2 DEF SetSlot
            <4>4. root' \in Ptr \cup {Wild} /\ child' \in [Addr -> [Side -> Ptr]]
                BY <3>4, <4>1, <4>2, <4>3 DEF DelUnlink
            <4>5. tmp' \in [Threads -> Ptr] /\ pc' \in [Threads -> Labels]
                BY <3>4, <4>1, <4>2 DEF DelUnlink, Goto, Labels
            <4>6. CallInv'
                BY <3>4, <4>1 DEF DelUnlink, Goto
            <4> QED
                BY <3>4, <4>4, <4>5, <4>6 DEF DelUnlink
        <3>5. CASE DelBottom(t)
            <4>1. par[t] \in Slot /\ tmp[t] \in Addr
                BY <3>5 DEF DelBottom, Valid, Nodes
            <4>2. child[tmp[t]][par[t][2]] \in Ptr
                BY <4>1 DEF Slot
            <4>3. tmp' \in [Threads -> Ptr] /\ CallInv'
                BY <3>5, <4>2 DEF DelBottom
            <4> QED
                BY <3>5, <4>3 DEF DelBottom
        <3>6. CASE DelGraft(t)
            <4>1. cur[t] \in Addr /\ par[t][2] \in Side
                BY <3>6 DEF DelGraft, Slot
            <4>2. child' \in [Addr -> [Side -> Ptr]]
                <5>1. child[cur[t]][par[t][2]] \in Ptr
                    BY <4>1
                <5>2. child' = [child EXCEPT ![tmp[t]][par[t][2]] = child[cur[t]][par[t][2]]]
                    BY <3>6 DEF DelGraft
                <5> HIDE DEF TypeInv, TypeOK, CallInv
                <5>3. child \in [Addr -> [Side -> Ptr]]
                    BY DEF TypeInv, TypeOK
                <5> QED
                    BY <5>1, <5>2, <5>3, UpdateType
            <4> QED
                BY <3>6, <4>2 DEF DelGraft, Goto, Labels
        <3>7. CASE DelFree(t)
            BY <3>7 DEF DelFree, Release, Goto, Answer, Labels, NoChild, Zero, Ptr
        <3> QED
            BY <2>4, <3>1, <3>2, <3>3, <3>4, <3>5, <3>6, <3>7 DEF Del
    <2>5. CASE Lookup(t)
        <3>1. CASE LookupMiss(t)
            BY <3>1 DEF LookupMiss, LookupEnd, Goto, Answer, Labels
        <3>2. CASE LookupDescend(t)
            BY <3>2 DEF LookupDescend, Valid, Nodes, Ptr
        <3>3. CASE LookupHit(t)
            BY <3>3 DEF LookupHit, Goto, Labels
        <3>4. CASE LookupCopy(t)
            BY <3>4 DEF LookupCopy, LookupEnd, Valid, Nodes, Goto, Answer, Labels
        <3> QED
            BY <2>5, <3>1, <3>2, <3>3, <3>4 DEF Lookup
    <2>6. CASE Traverse(t)
        <3>1. CASE Visit(t)
            <4> DEFINE f == Head(stack[t])
                       n == f.node
                       below == Tail(stack[t])
            <4>1. f \in Frame /\ n \in Addr /\ below \in Seq(Frame)
                <5>1. stack[t] \in Seq(Frame) /\ stack[t] # <<>>
                    BY <3>1 DEF Visit
                <5> QED
                    BY <3>1, <5>1, HeadTailProperties DEF Visit, Valid, Nodes, Frame
            <4>2. \A s \in Side : Frames(child[n][s]) \in Seq(Frame)
                BY <4>1, FramesType DEF Ptr
            <4>3. \A l \in {"in", "post"} : <<[f EXCEPT !.at = l]>> \in Seq(Frame)
                <5> TAKE l \in {"in", "post"}
                <5>1. [f EXCEPT !.at = l] \in Frame
                    BY <4>1 DEF Frame
                <5> QED
                    BY <5>1
            <4>4. \A s \in Side, l \in {"in", "post"} :
                      Frames(child[n][s]) \o <<[f EXCEPT !.at = l]>> \o below \in Seq(Frame)
                BY <4>1, <4>2, <4>3, ConcatProperties
            <4>5. stack' \in [Threads -> Seq(Frame)]
                BY <3>1, <4>1, <4>4 DEF Visit, Side
            <4>6. out' \in [Threads -> Seq(Keys \cup Values \cup {NULL})]
                <5>1. key[n] \in Keys \cup Values \cup {NULL}
                    BY <4>1
                <5>2. Append(out[t], key[n]) \in Seq(Keys \cup Values \cup {NULL})
                    BY <5>1, AppendProperties
                <5> QED
                    BY <3>1, <5>2 DEF Visit
            <4>7. /\ block' \in [Addr -> {"free", "raw", "node"}]
                  /\ key'   \in [Addr -> Keys \cup {NULL}]
                  /\ value' \in [Addr -> Values \cup {NULL}]
                  /\ child' \in [Addr -> [Side -> Ptr]]
                  /\ size'  \in [Addr -> [Side -> Int]]
                <5>1. CASE UNCHANGED heapVars
                    BY <5>1
                <5>2. CASE Release(n)
                    <6>1. NoChild \in [Side -> Ptr] /\ Zero \in [Side -> Int]
                        BY DEF NoChild, Zero, Ptr
                    <6> QED
                        BY <5>2, <6>1, ReplaceType DEF Release
                <5> QED
                    BY <3>1, <5>1, <5>2 DEF Visit
            <4> QED
                BY <3>1, <4>5, <4>6, <4>7 DEF Visit
        <3>2. CASE PrintEnd(t)
            BY <3>2 DEF PrintEnd, Goto, Answer, Labels
        <3>3. CASE TerminateEnd(t)
            BY <3>3 DEF TerminateEnd, Goto, Answer, Labels, Ptr, Threads
        <3> QED
            BY <2>6, <3>1, <3>2, <3>3 DEF Traverse
    <2>7. CASE Return(t)
        BY <2>7 DEF Return, Goto, Answer, Labels, NoCall, Request, Op, Slot, RootSlot, Ptr, Side
    <2>8. CASE Fault(t)
        BY <2>8 DEF Fault, FaultAt
    <2> QED
        BY <1>3, <2>1, <2>2, <2>3, <2>4, <2>5, <2>6, <2>7, <2>8 DEF Run
<1> QED
    BY <1>1, <1>2, <1>3 DEF Next

\* Every variable of a running tree keeps its type, whatever the threads do.
THEOREM TypeCorrect == Spec => []TypeOK
<1>1. Init => TypeInv
    BY TypeInit
<1>2. TypeInv /\ [Next]_vars => TypeInv'
    BY TypeNext
<1>3. TypeInv => TypeOK
    BY DEF TypeInv
<1> QED
    BY <1>1, <1>2, <1>3, PTL DEF Spec

-----------------------------------------------------------------------------
\* Between the lock and the unlock of add and del.
Inside == {"add", "init", "del", "unlink", "bottom", "free", "unlock"}

\* The mutex is initialised and destroyed with the tree: neither may happen
\* while a thread is inside, or about to be; and terminate runs alone.
Ending(t) == pc[t] = "traverse" /\ call[t].op = "terminate"

MutexInv ==
    /\ MutexHeldInside
    /\ tree # "up" => \A t \in Threads : pc[t] \notin Inside \cup {"lock"}
    /\ \A t \in Threads : Ending(t) => /\ tree = "closing"
                                        /\ \A u \in Threads : u # t => pc[u] = "idle"

\* A step of one thread that does not touch the mutex.
LEMMA MoveInv ==
    ASSUME TypeOK, MutexInv, NEW t \in Threads, NEW l \in Labels, Goto(t, l),
           lock' = lock, tree' = tree,
           \A u \in Threads : u # t => call'[u] = call[u],
           l \in Inside <=> pc[t] \in Inside, pc[t] # "idle" \/ tree = "up",
           l = "lock" => tree = "up", l = "traverse" => call'[t].op # "terminate"
    PROVE  MutexInv'
<1>1. \A u \in Threads : pc'[u] = IF u = t THEN l ELSE pc[u]
    BY DEF Goto, TypeOK
<1>2. \A u \in Threads : ~Ending(u)'
    <2> SUFFICES ASSUME NEW u \in Threads, Ending(u)' PROVE FALSE
        OBVIOUS
    <2>1. u # t
        BY <1>1 DEF Ending
    <2>2. Ending(u)
        BY <1>1, <2>1 DEF Ending
    <2> QED
        BY <2>1, <2>2 DEF MutexInv
<1> QED
    BY <1>1, <1>2 DEF MutexInv, MutexHeldInside, Inside

LEMMA StayInv ==
    ASSUME MutexInv, UNCHANGED <<tree, lock, pc, call>>
    PROVE  MutexInv'
BY DEF MutexInv, MutexHeldInside, Ending

LEMMA MutexNext == TypeInv /\ MutexInv /\ [Next]_vars => MutexInv'
<1> SUFFICES ASSUME TypeInv, MutexInv, [Next]_vars PROVE MutexInv'
    OBVIOUS
<1>1. TypeOK /\ pc \in [Threads -> Labels]
    BY DEF TypeInv, TypeOK
<1>2. NULL \notin Threads
    BY ConstantsAssumption DEF Threads
<1>3. CASE UNCHANGED vars
    BY <1>3, StayInv DEF vars, treeVars
<1>4. ASSUME NEW t \in Threads, Start(t) PROVE MutexInv'
    <2>1. CASE Initialize(t)
        <3>1. tree = "none" /\ lock' = NULL /\ tree' = "up" /\ pc' = pc /\ call' = call
            BY <2>1 DEF Initialize
        <3>2. \A u \in Threads : ~Ending(u)'
            BY <3>1 DEF MutexInv, Ending
        <3> QED
            BY <1>2, <3>1, <3>2 DEF MutexInv, MutexHeldInside, Inside
    <2>2. CASE Invoke(t)
        <3>1. PICK c \in Calls(t) :
                call' = [call EXCEPT ![t] = c] /\
                Goto(t, CASE c.op \in {"add", "del"} -> "lock"
                          [] c.op = "lookup"         -> "lookup"
                          [] c.op = "print_info"     -> "traverse")
            BY <2>2 DEF Invoke
        <3>2. c.op \in {"add", "del", "lookup", "print_info"}
            BY CallsType
        <3>3. PICK l \in {"lock", "lookup", "traverse"} : Goto(t, l)
            BY <3>1, <3>2
        <3>4. call \in [Threads -> Request]
            BY <1>1 DEF TypeOK
        <3>5. call'[t].op # "terminate" /\ \A u \in Threads : u # t => call'[u] = call[u]
            <4>1. call'[t] = c
                BY <3>1, <3>4
            <4>2. \A u \in Threads : u # t => call'[u] = call[u]
                BY <3>1, <3>4
            <4> QED
                BY <3>2, <4>1, <4>2
        <3>6. tree = "up" /\ pc[t] = "idle" /\ UNCHANGED <<tree, lock>>
            BY <2>2 DEF Invoke, treeVars
        <3>7. l \in Labels /\ l \notin Inside /\ pc[t] \notin Inside
            BY <3>6 DEF Labels, Inside
        <3> QED
            BY <1>1, <3>3, <3>6, <3>7, <3>5, MoveInv
    <2>3. CASE Refuse(t)
        <3>1. /\ Goto(t, "return") /\ pc[t] = "idle" /\ tree = "up" /\ UNCHANGED <<tree, lock>>
              /\ \A u \in Threads : u # t => call'[u] = call[u]
            BY <1>1, <2>3 DEF Refuse, treeVars
        <3> QED
            BY <1>1, <3>1, MoveInv DEF Labels, Inside
    <2>4. CASE Terminate(t)
        <3>1. /\ \A u \in Threads : pc[u] = "idle" /\ tree' = "closing" /\ lock' = lock
              /\ Goto(t, "traverse")
            BY <2>4 DEF Terminate
        <3>2. \A u \in Threads : pc[u] \notin Inside /\ pc'[u] \notin Inside \cup {"lock"}
            BY <1>1, <3>1 DEF Goto, Inside
        <3>3. \A u \in Threads : u # t => pc'[u] = "idle"
            BY <1>1, <3>1 DEF Goto
        <3>4. \A u \in Threads : Ending(u)' => u = t
            BY <3>3 DEF Ending
        <3> QED
            BY <3>1, <3>2, <3>3, <3>4 DEF MutexInv, MutexHeldInside, Inside
    <2> QED
        BY <1>4, <2>1, <2>2, <2>3, <2>4 DEF Start
<1>5. ASSUME NEW t \in Threads, Run(t) PROVE MutexInv'
    <2>1. CASE Lock(t)
        <3>1. /\ pc[t] = "lock" /\ lock = NULL /\ lock' = t /\ tree' = tree
              /\ Goto(t, call[t].op) /\ call[t].op \in {"add", "del"} /\ call' = call
            BY <2>1 DEF Lock, MutexFree, TypeInv, CallInv
        <3>2. pc'[t] \in Inside /\ \A u \in Threads : u # t => pc'[u] = pc[u] /\ pc[u] \notin Inside
            BY <1>1, <1>2, <3>1 DEF Goto, Inside, MutexInv, MutexHeldInside
        <3>3. pc'[t] # "traverse"
            BY <1>1, <3>1 DEF Goto
        <3>4. \A u \in Threads : ~Ending(u)'
            BY <3>1, <3>2, <3>3 DEF Ending, MutexInv
        <3>5. tree = "up"
            BY <3>1 DEF MutexInv
        <3> QED
            BY <3>1, <3>2, <3>4, <3>5 DEF MutexInv, MutexHeldInside, Inside
    <2>2. CASE Unlock(t)
        <3>1. pc[t] = "unlock" /\ lock' = NULL /\ tree' = tree /\ Goto(t, "return") /\ call' = call
            BY <2>2 DEF Unlock
        <3>2. lock = t
            BY <3>1 DEF MutexInv, MutexHeldInside
        <3>3. \A u \in Threads : pc'[u] \notin Inside
            BY <1>1, <3>1, <3>2 DEF Goto, Inside, MutexInv, MutexHeldInside
        <3>4. \A u \in Threads : u # t => pc'[u] = pc[u]
            BY <1>1, <3>1 DEF Goto
        <3>5. tree' = "up"
            BY <3>1 DEF MutexInv, Inside
        <3>6. \A u \in Threads : ~Ending(u)'
            <4>1. pc'[t] # "traverse"
                BY <1>1, <3>1 DEF Goto
            <4> QED
                BY <3>1, <3>4, <4>1 DEF Ending, MutexInv
        <3> QED
            BY <1>2, <3>1, <3>3, <3>5, <3>6 DEF MutexInv, MutexHeldInside, Inside
    <2>3. CASE Add(t)
        <3>1. UNCHANGED <<tree, lock, call>>
            BY <2>3 DEF Add, AddRoot, AddNoMemory, AddDuplicate, AddDescend, AddLeaf, AddInit,
                        Descend, Fail, treeVars
        <3>2. \/ pc' = pc
              \/ pc[t] \in Inside /\ \E l \in Inside : Goto(t, l)
            BY <2>3 DEF Add, AddRoot, AddNoMemory, AddDuplicate, AddDescend, AddLeaf, AddInit,
                        Descend, Fail, Inside
        <3> QED
            BY <1>1, <3>1, <3>2, MoveInv, StayInv DEF Inside, Labels
    <2>4. CASE Del(t)
        <3>1. UNCHANGED <<tree, lock, call>>
            BY <2>4 DEF Del, DelDescend, DelMissing, DelFound, DelUnlink, DelBottom, DelGraft,
                        DelFree, Descend, Fail, treeVars
        <3>2. \/ pc' = pc
              \/ pc[t] \in Inside /\ \E l \in Inside : Goto(t, l)
            BY <2>4 DEF Del, DelDescend, DelMissing, DelFound, DelUnlink, DelBottom, DelGraft,
                        DelFree, Descend, Fail, Inside
        <3> QED
            BY <1>1, <3>1, <3>2, MoveInv, StayInv DEF Inside, Labels
    <2>5. CASE Lookup(t)
        <3>1. UNCHANGED <<tree, lock, call>>
            BY <2>5 DEF Lookup, LookupMiss, LookupDescend, LookupHit, LookupCopy, LookupEnd, treeVars
        <3>2. \/ pc' = pc
              \/ pc[t] \in {"lookup", "copy"} /\ \E l \in {"copy", "return"} : Goto(t, l)
            BY <2>5 DEF Lookup, LookupMiss, LookupDescend, LookupHit, LookupCopy, LookupEnd
        <3> QED
            BY <1>1, <3>1, <3>2, MoveInv, StayInv DEF Inside, Labels
    <2>6. CASE Traverse(t)
        <3>1. CASE Visit(t)
            BY <3>1, StayInv DEF Visit, treeVars
        <3>2. CASE PrintEnd(t)
            <4>1. pc[t] = "traverse" /\ Goto(t, "return") /\ UNCHANGED <<tree, lock, call>>
                BY <3>2 DEF PrintEnd, treeVars
            <4> QED
                BY <1>1, <4>1, MoveInv DEF Inside, Labels
        <3>3. CASE TerminateEnd(t)
            <4>1. /\ pc[t] = "traverse" /\ Goto(t, "return") /\ tree' = "none" /\ lock' = NULL
                  /\ call[t].op = "terminate" /\ call' = call
                BY <3>3 DEF TerminateEnd
            <4>2. tree # "up" /\ \A u \in Threads : u # t => pc[u] = "idle"
                BY <4>1 DEF MutexInv, Ending
            <4>3. \A u \in Threads : pc'[u] \in {"idle", "return"}
                BY <1>1, <4>1, <4>2 DEF Goto
            <4>4. \A u \in Threads : pc'[u] \notin Inside \cup {"lock"} /\ ~Ending(u)'
                BY <4>3 DEF Inside, Ending
            <4> QED
                BY <1>2, <4>1, <4>4 DEF MutexInv, MutexHeldInside, Inside
        <3> QED
            BY <2>6, <3>1, <3>2, <3>3 DEF Traverse
    <2>7. CASE Return(t)
        <3>1. /\ pc[t] = "return" /\ Goto(t, "idle") /\ UNCHANGED <<tree, lock>>
              /\ \A u \in Threads : u # t => call'[u] = call[u]
            BY <1>1, <2>7 DEF Return, treeVars
        <3> QED
            BY <1>1, <3>1, MoveInv DEF Inside, Labels
    <2>8. CASE Fault(t)
        BY <2>8, StayInv DEF Fault, treeVars
    <2> QED
        BY <1>5, <2>1, <2>2, <2>3, <2>4, <2>5, <2>6, <2>7, <2>8 DEF Run
<1> QED
    BY <1>3, <1>4, <1>5 DEF Next

LEMMA MutexInit == Init => MutexInv
BY ConstantsAssumption DEF Init, MutexInv, MutexHeldInside, Inside, Ending, Threads

\* However many threads add and delete, the mutex is held exactly by the one
\* that is between its lock and its unlock.
THEOREM MutexCorrect == Spec => []MutexHeldInside
<1>1. Init => TypeInv /\ MutexInv
    BY TypeInit, MutexInit
<1>2. TypeInv /\ MutexInv /\ [Next]_vars => (TypeInv /\ MutexInv)'
    BY TypeNext, MutexNext
<1>3. MutexInv => MutexHeldInside
    BY DEF MutexInv
<1> QED
    BY <1>1, <1>2, <1>3, PTL DEF Spec

-----------------------------------------------------------------------------
(* Forests.  f gives the children of a block, R the roots.  These facts do  *)
(* not depend on the state: the actions use them with f the child pointers. *)

Fun == [Addr -> [Side -> Ptr]]

Closed(f, S) == \A a \in S, s \in Side : f[a][s] # NULL => f[a][s] \in S

\* Whatever holds R and is closed holds x: x can be reached from R.
Reached(f, R, x) == \A S \in SUBSET Addr : R \subseteq S /\ Closed(f, S) => x \in S

\* N is a forest with the roots R: pointers stay inside it, no two of them are
\* to the same node, none is to a root, and every node is reached.
Forest(f, R, N) ==
    /\ R \subseteq N /\ N \subseteq Addr
    /\ \A a \in N, s \in Side : f[a][s] # NULL => f[a][s] \in N \ R
    /\ \A a, b \in N, s, q \in Side : f[a][s] = f[b][q] /\ f[a][s] # NULL => a = b /\ s = q
    /\ \A x \in N : Reached(f, R, x)

\* g is f with v in one place.
Updated(g, f, p, q, v) ==
    \A a \in Addr, s \in Side : g[a][s] = IF a = p /\ s = q THEN v ELSE f[a][s]

\* A new block is a tree of its own.
LEMMA ForestAdd ==
    ASSUME NEW f, NEW R, NEW N, Forest(f, R, N), NEW a \in Addr \ N,
           \A s \in Side : f[a][s] = NULL
    PROVE  Forest(f, R \cup {a}, N \cup {a})
<1>1. \A x \in N \cup {a} : Reached(f, R \cup {a}, x)
    BY DEF Forest, Reached
<1>2. \A b \in N, s \in Side : f[b][s] # a
    BY ConstantsAssumption DEF Forest
<1> QED
    BY <1>1, <1>2 DEF Forest

\* Without a root, its children are roots.
LEMMA ForestDrop ==
    ASSUME NEW f, NEW R, NEW N, Forest(f, R, N), NEW c \in R
    PROVE  Forest(f, (R \ {c}) \cup ({f[c][s] : s \in Side} \ {NULL}), N \ {c})
<1> DEFINE D == {f[c][s] : s \in Side} \ {NULL}
           Q == (R \ {c}) \cup D
<1>1. c \in N /\ D \subseteq N \ R
    BY DEF Forest
<1>2. ASSUME NEW a \in N \ {c}, NEW s \in Side, f[a][s] # NULL
      PROVE  f[a][s] \in (N \ {c}) \ Q
    BY <1>1, <1>2 DEF Forest
<1>3. ASSUME NEW x \in N \ {c} PROVE Reached(f, Q, x)
    <2> SUFFICES ASSUME NEW S \in SUBSET Addr, Q \subseteq S, Closed(f, S)
                 PROVE  x \in S
        BY DEF Reached
    <2>1. R \subseteq S \cup {c} /\ Closed(f, S \cup {c})
        BY DEF Closed
    <2>2. S \cup {c} \in SUBSET Addr
        BY <1>1 DEF Forest
    <2> QED
        BY <2>1, <2>2 DEF Forest, Reached
<1>4. Q \subseteq N \ {c} /\ N \ {c} \subseteq Addr
    BY <1>1 DEF Forest
<1>5. \A a, b \in N \ {c}, s, q \in Side :
        f[a][s] = f[b][q] /\ f[a][s] # NULL => a = b /\ s = q
    BY DEF Forest
<1> HIDE DEF D, Q
<1>6. Forest(f, Q, N \ {c})
    BY <1>2, <1>3, <1>4, <1>5 DEF Forest
<1> QED
    BY <1>6 DEF D, Q

\* A pointer taken away leaves what it was to as a root.
LEMMA ForestCut ==
    ASSUME NEW f, NEW g, NEW R, NEW N, Forest(f, R, N),
           NEW p \in N, NEW q \in Side, f[p][q] # NULL, Updated(g, f, p, q, NULL)
    PROVE  Forest(g, R \cup {f[p][q]}, N)
<1> DEFINE c == f[p][q]
<1>1. c \in N \ R
    BY DEF Forest
<1>2. \A a \in N, s \in Side : g[a][s] = IF a = p /\ s = q THEN NULL ELSE f[a][s]
    BY DEF Forest, Updated
<1>3. \A a \in N, s \in Side : g[a][s] # NULL => g[a][s] \in N \ (R \cup {c})
    BY <1>1, <1>2 DEF Forest
<1>4. \A a, b \in N, s, r \in Side :
        g[a][s] = g[b][r] /\ g[a][s] # NULL => a = b /\ s = r
    BY <1>2 DEF Forest
<1>5. ASSUME NEW x \in N PROVE Reached(g, R \cup {c}, x)
    <2> SUFFICES ASSUME NEW S \in SUBSET Addr, R \cup {c} \subseteq S, Closed(g, S)
                 PROVE  x \in S
        BY DEF Reached
    <2>1. Closed(f, S)
        BY DEF Closed, Updated
    <2> QED
        BY <2>1 DEF Forest, Reached
<1> HIDE DEF c
<1>6. Forest(g, R \cup {c}, N)
    BY <1>1, <1>3, <1>4, <1>5 DEF Forest
<1> QED
    BY <1>6 DEF c

\* A root may be hung below a node that is reached without it.
LEMMA ForestLink ==
    ASSUME NEW f, NEW g, NEW R, NEW N, Forest(f, R, N), NEW o \in R,
           NEW p \in N, NEW q \in Side, f[p][q] = NULL, Updated(g, f, p, q, o),
           Reached(f, R \ {o}, p)
    PROVE  Forest(g, R \ {o}, N)
<1>1. \A a \in N, s \in Side : g[a][s] = IF a = p /\ s = q THEN o ELSE f[a][s]
    BY DEF Forest, Updated
<1>2. \A a \in N, s \in Side : g[a][s] # NULL => g[a][s] \in N \ (R \ {o})
    BY <1>1 DEF Forest
<1>3. \A a, b \in N, s, r \in Side :
        g[a][s] = g[b][r] /\ g[a][s] # NULL => a = b /\ s = r
    BY <1>1 DEF Forest
<1>4. ASSUME NEW x \in N PROVE Reached(g, R \ {o}, x)
    <2> SUFFICES ASSUME NEW S \in SUBSET Addr, R \ {o} \subseteq S, Closed(g, S)
                 PROVE  x \in S
        BY DEF Reached
    <2>1. p \in Addr /\ o # NULL
        BY ConstantsAssumption DEF Forest
    <2>2. Closed(f, S)
        BY DEF Closed, Updated
    <2>3. p \in S
        BY <2>2 DEF Reached
    <2>4. o \in S
        BY <2>1, <2>3 DEF Closed, Updated
    <2> QED
        BY <2>2, <2>4 DEF Forest, Reached
<1> QED
    BY <1>2, <1>3, <1>4 DEF Forest

\* What a node's own pointers are does not matter for how it is reached.
LEMMA ReachedAnyway ==
    ASSUME NEW f, NEW g, NEW R, NEW N, Forest(f, R, N), NEW p \in N,
           NEW q, NEW v, Updated(g, f, p, q, v)
    PROVE  Reached(g, R, p)
<1> SUFFICES ASSUME NEW S \in SUBSET Addr, R \subseteq S, Closed(g, S), p \notin S
             PROVE  FALSE
    BY DEF Reached
<1>1. Closed(f, S)
    BY DEF Closed, Updated
<1> QED
    BY <1>1 DEF Forest, Reached

LEMMA ReachedMore ==
    ASSUME NEW f, NEW R, NEW x, Reached(f, R, x), NEW Q, R \subseteq Q
    PROVE  Reached(f, Q, x)
BY DEF Reached

\* Without roots there is no node.
LEMMA ForestNone ==
    ASSUME NEW f, NEW N, Forest(f, {}, N)
    PROVE  N = {}
<1>1. {} \in SUBSET Addr /\ Closed(f, {})
    BY DEF Closed
<1> QED
    BY <1>1 DEF Forest, Reached

LEMMA ForestEmpty == ASSUME NEW f PROVE Forest(f, {}, {})
BY DEF Forest

\* A forest reads no children but those of its nodes.
LEMMA ForestSame ==
    ASSUME NEW f, NEW g, NEW R, NEW N, Forest(f, R, N),
           \A a \in N, s \in Side : g[a][s] = f[a][s]
    PROVE  Forest(g, R, N)
<1>1. ASSUME NEW x \in N PROVE Reached(g, R, x)
    <2> SUFFICES ASSUME NEW S \in SUBSET Addr, R \subseteq S, Closed(g, S)
                 PROVE  x \in S
        BY DEF Reached
    <2>1. S \cap N \in SUBSET Addr /\ R \subseteq S \cap N /\ Closed(f, S \cap N)
        BY DEF Closed, Forest
    <2> QED
        BY <2>1 DEF Forest, Reached
<1> QED
    BY <1>1 DEF Forest

-----------------------------------------------------------------------------
(* Subtrees: Below for any child function *)

Under(f, p) == {x \in Addr : \A S \in SUBSET Addr :
                   Closed(f, S) /\ (p # NULL => p \in S) => x \in S}

LEMMA BelowIsUnder == \A p : Below(p) = Under(child, p)
BY DEF Below, Under, ClosedUnderChild, Closed

LEMMA UnderLeast ==
    ASSUME NEW f, NEW p, NEW S \in SUBSET Addr, Closed(f, S), p # NULL => p \in S
    PROVE  Under(f, p) \subseteq S
BY DEF Under

LEMMA UnderClosed ==
    ASSUME NEW f \in Fun, NEW p
    PROVE  Under(f, p) \in SUBSET Addr /\ Closed(f, Under(f, p))
<1>1. ASSUME NEW a \in Under(f, p), NEW s \in Side, f[a][s] # NULL
      PROVE  f[a][s] \in Under(f, p)
    <2>1. f[a][s] \in Addr
        BY <1>1 DEF Fun, Ptr, Under
    <2>2. ASSUME NEW S \in SUBSET Addr, Closed(f, S), p # NULL => p \in S
          PROVE  f[a][s] \in S
        BY <1>1, <2>2 DEF Under, Closed
    <2> QED
        BY <2>1, <2>2 DEF Under
<1> QED
    BY <1>1 DEF Closed, Under

LEMMA UnderSelf == ASSUME NEW f, NEW p \in Addr PROVE p \in Under(f, p)
BY ConstantsAssumption DEF Under

LEMMA UnderNull == ASSUME NEW f PROVE Under(f, NULL) = {}
<1>1. {} \in SUBSET Addr /\ Closed(f, {})
    BY DEF Closed
<1> QED
    BY <1>1, UnderLeast

\* What hangs below a block of a subtree is in the subtree.
LEMMA UnderDeeper ==
    ASSUME NEW f \in Fun, NEW p, NEW x \in Under(f, p)
    PROVE  Under(f, x) \subseteq Under(f, p)
BY UnderClosed, UnderLeast

\* Every block of a subtree but its root has a parent there.
LEMMA UnderParent ==
    ASSUME NEW f \in Fun, NEW p \in Ptr, NEW x \in Under(f, p), x # p
    PROVE  \E a \in Under(f, p), s \in Side : f[a][s] = x
<1> SUFFICES ASSUME \A a \in Under(f, p), s \in Side : f[a][s] # x
             PROVE  FALSE
    OBVIOUS
<1> DEFINE S == Under(f, p) \ {x}
<1>1. S \in SUBSET Addr /\ Closed(f, S)
    BY UnderClosed DEF Closed
<1>2. p # NULL => p \in S
    BY UnderSelf DEF Ptr
<1>3. Under(f, p) \subseteq S
    <2> HIDE DEF S
    <2> QED
        BY <1>1, <1>2, UnderLeast
<1> QED
    BY <1>3

\* A subtree is its root and the subtrees of the two children.
LEMMA UnderSplit ==
    ASSUME NEW f \in Fun, NEW p \in Addr, NEW x \in Under(f, p), x # p
    PROVE  \E s \in Side : f[p][s] # NULL /\ x \in Under(f, f[p][s])
<1> SUFFICES ASSUME \A s \in Side : f[p][s] # NULL => x \notin Under(f, f[p][s])
             PROVE  FALSE
    OBVIOUS
<1> DEFINE S == {p} \cup UNION {Under(f, f[p][s]) : s \in {q \in Side : f[p][q] # NULL}}
<1>1. S \in SUBSET Addr
    BY UnderClosed
<1>2. ASSUME NEW a \in S, NEW s \in Side, f[a][s] # NULL
      PROVE  f[a][s] \in S
    <2>1. CASE a = p
        <3>1. f[a][s] \in Addr
            BY <1>2, <2>1 DEF Fun, Ptr
        <3> QED
            BY <1>2, <2>1, <3>1, UnderSelf
    <2>2. CASE a # p
        <3>1. PICK q \in Side : f[p][q] # NULL /\ a \in Under(f, f[p][q])
            BY <2>2
        <3>2. f[a][s] \in Under(f, f[p][q])
            BY <1>2, <3>1, UnderClosed DEF Closed
        <3> QED
            BY <3>1, <3>2
    <2> QED
        BY <2>1, <2>2
<1>3. Closed(f, S)
    BY <1>2 DEF Closed
<1>4. Under(f, p) \subseteq S
    <2>1. p \in S
        OBVIOUS
    <2> HIDE DEF S
    <2> QED
        BY <1>1, <1>3, <2>1, UnderLeast
<1> QED
    BY <1>4

\* In a forest, a child is under p only as p itself or below its one parent.
LEMMA UnderOneParent ==
    ASSUME NEW f \in Fun, NEW R, NEW N, Forest(f, R, N), NEW a \in N, NEW s \in Side,
           f[a][s] # NULL, NEW p \in N \cup {NULL}, f[a][s] \in Under(f, p)
    PROVE  f[a][s] = p \/ a \in Under(f, p)
<1>1. Under(f, p) \subseteq N
    <2>1. N \in SUBSET Addr /\ Closed(f, N)
        BY DEF Forest, Closed
    <2> QED
        BY <2>1, UnderLeast
<1>2. CASE f[a][s] # p
    <2>1. PICK b \in Under(f, p), q \in Side : f[b][q] = f[a][s]
        BY <1>2, UnderParent DEF Forest, Ptr
    <2> QED
        BY <1>1, <2>1 DEF Forest
<1> QED
    BY <1>2

LEMMA UnderForest ==
    ASSUME NEW f, NEW R, NEW N, Forest(f, R, N), NEW p \in N \cup {NULL}
    PROVE  Under(f, p) \subseteq N
<1>1. N \in SUBSET Addr /\ Closed(f, N)
    BY DEF Forest, Closed
<1> QED
    BY <1>1, UnderLeast

-----------------------------------------------------------------------------
(* The shape of the tree and its count, for any number of writers.          *)

\* The labels at which the tree is in pieces.
Amid == {"init", "bottom", "free"}

Roots == {root} \ {NULL}

\* The subtree that del has to graft elsewhere.
Orphan(t) == child[cur[t]][par[t][2]]

\* The walk of add or del stands where its slot points to.
Hangs(t) ==
    IF par[t] = RootSlot THEN root = cur[t]
    ELSE par[t][1] \in Nodes /\ child[par[t][1]][par[t][2]] = cur[t] /\ cur[t] # NULL

\* What a thread that holds the mutex knows of the tree, by its label.
HolderInv(t) ==
    /\ pc[t] \in {"idle", "lock"} => par[t] = RootSlot
    /\ pc[t] \in {"add", "init"} => call[t].op = "add"
    /\ pc[t] \in {"del", "unlink", "bottom", "free"} => call[t].op = "del"
    /\ pc[t] \in {"add", "del", "unlink"} => Hangs(t)
    /\ pc[t] \in {"unlink", "bottom", "free"} => cur[t] \in Nodes
    /\ pc[t] = "init" =>
          /\ block[tmp[t]] = "raw"
          /\ Forest(child, Roots, Nodes \cup {tmp[t]})
    /\ pc[t] = "bottom" =>
          /\ Forest(child, Roots \cup ({Orphan(t)} \ {NULL}), Nodes \ {cur[t]})
          /\ tmp[t] \in Nodes \ {cur[t]} /\ Reached(child, Roots, tmp[t])
          /\ Orphan(t) \notin Roots
    /\ pc[t] = "free" => Forest(child, Roots, Nodes \ {cur[t]})

FreeInv == \A a \in Addr : block[a] # "node" => child[a] = NoChild

RawInv == \A a \in Addr : block[a] = "raw" => \E t \in Threads : pc[t] = "init" /\ tmp[t] = a

EmptyInv == tree = "none" \/ (tree = "up" /\ root = Wild) => Nodes = {}

WholeInv ==
    tree = "up" /\ root # Wild /\ (\A t \in Threads : pc[t] \notin Amid)
        => Forest(child, Roots, Nodes)

\* Once the call has changed the tree, count is about to follow.
CountInv ==
    /\ tree = "up" /\ (\A t \in Threads : pc[t] # "unlock") => count = Cardinality(Nodes)
    /\ \A t \in Threads : pc[t] = "unlock" =>
          count + (IF ret[t] = 0 THEN Delta(t) ELSE 0) = Cardinality(Nodes)

\* terminate: the blocks on the stack of the recursion are the roots of what
\* is left, once the pointers it has followed are forgotten.
OnStack(t) == {stack[t][i].node : i \in DOMAIN stack[t]}

Past(f, s) == f.at = "post" \/ (f.at = "in" /\ s = "left")
Followed(t, a, s) == \E i \in DOMAIN stack[t] : stack[t][i].node = a /\ Past(stack[t][i], s)

Ahead(t) == [a \in Addr |-> [s \in Side |-> IF Followed(t, a, s) THEN NULL ELSE child[a][s]]]

ClosingInv ==
    \A t \in Threads : Ending(t) =>
        /\ Forest(Ahead(t), OnStack(t), Nodes)
        /\ \A i, j \in DOMAIN stack[t] : stack[t][i].node = stack[t][j].node => i = j

HeapInv == /\ FreeInv /\ RawInv /\ EmptyInv /\ WholeInv
           /\ CountInv /\ ClosingInv
           /\ \A t \in Threads : HolderInv(t)

-----------------------------------------------------------------------------
\* Who holds the mutex is alone, in a tree that is up.
LEMMA HolderAlone ==
    ASSUME MutexInv, NEW t \in Threads, pc[t] \in Inside
    PROVE  /\ lock = t /\ tree = "up"
           /\ \A u \in Threads : u # t => pc[u] \notin Inside
           /\ \A u \in Threads : ~Ending(u)
BY DEF MutexInv, MutexHeldInside, Inside

\* So nothing but its own label says what state the tree is in.
LEMMA HolderStep ==
    ASSUME HeapInv, MutexInv, NEW t \in Threads, pc[t] \in Inside, MutexInv',
           pc'[t] \in Inside \cup {"return"}, tree' = tree,
           \A u \in Threads : u # t => pc'[u] = pc[u] /\ par'[u] = par[u],
           FreeInv', \A a \in Addr : block'[a] = "raw" => pc'[t] = "init" /\ tmp'[t] = a,
           HolderInv(t)', root' = Wild => Nodes' = {},
           root' # Wild /\ pc'[t] \notin Amid => Forest(child', Roots', Nodes'),
           IF pc'[t] = "unlock"
           THEN count' + (IF ret'[t] = 0 THEN Delta(t)' ELSE 0) = Cardinality(Nodes')
           ELSE count' = Cardinality(Nodes')
    PROVE  HeapInv'
<1>1. /\ tree = "up" /\ tree' = "up"
      /\ \A u \in Threads : u # t => pc'[u] \notin Inside /\ pc[u] \notin Inside
    BY HolderAlone
<1>2. \A u \in Threads : ~Ending(u)'
    BY <1>1 DEF MutexInv
<1>3. ASSUME NEW u \in Threads, u # t PROVE HolderInv(u)'
    <2>1. pc'[u] \notin Inside /\ pc'[u] = pc[u] /\ par'[u] = par[u] /\ HolderInv(u)
        BY <1>1, <1>3 DEF HeapInv
    <2> QED
        BY <2>1 DEF HolderInv, Inside
<1>4. RawInv' /\ ClosingInv' /\ EmptyInv'
    BY <1>1, <1>2 DEF RawInv, ClosingInv, EmptyInv
<1>5. WholeInv'
    BY <1>1 DEF WholeInv
<1>6. CountInv'
    BY <1>1 DEF CountInv, Inside
<1> QED
    BY <1>3, <1>4, <1>5, <1>6 DEF HeapInv

\* A step outside the mutex that leaves the heap alone.
LEMMA OutsideStep ==
    ASSUME HeapInv, NEW t \in Threads, UNCHANGED <<tree, root, count, heapVars>>,
           pc[t] \notin Inside, pc'[t] \notin Inside, ~Ending(t)',
           pc'[t] \in {"idle", "lock"} => par'[t] = RootSlot,
           \A u \in Threads : u # t => /\ pc'[u] = pc[u] /\ call'[u] = call[u] /\ cur'[u] = cur[u]
                                       /\ par'[u] = par[u] /\ tmp'[u] = tmp[u] /\ ret'[u] = ret[u]
                                       /\ stack'[u] = stack[u]
    PROVE  HeapInv'
<1>1. UNCHANGED <<block, child>> /\ Nodes' = Nodes /\ Roots' = Roots
    BY DEF heapVars, Nodes, Roots
<1>2. ASSUME NEW u \in Threads PROVE HolderInv(u)'
    <2>1. CASE u = t
        BY <2>1 DEF HolderInv, Inside
    <2>2. CASE u # t
        <3>1. /\ pc'[u] = pc[u] /\ call'[u] = call[u] /\ cur'[u] = cur[u]
              /\ par'[u] = par[u] /\ tmp'[u] = tmp[u]
            BY <2>2
        <3>2. Hangs(u)' = Hangs(u) /\ Orphan(u)' = Orphan(u)
            BY <1>1, <3>1 DEF Hangs, Orphan
        <3>3. HolderInv(u)
            BY DEF HeapInv
        <3> QED
            BY <1>1, <3>1, <3>2, <3>3 DEF HolderInv
    <2> QED
        BY <2>1, <2>2
<1>3. FreeInv' /\ EmptyInv'
    BY <1>1 DEF HeapInv, FreeInv, EmptyInv
<1>4. RawInv' /\ WholeInv'
    BY <1>1 DEF HeapInv, RawInv, WholeInv, Amid, Inside
<1>5. CountInv'
    BY <1>1 DEF HeapInv, CountInv, Delta, Inside
<1>6. ClosingInv'
    <2> SUFFICES ASSUME NEW u \in Threads, Ending(u)'
                 PROVE  /\ Forest(Ahead(u)', OnStack(u)', Nodes')
                        /\ \A i, j \in DOMAIN stack'[u] :
                              stack'[u][i].node = stack'[u][j].node => i = j
        BY DEF ClosingInv
    <2>1. u # t /\ Ending(u) /\ stack'[u] = stack[u]
        BY DEF Ending
    <2>2. OnStack(u)' = OnStack(u) /\ Ahead(u)' = Ahead(u)
        BY <1>1, <2>1 DEF OnStack, Ahead, Followed
    <2> QED
        BY <1>1, <2>1, <2>2 DEF HeapInv, ClosingInv
<1> QED
    BY <1>2, <1>3, <1>4, <1>5, <1>6 DEF HeapInv

-----------------------------------------------------------------------------
(* The mutex, and what changes nothing *)

LEMMA NodesFinite == IsFiniteSet(Nodes) /\ Cardinality(Nodes) \in Nat
BY ConstantsAssumption, FS_Subset, FS_CardinalityType DEF Nodes

LEMMA WholeHere ==
    ASSUME TypeInv, MutexInv, HeapInv, NEW t \in Threads, pc[t] \in Inside \ Amid
    PROVE  /\ root # Wild => Forest(child, Roots, Nodes)
           /\ root = Wild => Nodes = {}
           /\ \A a \in Addr : block[a] # "raw"
           /\ pc[t] # "unlock" => count = Cardinality(Nodes)
<1>1. \A u \in Threads : pc[u] \notin Amid
    BY HolderAlone DEF Amid, Inside
<1>2. tree = "up" /\ \A u \in Threads : u # t => pc[u] # "unlock"
    BY HolderAlone DEF Inside
<1> QED
    BY <1>1, <1>2 DEF HeapInv, WholeInv, EmptyInv, RawInv, Amid, CountInv

LEMMA LockHeap ==
    ASSUME TypeInv, MutexInv, HeapInv, NEW t \in Threads, Lock(t)
    PROVE  HeapInv'
<1>1. /\ pc[t] = "lock" /\ cur' = [cur EXCEPT ![t] = root] /\ pc' = [pc EXCEPT ![t] = call[t].op]
      /\ call[t].op \in {"add", "del"} /\ lock = NULL
      /\ UNCHANGED <<tree, root, count, heapVars, call, par, tmp, path, frameVars, ret>>
    BY DEF Lock, Goto, MutexFree, TypeInv, CallInv
<1>2. tree = "up" /\ par[t] = RootSlot
    BY <1>1 DEF MutexInv, HeapInv, HolderInv
<1>3. \A u \in Threads : pc[u] \notin Inside
    BY <1>1, ConstantsAssumption DEF MutexInv, MutexHeldInside, Inside, Threads
<1>4. pc'[t] \in {"add", "del"} /\ cur'[t] = root /\ \A u \in Threads : u # t => pc'[u] = pc[u]
    BY <1>1 DEF TypeInv, TypeOK
<1>5. UNCHANGED <<block, child>> /\ Nodes' = Nodes /\ Roots' = Roots
    BY <1>1 DEF heapVars, Nodes, Roots
<1>6. ASSUME NEW u \in Threads PROVE HolderInv(u)'
    <2>1. CASE u = t
        BY <1>1, <1>2, <1>4, <2>1 DEF HolderInv, Hangs
    <2>2. CASE u # t
        BY <1>1, <1>3, <1>4, <2>2 DEF HeapInv, HolderInv, Inside
    <2> QED
        BY <2>1, <2>2
<1>7. FreeInv' /\ EmptyInv' /\ RawInv' /\ WholeInv'
    BY <1>1, <1>3, <1>4, <1>5 DEF HeapInv, FreeInv, EmptyInv, RawInv, WholeInv, Amid, Inside
<1>8. CountInv'
    BY <1>1, <1>3, <1>4, <1>5 DEF HeapInv, CountInv, Inside
<1>9. ClosingInv'
    BY <1>1, <1>2, <1>4 DEF MutexInv, ClosingInv, Ending
<1> QED
    BY <1>6, <1>7, <1>8, <1>9 DEF HeapInv

LEMMA UnlockHeap ==
    ASSUME TypeInv, MutexInv, HeapInv, MutexInv', NEW t \in Threads, Unlock(t)
    PROVE  HeapInv'
<1>1. /\ pc[t] = "unlock" /\ pc' = [pc EXCEPT ![t] = "return"] /\ UNCHANGED <<tree, root, block, child, par, tmp, ret>>
    BY DEF Unlock, Goto, walkVars
<1>2. pc[t] \in Inside \ Amid /\ pc'[t] = "return" /\ \A u \in Threads : u # t => pc'[u] = pc[u]
    BY <1>1 DEF TypeInv, TypeOK, Inside, Amid
<1>3. /\ root # Wild => Forest(child, Roots, Nodes)
      /\ root = Wild => Nodes = {}
      /\ \A a \in Addr : block[a] # "raw"
    BY <1>2, WholeHere
<1>4. count' = Cardinality(Nodes)
    <2>1. count + (IF ret[t] = 0 THEN Delta(t) ELSE 0) = Cardinality(Nodes) /\ count \in Int
        BY <1>1 DEF HeapInv, CountInv, TypeInv, TypeOK
    <2> QED
        BY <2>1 DEF Unlock, Succeeded
<1>5. Nodes' = Nodes /\ Roots' = Roots
    BY <1>1 DEF Nodes, Roots
<1>6. HolderInv(t)' /\ FreeInv'
    BY <1>1, <1>2 DEF HolderInv, HeapInv, FreeInv
<1> QED
    BY <1>1, <1>2, <1>3, <1>4, <1>5, <1>6, HolderStep DEF Inside

-----------------------------------------------------------------------------
\* A failure of add or del changes nothing.
LEMMA FailHeap ==
    ASSUME TypeInv, MutexInv, HeapInv, MutexInv', NEW t \in Threads, pc[t] \in {"add", "del"}, Fail(t)
    PROVE  HeapInv'
<1>1. /\ pc' = [pc EXCEPT ![t] = "unlock"] /\ ret' = [ret EXCEPT ![t] = -1]
      /\ UNCHANGED <<tree, root, count, block, child, par, tmp>>
    BY DEF Fail, Goto, Answer, treeVars, heapVars, walkVars
<1>2. pc[t] \in Inside \ Amid /\ pc[t] # "unlock" /\ pc'[t] = "unlock" /\ ret'[t] = -1 /\ \A u \in Threads : u # t => pc'[u] = pc[u]
    BY <1>1 DEF TypeInv, TypeOK, Inside, Amid
<1>3. /\ root # Wild => Forest(child, Roots, Nodes)
      /\ root = Wild => Nodes = {}
      /\ \A a \in Addr : block[a] # "raw"
      /\ count = Cardinality(Nodes)
    BY <1>2, WholeHere
<1>5. Nodes' = Nodes /\ Roots' = Roots
    BY <1>1 DEF Nodes, Roots
<1>6. HolderInv(t)' /\ FreeInv'
    BY <1>1, <1>2 DEF HolderInv, HeapInv, FreeInv
<1>7. count' + (IF ret'[t] = 0 THEN Delta(t)' ELSE 0) = Cardinality(Nodes')
    BY <1>1, <1>2, <1>3, <1>5, NodesFinite
<1> QED
    BY <1>1, <1>2, <1>3, <1>5, <1>6, <1>7, HolderStep DEF Inside, Amid

LEMMA DescendHeap ==
    ASSUME TypeInv, MutexInv, HeapInv, MutexInv', NEW t \in Threads, pc[t] \in {"add", "del"},
           Valid(cur[t]), NEW s \in Side, Descend(t, s)
    PROVE  HeapInv'
<1>1. /\ child[cur[t]][s] # NULL
      /\ cur' = [cur EXCEPT ![t] = child[cur[t]][s]] /\ par' = [par EXCEPT ![t] = <<cur[t], s>>]
      /\ UNCHANGED <<tree, root, count, block, child, pc, call, tmp>>
    BY DEF Descend, treeVars, heapVars
<1>2. pc[t] \in Inside \ Amid /\ pc[t] # "unlock" /\ cur'[t] = child[cur[t]][s] /\ par'[t] = <<cur[t], s>>
      /\ \A u \in Threads : u # t => par'[u] = par[u]
    BY <1>1 DEF TypeInv, TypeOK, Inside, Amid
<1>3. /\ root # Wild => Forest(child, Roots, Nodes)
      /\ root = Wild => Nodes = {}
      /\ \A a \in Addr : block[a] # "raw"
      /\ count = Cardinality(Nodes)
    BY <1>2, WholeHere
<1>5. Nodes' = Nodes /\ Roots' = Roots
    BY <1>1 DEF Nodes, Roots
<1>6. HolderInv(t)' /\ FreeInv'
    <2>1. cur[t] \in Nodes /\ <<cur[t], s>> # RootSlot
        BY ConstantsAssumption DEF Valid, RootSlot, Nodes
    <2>2. Hangs(t)'
        BY <1>1, <1>2, <1>5, <2>1 DEF Hangs
    <2> QED
        BY <1>1, <1>2, <2>2 DEF HolderInv, HeapInv, FreeInv
<1> QED
    BY <1>1, <1>2, <1>3, <1>5, <1>6, HolderStep DEF Amid

-----------------------------------------------------------------------------
(* add *)

LEMMA AddRootHeap ==
    ASSUME TypeInv, MutexInv, HeapInv, MutexInv', NEW t \in Threads, AddRoot(t)
    PROVE  HeapInv'
<1>1. PICK a \in Free : InitNode(t, a) /\ root' = a
    BY DEF AddRoot
<1>2. /\ pc[t] = "add" /\ cur[t] = NULL
      /\ pc' = [pc EXCEPT ![t] = "unlock"] /\ ret' = [ret EXCEPT ![t] = 0]
      /\ UNCHANGED <<tree, count, call, par, tmp>>
    BY DEF AddRoot, Goto, Answer, walkVars
<1>3. pc[t] \in Inside \ Amid /\ pc'[t] = "unlock" /\ ret'[t] = 0 /\ \A u \in Threads : u # t => pc'[u] = pc[u]
    BY <1>2 DEF TypeInv, TypeOK, Inside, Amid
<1>4. /\ root # Wild => Forest(child, Roots, Nodes)
      /\ \A b \in Addr : block[b] # "raw"
      /\ count = Cardinality(Nodes)
    BY <1>2, <1>3, WholeHere
<1>5. root = NULL /\ call[t].op = "add"
    BY <1>2 DEF HeapInv, HolderInv, Hangs
<1>6. Nodes = {}
    BY <1>4, <1>5, ConstantsAssumption, ForestNone DEF Roots
<1>7. a \in Addr /\ block' = [block EXCEPT ![a] = "node"] /\ child' = [child EXCEPT ![a] = NoChild]
    BY <1>1 DEF InitNode, Free
<1>8. Nodes' = {a} /\ Roots' = {a}
    <2>1. a # NULL
        BY <1>7, ConstantsAssumption
    <2>2. \A b \in Addr : block'[b] = "node" <=> b = a
        BY <1>6, <1>7 DEF TypeInv, TypeOK, Nodes
    <2> QED
        BY <1>1, <1>7, <2>1, <2>2 DEF Nodes, Roots
<1>9. Forest(child', {a}, {a})
    <2>1. \A s \in Side : child'[a][s] = NULL
        BY <1>7 DEF TypeInv, TypeOK, NoChild
    <2>2. Forest(child', {} \cup {a}, {} \cup {a})
        BY <1>7, <2>1, ForestEmpty, ForestAdd
    <2> QED
        BY <2>2
<1>10. FreeInv' /\ \A b \in Addr : block'[b] # "raw"
    BY <1>4, <1>7 DEF HeapInv, FreeInv, TypeInv, TypeOK
<1>11. HolderInv(t)'
    BY <1>3 DEF HolderInv
<1>12. count' + (IF ret'[t] = 0 THEN Delta(t)' ELSE 0) = Cardinality(Nodes')
    BY <1>2, <1>3, <1>4, <1>5, <1>6, <1>8, FS_EmptySet, FS_Singleton DEF Delta
<1>13. root' # Wild
    BY <1>1, <1>7, ConstantsAssumption
<1> QED
    BY <1>2, <1>3, <1>8, <1>9, <1>10, <1>11, <1>12, <1>13, HolderStep DEF Inside

\* The block is linked before it is filled in.
LEMMA AddLeafHeap ==
    ASSUME TypeInv, MutexInv, HeapInv, MutexInv', NEW t \in Threads, AddLeaf(t)
    PROVE  HeapInv'
<1>1. PICK s \in Side, a \in Free :
        /\ child[cur[t]][s] = NULL
        /\ block' = [block EXCEPT ![a] = "raw"]
        /\ child' = [child EXCEPT ![cur[t]][s] = a]
        /\ tmp' = [tmp EXCEPT ![t] = a]
    BY DEF AddLeaf
<1>2. /\ pc[t] = "add" /\ cur[t] \in Nodes
      /\ pc' = [pc EXCEPT ![t] = "init"]
      /\ UNCHANGED <<tree, root, count, call, cur, par>>
    BY DEF AddLeaf, Valid, Goto, treeVars
<1>3. /\ pc[t] \in Inside \ Amid /\ pc'[t] = "init" /\ tmp'[t] = a
      /\ \A u \in Threads : u # t => pc'[u] = pc[u]
    BY <1>1, <1>2 DEF TypeInv, TypeOK, Inside, Amid
<1>4. /\ Forest(child, Roots, Nodes) /\ root # Wild
      /\ \A b \in Addr : block[b] # "raw"
      /\ count = Cardinality(Nodes)
    BY <1>2, <1>3, WholeHere
<1>5. call[t].op = "add"
    BY <1>2 DEF HeapInv, HolderInv
<1>6. a \in Addr \ Nodes /\ block[a] = "free" /\ child[a] = NoChild
    BY DEF Free, Nodes, HeapInv, FreeInv
<1>7. Nodes' = Nodes /\ Roots' = Roots /\ block'[a] = "raw"
    BY <1>1, <1>2, <1>6 DEF Nodes, Roots, TypeInv, TypeOK
<1>8. Forest(child', Roots, Nodes \cup {a})
    <2>1. Forest(child, Roots \cup {a}, Nodes \cup {a})
        BY <1>4, <1>6, ForestAdd DEF NoChild
    <2>2. Updated(child', child, cur[t], s, a)
        BY <1>1, <1>2 DEF Updated, TypeInv, TypeOK, Nodes
    <2>3. Reached(child, Roots, cur[t])
        BY <1>2, <1>4 DEF Forest
    <2>4. (Roots \cup {a}) \ {a} = Roots
        BY <1>4, <1>6 DEF Forest
    <2> QED
        BY <1>1, <1>2, <2>1, <2>2, <2>3, <2>4, ForestLink
<1>9. FreeInv'
    <2>1. \A b \in Addr : b # cur[t] => child'[b] = child[b]
        BY <1>1 DEF TypeInv, TypeOK
    <2>2. \A b \in Addr : block'[b] # "node" => b # cur[t] /\ block[b] # "node"
        BY <1>1, <1>2, <1>6 DEF TypeInv, TypeOK, Nodes
    <2> QED
        BY <2>1, <2>2 DEF HeapInv, FreeInv
<1>10. \A b \in Addr : block'[b] = "raw" => b = a
    BY <1>1, <1>4 DEF TypeInv, TypeOK
<1>11. HolderInv(t)'
    BY <1>2, <1>3, <1>5, <1>7, <1>8 DEF HolderInv
<1> QED
    BY <1>2, <1>3, <1>4, <1>7, <1>9, <1>10, <1>11, HolderStep DEF Inside, Amid

LEMMA AddInitHeap ==
    ASSUME TypeInv, MutexInv, HeapInv, MutexInv', NEW t \in Threads, AddInit(t)
    PROVE  HeapInv'
<1> DEFINE a == tmp[t]
<1>1. /\ pc[t] = "init" /\ block' = [block EXCEPT ![a] = "node"] /\ child' = [child EXCEPT ![a] = NoChild]
      /\ pc' = [pc EXCEPT ![t] = "unlock"] /\ ret' = [ret EXCEPT ![t] = 0]
      /\ UNCHANGED <<tree, root, count, call, cur, par, tmp>>
    BY DEF AddInit, InitNode, Goto, Answer, treeVars, walkVars
<1>2. /\ pc'[t] = "unlock" /\ ret'[t] = 0 /\ a \in Addr
      /\ \A u \in Threads : u # t => pc'[u] = pc[u]
    BY <1>1 DEF TypeInv, TypeOK, CallInv
<1>3. /\ block[a] = "raw" /\ Forest(child, Roots, Nodes \cup {a}) /\ call[t].op = "add"
    BY <1>1 DEF HeapInv, HolderInv
<1>4. child[a] = NoChild
    BY <1>2, <1>3 DEF HeapInv, FreeInv
<1>5. child' = child
    BY <1>1, <1>2, <1>4 DEF TypeInv, TypeOK
<1>6. Nodes' = Nodes \cup {a} /\ Roots' = Roots /\ a \notin Nodes
    BY <1>1, <1>2, <1>3 DEF TypeInv, TypeOK, Nodes, Roots
<1>7. count = Cardinality(Nodes)
    <2>1. pc[t] \in Inside /\ pc[t] # "unlock"
        BY <1>1 DEF Inside
    <2>2. tree = "up" /\ \A u \in Threads : pc[u] # "unlock"
        BY <2>1, HolderAlone DEF Inside
    <2> QED
        BY <2>2 DEF HeapInv, CountInv
<1>8. count' + (IF ret'[t] = 0 THEN Delta(t)' ELSE 0) = Cardinality(Nodes')
    <2>1. Cardinality(Nodes \cup {a}) = Cardinality(Nodes) + 1
        BY <1>6, NodesFinite, FS_AddElement
    <2> QED
        BY <1>1, <1>2, <1>3, <1>6, <1>7, <2>1 DEF Delta
<1>9. \A b \in Addr : block'[b] # "raw"
    <2>1. \A b \in Addr : block[b] = "raw" => b = a
        BY <1>1, HolderAlone DEF HeapInv, RawInv, Inside
    <2> QED
        BY <1>1, <2>1 DEF TypeInv, TypeOK
<1>10. FreeInv' /\ HolderInv(t)'
    BY <1>1, <1>2, <1>5 DEF HeapInv, FreeInv, HolderInv, TypeInv, TypeOK
<1>11. root' # Wild
    BY <1>1, <1>2, <1>3, ConstantsAssumption DEF Forest, Roots, Nodes
<1> QED
    BY <1>1, <1>2, <1>3, <1>5, <1>6, <1>8, <1>9, <1>10, <1>11, HolderStep DEF Inside

-----------------------------------------------------------------------------
(* del *)

LEMMA DelFoundHeap ==
    ASSUME TypeInv, MutexInv, HeapInv, MutexInv', NEW t \in Threads, DelFound(t)
    PROVE  HeapInv'
<1>1. /\ pc[t] = "del" /\ cur[t] \in Nodes /\ pc' = [pc EXCEPT ![t] = "unlink"]
      /\ UNCHANGED <<tree, root, count, block, child, call, cur, par, tmp>>
    BY DEF DelFound, Valid, Goto, treeVars, heapVars, walkVars
<1>2. pc[t] \in Inside \ Amid /\ pc'[t] = "unlink" /\ \A u \in Threads : u # t => pc'[u] = pc[u]
    BY <1>1 DEF TypeInv, TypeOK, Inside, Amid
<1>3. /\ root # Wild => Forest(child, Roots, Nodes)
      /\ root = Wild => Nodes = {}
      /\ \A a \in Addr : block[a] # "raw"
      /\ count = Cardinality(Nodes)
    BY <1>1, <1>2, WholeHere
<1>4. Nodes' = Nodes /\ Roots' = Roots
    BY <1>1 DEF Nodes, Roots
<1>5. HolderInv(t)' /\ FreeInv'
    BY <1>1, <1>2, <1>4 DEF HolderInv, HeapInv, FreeInv, Hangs
<1> QED
    BY <1>1, <1>2, <1>3, <1>4, <1>5, HolderStep DEF Inside

Children(f, c, k, o) == {f[c][q] : q \in Side} = {k, o}

\* The victim c is taken out of its slot and replaced there by k, one of its
\* children; the other one, o, becomes a root.
LEMMA SpliceRoot ==
    ASSUME NEW f, NEW N, NEW c, Forest(f, {c}, N),
           NEW s \in Side, NEW k, NEW o, Children(f, c, k, o)
    PROVE  Forest(f, ({k} \ {NULL}) \cup ({o} \ {NULL}), N \ {c})
<1>1. ({c} \ {c}) \cup ({f[c][q] : q \in Side} \ {NULL}) = ({k} \ {NULL}) \cup ({o} \ {NULL})
    BY DEF Children
<1>2. Forest(f, ({c} \ {c}) \cup ({f[c][q] : q \in Side} \ {NULL}), N \ {c})
    BY ForestDrop
<1> QED
    BY <1>1, <1>2

\* No node is its own child.
LEMMA ChildElsewhere ==
    ASSUME NEW f, NEW R, NEW N, Forest(f, R, N), NEW p \in N, NEW s \in Side
    PROVE  f[p][s] # p
<1> SUFFICES ASSUME f[p][s] = p PROVE FALSE
    OBVIOUS
<1>1. p \in Addr /\ p \notin R /\ N \subseteq Addr
    BY ConstantsAssumption DEF Forest
<1>2. ASSUME NEW a \in N \ {p}, NEW q \in Side, f[a][q] # NULL PROVE f[a][q] \in N \ {p}
    <2>1. f[a][q] \in N
        BY <1>2 DEF Forest
    <2>2. f[a][q] = f[p][s] => a = p
        BY <1>2 DEF Forest
    <2> QED
        BY <2>1, <2>2
<1>3. N \ {p} \in SUBSET Addr /\ R \subseteq N \ {p} /\ Closed(f, N \ {p})
    BY <1>1, <1>2 DEF Forest, Closed
<1> QED
    BY <1>3 DEF Forest, Reached

LEMMA SpliceNode ==
    ASSUME NEW f \in Fun, NEW g \in Fun, NEW R, NEW N, Forest(f, R, N),
           NEW p \in N, NEW s \in Side, NEW c, c = f[p][s], c # NULL,
           NEW k, NEW o, Children(f, c, k, o), o = k => k = NULL,
           Updated(g, f, p, s, k)
    PROVE  Forest(g, R \cup ({o} \ {NULL}), N \ {c})
<1> DEFINE h == [a \in Addr |-> [q \in Side |-> IF a = p /\ q = s THEN NULL ELSE f[a][q]]]
           O == {o} \ {NULL}
           K == {k} \ {NULL}
<1>1. Updated(h, f, p, s, NULL) /\ Updated(g, h, p, s, k) /\ h[p][s] = NULL
    BY DEF Updated, Forest
<1>2. p \in Addr /\ c \in N /\ c \notin R /\ N \subseteq Addr
    BY DEF Forest
<1>3. c # p
    BY ChildElsewhere
<1> HIDE DEF h
<1>4. Forest(h, R \cup {c}, N) /\ Reached(h, R, p)
    BY <1>1, ForestCut, ReachedAnyway
<1>5. Forest(h, ((R \cup {c}) \ {c}) \cup ({h[c][q] : q \in Side} \ {NULL}), N \ {c})
    BY <1>4, ForestDrop
<1>6. {h[c][q] : q \in Side} = {k, o}
    BY <1>1, <1>2, <1>3 DEF Updated, Children
<1>7. ((R \cup {c}) \ {c}) \cup ({h[c][q] : q \in Side} \ {NULL}) = (R \cup O) \cup K
    BY <1>2, <1>6
<1>8. Forest(h, (R \cup O) \cup K, N \ {c})
    BY <1>5, <1>7
<1>9. CASE k = NULL
    <2>1. \A a \in N \ {c}, q \in Side : g[a][q] = h[a][q]
        BY <1>1, <1>2, <1>9 DEF Updated
    <2>2. (R \cup O) \cup K = R \cup O
        BY <1>9
    <2>3. Forest(h, R \cup O, N \ {c})
        BY <1>8, <2>2
    <2>4. Forest(g, R \cup O, N \ {c})
        <3> HIDE DEF O, K
        <3> QED
            BY <2>1, <2>3, ForestSame
    <2> QED
        BY <2>4
<1>10. CASE k # NULL
    <2>1. k \notin R
        <3>1. \E q \in Side : f[c][q] = k
            BY DEF Children
        <3> QED
            BY <1>2, <1>10, <3>1 DEF Forest
    <2>2. ((R \cup O) \cup K) \ {k} = R \cup O /\ k \in (R \cup O) \cup K
        BY <1>10, <2>1
    <2>3. Reached(h, R \cup O, p)
        BY <1>4, ReachedMore
    <2>4. Forest(g, R \cup O, N \ {c})
        <3> HIDE DEF O, K
        <3>1. p \in N \ {c}
            BY <1>3
        <3> QED
            BY <1>1, <1>8, <2>2, <2>3, <3>1, ForestLink
    <2> QED
        BY <2>4
<1> QED
    BY <1>9, <1>10

LEMMA ChildFun == TypeInv => child \in Fun
BY DEF TypeInv, TypeOK, Fun

LEMMA SlotType ==
    ASSUME TypeInv, NEW t \in Threads
    PROVE  /\ par[t] \in Slot /\ par[t][2] \in Side /\ Other(par[t][2]) \in Side
           /\ Side = {par[t][2], Other(par[t][2])} /\ Other(par[t][2]) # par[t][2]
           /\ par[t] = <<par[t][1], par[t][2]>>
BY DEF TypeInv, TypeOK, Slot, Other, Side

\* The two ways of DelUnlink as one: k replaces the victim, o is left over.
LEMMA UnlinkForest ==
    ASSUME TypeInv, NEW t \in Threads, Hangs(t), cur[t] \in Nodes, root # Wild,
           Forest(child, Roots, Nodes),
           NEW k \in Ptr, NEW o \in Ptr, Children(child, cur[t], k, o),
           o = k => k = NULL, SetSlot(par[t], k)
    PROVE  /\ Forest(child', Roots' \cup ({o} \ {NULL}), Nodes \ {cur[t]})
           /\ o \notin Roots' \ {NULL}
           /\ k # NULL => Reached(child', Roots', k)
           /\ child'[cur[t]] = child[cur[t]] /\ root' # Wild
           /\ \A a \in Addr \ Nodes : child'[a] = child[a]
<1> DEFINE c == cur[t]
<1>0. c \in Addr /\ c # NULL /\ Wild \notin Ptr
    BY ConstantsAssumption DEF Nodes, Ptr
<1>1. CASE par[t] = RootSlot
    <2>1. root = c /\ root' = k /\ child' = child
        BY <1>1 DEF Hangs, SetSlot
    <2>2. Roots = {c} /\ Roots' = {k} \ {NULL}
        BY <1>0, <2>1 DEF Roots
    <2>3. Forest(child, {c}, Nodes)
        BY <2>2
    <2>4. Forest(child, ({k} \ {NULL}) \cup ({o} \ {NULL}), Nodes \ {c})
        <3>1. PICK s \in Side : TRUE
            BY DEF Side
        <3> QED
            BY <2>3, SpliceRoot
    <2>5. k # NULL => Reached(child', Roots', k)
        BY <2>1, <2>2 DEF Reached
    <2> QED
        BY <1>0, <2>1, <2>2, <2>4, <2>5
<1>2. CASE par[t] # RootSlot
    <2> DEFINE p == par[t][1]
               s == par[t][2]
    <2>1. p \in Nodes /\ s \in Side /\ child[p][s] = c /\ child' = [child EXCEPT ![p][s] = k] /\ root' = root
        BY <1>2, SlotType DEF Hangs, SetSlot
    <2>2. Roots' = Roots
        BY <2>1 DEF Roots
    <2>3. child \in Fun /\ child' \in Fun
        <3>1. child \in [Addr -> [Side -> Ptr]]
            BY DEF TypeInv, TypeOK
        <3> QED
            BY <2>1, <3>1, UpdateType DEF Fun
    <2>4. p \in Addr
        BY <2>1 DEF Nodes
    <2>5. Updated(child', child, p, s, k)
        BY <2>1, <2>3, <2>4 DEF Updated, Fun
    <2>6. /\ Forest(child', Roots \cup ({o} \ {NULL}), Nodes \ {c})
          /\ Reached(child', Roots, p) /\ c # p
        <3>1. Children(child, c, k, o)
            OBVIOUS
        <3>2. p \in Nodes /\ s \in Side /\ c = child[p][s] /\ c # NULL
            BY <1>0, <2>1
        <3> HIDE DEF c, p, s
        <3>3. o = k => k = NULL
            OBVIOUS
        <3>4. Forest(child', Roots \cup ({o} \ {NULL}), Nodes \ {c})
            BY <2>3, <2>5, <3>1, <3>2, <3>3, SpliceNode
        <3>5. Reached(child', Roots, p)
            BY <2>5, <3>2, ReachedAnyway
        <3>6. c # p
            BY <3>2, ChildElsewhere
        <3> QED
            BY <3>4, <3>5, <3>6
    <2>7. child'[c] = child[c] /\ \A a \in Addr \ Nodes : child'[a] = child[a]
        BY <2>1, <2>3, <2>4, <2>6 DEF Fun
    <2>8. k # NULL => Reached(child', Roots, k)
        <3> SUFFICES ASSUME k # NULL, NEW S \in SUBSET Addr, Roots \subseteq S, Closed(child', S) PROVE k \in S
            BY DEF Reached
        <3>1. p \in S
            BY <2>6 DEF Reached
        <3>2. s \in Side
            BY <2>1
        <3>3. child'[p][s] = k
            <4> HIDE DEF p, s
            <4> QED
                BY <2>4, <2>5, <3>2 DEF Updated
        <3> QED
            BY <3>1, <3>2, <3>3 DEF Closed
    <2>9. o \notin Roots \ {NULL}
        <3>1. \E q \in Side : child[c][q] = o
            BY DEF Children
        <3> QED
            BY <3>1 DEF Forest
    <2> QED
        BY <2>1, <2>2, <2>6, <2>7, <2>8, <2>9
<1> QED
    BY <1>1, <1>2

LEMMA DelUnlinkHeap ==
    ASSUME TypeInv, MutexInv, HeapInv, MutexInv', NEW t \in Threads, DelUnlink(t)
    PROVE  HeapInv'
<1> DEFINE c == cur[t]
           s == par[t][2]
           kid == child[c][Other(s)]
<1>1. /\ pc[t] = "unlink" /\ UNCHANGED <<tree, count, block, call, cur, par>>
      /\ IF kid = NULL
         THEN SetSlot(par[t], child[c][s]) /\ Goto(t, "free") /\ UNCHANGED tmp
         ELSE SetSlot(par[t], kid) /\ Goto(t, "bottom") /\ tmp' = [tmp EXCEPT ![t] = kid]
    BY DEF DelUnlink
<1>2. /\ pc[t] \in Inside \ Amid /\ pc'[t] = (IF kid = NULL THEN "free" ELSE "bottom")
      /\ \A u \in Threads : u # t => pc'[u] = pc[u]
    BY <1>1 DEF TypeInv, TypeOK, Inside, Amid, Goto
<1>3. /\ root # Wild => Forest(child, Roots, Nodes)
      /\ root = Wild => Nodes = {}
      /\ \A a \in Addr : block[a] # "raw"
      /\ count = Cardinality(Nodes)
    BY <1>1, <1>2, WholeHere
<1>4. c \in Nodes /\ Hangs(t) /\ call[t].op = "del"
    BY <1>1 DEF HeapInv, HolderInv
<1>5. root # Wild /\ Forest(child, Roots, Nodes)
    BY <1>3, <1>4
<1>6. kid \in Ptr /\ child[c][s] \in Ptr /\ Children(child, c, kid, child[c][s])
      /\ Children(child, c, child[c][s], kid) /\ (kid = child[c][s] => kid = NULL)
    <2>1. child \in [Addr -> [Side -> Ptr]] /\ c \in Addr
        BY <1>4 DEF TypeInv, TypeOK, Nodes
    <2>2. s \in Side /\ Other(s) \in Side /\ Side = {s, Other(s)} /\ Other(s) # s
        BY SlotType
    <2>3. kid = child[c][s] => kid = NULL
        BY <1>4, <1>5, <2>2 DEF Forest
    <2> HIDE DEF s, c
    <2> QED
        BY <2>1, <2>2, <2>3 DEF Children
<1>7. Nodes' = Nodes
    BY <1>1 DEF Nodes
<1>8. ASSUME NEW k \in Ptr, NEW o \in Ptr, Children(child, c, k, o),
             o = k => k = NULL, SetSlot(par[t], k)
      PROVE  /\ Forest(child', Roots' \cup ({o} \ {NULL}), Nodes \ {c})
             /\ o \notin Roots' \ {NULL} /\ (k # NULL => Reached(child', Roots', k))
             /\ child'[c] = child[c] /\ root' # Wild
             /\ \A a \in Addr \ Nodes : child'[a] = child[a]
    BY <1>4, <1>5, <1>8, UnlinkForest
<1>9. CASE kid = NULL
    <2>1. /\ Forest(child', Roots' \cup ({kid} \ {NULL}), Nodes \ {c})
          /\ root' # Wild /\ \A a \in Addr \ Nodes : child'[a] = child[a]
        BY <1>1, <1>6, <1>8, <1>9
    <2>2. Roots' \cup ({kid} \ {NULL}) = Roots'
        BY <1>9
    <2>3. Forest(child', Roots', Nodes \ {c})
        BY <2>1, <2>2
    <2>4. HolderInv(t)'
        BY <1>1, <1>2, <1>4, <1>7, <1>9, <2>3 DEF HolderInv
    <2>5. FreeInv'
        BY <1>1, <2>1 DEF HeapInv, FreeInv, Nodes
    <2> QED
        BY <1>1, <1>2, <1>3, <1>7, <1>9, <2>1, <2>4, <2>5, HolderStep DEF Inside, Amid
<1>10. CASE kid # NULL
    <2> DEFINE o == child[c][s]
    <2>1. /\ Forest(child', Roots' \cup ({o} \ {NULL}), Nodes \ {c})
          /\ o \notin Roots' \ {NULL} /\ Reached(child', Roots', kid)
          /\ child'[c] = child[c]
          /\ root' # Wild /\ \A a \in Addr \ Nodes : child'[a] = child[a]
        BY <1>1, <1>6, <1>8, <1>10
    <2>2. Orphan(t)' = o
        BY <1>1, <2>1 DEF Orphan
    <2>3. tmp'[t] = kid
        BY <1>1, <1>10 DEF TypeInv, TypeOK
    <2>4. kid \in Nodes \ {c}
        <3>1. kid \in Nodes
            BY <1>4, <1>5, <1>10, SlotType DEF Forest
        <3>2. kid # c
            <4>1. c \in Nodes \ {c} => FALSE
                OBVIOUS
            <4>2. SUFFICES ASSUME kid = c PROVE FALSE
                OBVIOUS
            <4>3. Reached(child', Roots', c) /\ Roots' \subseteq Nodes \ {c} /\ Closed(child', Nodes \ {c}) /\ Nodes \ {c} \in SUBSET Addr
                BY <2>1, <4>2 DEF Forest, Closed
            <4> QED
                BY <4>3 DEF Reached
        <3> QED
            BY <3>1, <3>2
    <2>5. o \notin Roots'
        BY <2>1 DEF Roots
    <2>6. HolderInv(t)'
        <3> HIDE DEF o, kid
        <3> QED
            BY <1>1, <1>2, <1>4, <1>7, <1>10, <2>1, <2>2, <2>3, <2>4, <2>5 DEF HolderInv
    <2>7. FreeInv'
        BY <1>1, <2>1 DEF HeapInv, FreeInv, Nodes
    <2> QED
        BY <1>1, <1>2, <1>3, <1>7, <1>10, <2>1, <2>6, <2>7, HolderStep DEF Inside, Amid
<1> QED
    BY <1>9, <1>10

\* While del has the tree in pieces, no block is half made.
LEMMA PiecesHere ==
    ASSUME TypeInv, MutexInv, HeapInv, NEW t \in Threads, pc[t] \in {"bottom", "free"}
    PROVE  /\ root = Wild => Nodes = {}
           /\ \A a \in Addr : block[a] # "raw"
           /\ count = Cardinality(Nodes)
           /\ cur[t] \in Nodes /\ cur[t] \in Addr /\ call[t].op = "del"
           /\ pc[t] \in Inside
<1>1. pc[t] \in Inside
    BY DEF Inside
<1>2. tree = "up" /\ \A u \in Threads : u # t => pc[u] \notin {"init", "unlock"}
    BY <1>1, HolderAlone DEF Inside
<1> QED
    BY <1>1, <1>2 DEF HeapInv, EmptyInv, RawInv, CountInv, HolderInv, Nodes

LEMMA DelBottomHeap ==
    ASSUME TypeInv, MutexInv, HeapInv, MutexInv', NEW t \in Threads, DelBottom(t)
    PROVE  HeapInv'
<1> DEFINE s == par[t][2]
           n == child[tmp[t]][s]
<1>1. /\ pc[t] = "bottom" /\ n # NULL /\ tmp' = [tmp EXCEPT ![t] = n]
      /\ UNCHANGED <<tree, root, count, block, child, pc, call, cur, par>>
    BY DEF DelBottom, treeVars, heapVars
<1>2. tmp'[t] = n
    BY <1>1 DEF TypeInv, TypeOK
<1>3. /\ root = Wild => Nodes = {}
      /\ \A a \in Addr : block[a] # "raw"
      /\ count = Cardinality(Nodes) /\ cur[t] \in Nodes /\ call[t].op = "del" /\ pc[t] \in Inside
    BY <1>1, PiecesHere
<1>4. /\ Forest(child, Roots \cup ({Orphan(t)} \ {NULL}), Nodes \ {cur[t]})
      /\ tmp[t] \in Nodes \ {cur[t]} /\ Reached(child, Roots, tmp[t])
      /\ Orphan(t) \notin Roots
    BY <1>1 DEF HeapInv, HolderInv
<1>5. s \in Side
    BY SlotType
<1>6. n \in Nodes \ {cur[t]} /\ Reached(child, Roots, n)
    <2> HIDE DEF s
    <2> QED
        BY <1>1, <1>4, <1>5 DEF Forest, Reached, Closed
<1>7. Nodes' = Nodes /\ Roots' = Roots /\ Orphan(t)' = Orphan(t)
    BY <1>1 DEF Nodes, Roots, Orphan
<1>8. HolderInv(t)'
    <2> HIDE DEF n
    <2> QED
        BY <1>1, <1>2, <1>3, <1>4, <1>6, <1>7 DEF HolderInv
<1>9. FreeInv'
    BY <1>1 DEF HeapInv, FreeInv
<1> QED
    BY <1>1, <1>3, <1>7, <1>8, <1>9, HolderStep DEF Amid

\* The orphan, if there is one, is hung below tmp.
LEMMA GraftForest ==
    ASSUME NEW f \in Fun, NEW g \in Fun, NEW R, NEW N, NEW o,
           Forest(f, R \cup ({o} \ {NULL}), N), o \notin R,
           NEW p \in N, NEW s \in Side, f[p][s] = NULL,
           Reached(f, R, p), Updated(g, f, p, s, o)
    PROVE  Forest(g, R, N)
<1>1. CASE o = NULL
    <2>1. R \cup ({o} \ {NULL}) = R
        BY <1>1
    <2>2. \A a \in N, q \in Side : g[a][q] = f[a][q]
        BY <1>1 DEF Updated, Forest
    <2>3. Forest(f, R, N)
        BY <2>1
    <2> QED
        BY <2>2, <2>3, ForestSame
<1>2. CASE o # NULL
    <2> DEFINE Q == R \cup ({o} \ {NULL})
    <2>1. o \in Q /\ Q \ {o} = R
        BY <1>2
    <2>2. Reached(f, Q \ {o}, p) /\ Forest(f, Q, N)
        BY <2>1
    <2> HIDE DEF Q
    <2>3. Forest(g, Q \ {o}, N)
        BY <2>1, <2>2, ForestLink
    <2> QED
        BY <2>1, <2>3
<1> QED
    BY <1>1, <1>2

LEMMA DelGraftHeap ==
    ASSUME TypeInv, MutexInv, HeapInv, MutexInv', NEW t \in Threads, DelGraft(t)
    PROVE  HeapInv'
<1> DEFINE s == par[t][2]
           p == tmp[t]
           o == Orphan(t)
<1>1. /\ pc[t] = "bottom" /\ child[p][s] = NULL /\ child' = [child EXCEPT ![p][s] = o]
      /\ pc' = [pc EXCEPT ![t] = "free"]
      /\ UNCHANGED <<tree, root, count, block, call, cur, par, tmp>>
    BY DEF DelGraft, Goto, treeVars, walkVars, Orphan
<1>2. pc'[t] = "free" /\ \A u \in Threads : u # t => pc'[u] = pc[u]
    BY <1>1 DEF TypeInv, TypeOK
<1>3. /\ root = Wild => Nodes = {}
      /\ \A a \in Addr : block[a] # "raw"
      /\ count = Cardinality(Nodes) /\ cur[t] \in Nodes /\ cur[t] \in Addr /\ call[t].op = "del"
      /\ pc[t] \in Inside
    BY <1>1, PiecesHere
<1>4. /\ Forest(child, Roots \cup ({o} \ {NULL}), Nodes \ {cur[t]})
      /\ p \in Nodes \ {cur[t]} /\ Reached(child, Roots, p)
      /\ o \notin Roots
    BY <1>1 DEF HeapInv, HolderInv
<1>5. s \in Side /\ p \in Addr
    BY <1>4, SlotType DEF Nodes
<1>6. child \in Fun /\ child' \in Fun
    <2>1. child \in [Addr -> [Side -> Ptr]]
        BY DEF TypeInv, TypeOK
    <2>2. o \in Ptr
        BY <1>3, <1>5, <2>1 DEF Orphan
    <2> HIDE DEF o, s, p
    <2> QED
        BY <1>1, <2>1, <2>2, UpdateType DEF Fun
<1>7. Updated(child', child, p, s, o)
    <2> HIDE DEF o, s, p
    <2> QED
        BY <1>1, <1>5, <1>6 DEF Updated, Fun
<1>8. Forest(child', Roots, Nodes \ {cur[t]})
    <2> HIDE DEF o, s, p
    <2> QED
        BY <1>1, <1>4, <1>5, <1>6, <1>7, GraftForest
<1>9. Nodes' = Nodes /\ Roots' = Roots
    BY <1>1 DEF Nodes, Roots
<1>10. FreeInv'
    <2>1. \A a \in Addr : a # p => child'[a] = child[a]
        <3> HIDE DEF o, s, p
        <3> QED
            BY <1>1, <1>5, <1>6 DEF Fun
    <2> QED
        BY <1>1, <1>4, <2>1 DEF HeapInv, FreeInv, Nodes
<1>11. HolderInv(t)'
    <2> HIDE DEF o, s, p
    <2> QED
        BY <1>1, <1>2, <1>3, <1>8, <1>9 DEF HolderInv
<1> QED
    BY <1>1, <1>2, <1>3, <1>9, <1>10, <1>11, HolderStep DEF Inside, Amid

LEMMA DelFreeHeap ==
    ASSUME TypeInv, MutexInv, HeapInv, MutexInv', NEW t \in Threads, DelFree(t)
    PROVE  HeapInv'
<1> DEFINE c == cur[t]
<1>1. /\ pc[t] = "free" /\ block' = [block EXCEPT ![c] = "free"] /\ child' = [child EXCEPT ![c] = NoChild]
      /\ pc' = [pc EXCEPT ![t] = "unlock"] /\ ret' = [ret EXCEPT ![t] = 0]
      /\ UNCHANGED <<tree, root, count, call, cur, par, tmp>>
    BY DEF DelFree, Release, Goto, Answer, treeVars, walkVars
<1>2. /\ pc'[t] = "unlock" /\ ret'[t] = 0
      /\ \A u \in Threads : u # t => pc'[u] = pc[u]
    BY <1>1 DEF TypeInv, TypeOK
<1>3. /\ root = Wild => Nodes = {}
      /\ \A a \in Addr : block[a] # "raw"
      /\ count = Cardinality(Nodes) /\ c \in Nodes /\ c \in Addr /\ call[t].op = "del"
      /\ pc[t] \in Inside
    BY <1>1, PiecesHere
<1>4. Nodes' = Nodes \ {c} /\ Roots' = Roots
    BY <1>1, <1>3 DEF Nodes, Roots, TypeInv, TypeOK
<1>5. Forest(child, Roots, Nodes \ {c})
    BY <1>1 DEF HeapInv, HolderInv
<1>6. \A a \in Addr : a # c => child'[a] = child[a]
    BY <1>1 DEF TypeInv, TypeOK
<1>7. Forest(child', Roots', Nodes')
    <2>1. \A a \in Nodes \ {c}, q \in Side : child'[a][q] = child[a][q]
        BY <1>6 DEF Nodes
    <2>2. Forest(child', Roots, Nodes \ {c})
        <3> HIDE DEF c
        <3> QED
            BY <1>5, <2>1, ForestSame
    <2> QED
        BY <1>4, <2>2
<1>8. count' + (IF ret'[t] = 0 THEN Delta(t)' ELSE 0) = Cardinality(Nodes')
    <2>1. Cardinality(Nodes \ {c}) = Cardinality(Nodes) - 1
        BY <1>3, NodesFinite, FS_RemoveElement
    <2> QED
        BY <1>1, <1>2, <1>3, <1>4, <2>1, NodesFinite DEF Delta
<1>9. \A b \in Addr : block'[b] # "raw"
    BY <1>1, <1>3 DEF TypeInv, TypeOK
<1>10. FreeInv'
    BY <1>1, <1>3, <1>6 DEF HeapInv, FreeInv, TypeInv, TypeOK
<1>11. HolderInv(t)'
    BY <1>2 DEF HolderInv
<1> QED
    BY <1>1, <1>2, <1>3, <1>4, <1>7, <1>8, <1>9, <1>10, <1>11, HolderStep DEF Inside

-----------------------------------------------------------------------------
(* terminate *)

LEMMA HolderRest ==
    ASSUME NEW u, pc'[u] \in {"idle", "traverse", "return"}, pc'[u] = "idle" => par'[u] = RootSlot
    PROVE  HolderInv(u)'
BY DEF HolderInv


\* While terminate runs, it alone says what is left of the tree.
LEMMA ClosingStep ==
    ASSUME HeapInv, MutexInv, NEW t \in Threads, Ending(t),
           UNCHANGED <<tree, pc, call, par>>,
           FreeInv', \A a \in Addr : block'[a] = "raw" => block[a] = "raw",
           Forest(Ahead(t)', OnStack(t)', Nodes'),
           \A i, j \in DOMAIN stack'[t] : stack'[t][i].node = stack'[t][j].node => i = j
    PROVE  HeapInv'
<1>1. /\ tree = "closing" /\ pc[t] = "traverse"
      /\ \A u \in Threads : u # t => pc[u] = "idle"
    BY DEF MutexInv, Ending
<1>2. \A u \in Threads : Ending(u)' => u = t
    BY <1>1 DEF Ending
<1>3. \A u \in Threads : HolderInv(u)'
    BY <1>1 DEF HeapInv, HolderInv
<1>4. RawInv' /\ EmptyInv' /\ WholeInv' /\ CountInv'
    BY <1>1 DEF HeapInv, RawInv, EmptyInv, WholeInv, CountInv
<1>5. ClosingInv'
    BY <1>2 DEF ClosingInv
<1> QED
    BY <1>3, <1>4, <1>5 DEF HeapInv

LEMMA TerminateHeap ==
    ASSUME TypeInv, MutexInv, HeapInv, NEW t \in Threads, Terminate(t)
    PROVE  HeapInv'
<1>1. /\ tree = "up" /\ \A u \in Threads : pc[u] = "idle"
      /\ tree' = "closing" /\ pc' = [pc EXCEPT ![t] = "traverse"]
      /\ stack' = [stack EXCEPT ![t] = WholeTree]
      /\ UNCHANGED <<root, block, child, par>>
    BY DEF Terminate, Goto, heapVars, walkVars
<1>2. stack'[t] = WholeTree /\ \A u \in Threads : pc'[u] = IF u = t THEN "traverse" ELSE "idle"
    BY <1>1 DEF TypeInv, TypeOK
<1>3. /\ root # Wild => Forest(child, Roots, Nodes)
      /\ root = Wild => Nodes = {}
      /\ \A a \in Addr : block[a] # "raw"
      /\ count = Cardinality(Nodes)
    BY <1>1 DEF HeapInv, WholeInv, EmptyInv, RawInv, CountInv, Amid
<1>4. Nodes' = Nodes
    BY <1>1 DEF Nodes
<1>5. Forest(Ahead(t)', OnStack(t)', Nodes)
    <2>1. CASE Nodes = {}
        <3>1. ~(count > 0)
            BY <1>3, <2>1, FS_EmptySet
        <3>2. stack'[t] = <<>>
            BY <1>2, <3>1 DEF WholeTree
        <3>3. OnStack(t)' = {}
            BY <3>2 DEF OnStack
        <3> QED
            BY <2>1, <3>3, ForestEmpty
    <2>2. CASE Nodes # {}
        <3>1. root # Wild /\ root # NULL
            BY <1>3, <2>2, ForestNone DEF Roots
        <3>2. count > 0
            BY <1>3, <2>2, NodesFinite, FS_EmptySet
        <3>3. stack'[t] = <<[node |-> root, at |-> "pre"]>>
            BY <1>2, <3>1, <3>2 DEF WholeTree, Frames
        <3>4. OnStack(t)' = {root} /\ Roots = {root}
            BY <3>1, <3>3 DEF OnStack, Roots
        <3>5. \A a, s : ~Followed(t, a, s)'
            BY <3>3 DEF Followed, Past
        <3>6. \A a \in Nodes, s \in Side : Ahead(t)'[a][s] = child[a][s]
            BY <1>1, <3>5 DEF Ahead, Nodes
        <3> QED
            BY <1>3, <3>1, <3>4, <3>6, ForestSame
    <2> QED
        BY <2>1, <2>2
<1>6. \A i, j \in DOMAIN stack'[t] : stack'[t][i].node = stack'[t][j].node => i = j
    BY <1>2 DEF WholeTree, Frames
<1>7. \A u \in Threads : Ending(u)' => u = t
    BY <1>2 DEF Ending
<1>8. ClosingInv'
    BY <1>4, <1>5, <1>6, <1>7 DEF ClosingInv
<1>9. FreeInv' /\ RawInv' /\ EmptyInv' /\ WholeInv' /\ CountInv'
    BY <1>1, <1>2, <1>3 DEF HeapInv, FreeInv, RawInv, EmptyInv, WholeInv, CountInv
<1>10. ASSUME NEW u \in Threads PROVE HolderInv(u)'
    <2>1. par'[u] = RootSlot
        BY <1>1 DEF HeapInv, HolderInv
    <2> QED
        BY <1>2, <2>1, HolderRest
<1> QED
    BY <1>8, <1>9, <1>10 DEF HeapInv

LEMMA TerminateEndHeap ==
    ASSUME TypeInv, MutexInv, HeapInv, NEW t \in Threads, TerminateEnd(t)
    PROVE  HeapInv'
<1>1. /\ Ending(t) /\ stack[t] = <<>>
      /\ tree' = "none" /\ pc' = [pc EXCEPT ![t] = "return"]
      /\ UNCHANGED <<block, child, par>>
    BY DEF TerminateEnd, Ending, Goto, heapVars, walkVars
<1>2. /\ pc[t] = "traverse" /\ \A u \in Threads : u # t => pc[u] = "idle"
      /\ \A u \in Threads : pc'[u] = IF u = t THEN "return" ELSE "idle"
    BY <1>1 DEF MutexInv, Ending, TypeInv, TypeOK
<1>3. OnStack(t) = {}
    BY <1>1 DEF OnStack
<1>4. Nodes = {}
    BY <1>1, <1>3, ForestNone DEF HeapInv, ClosingInv
<1>5. Nodes' = {}
    BY <1>1, <1>4 DEF Nodes
<1>6. FreeInv' /\ RawInv' /\ EmptyInv' /\ WholeInv' /\ CountInv'
    BY <1>1, <1>2, <1>5 DEF HeapInv, FreeInv, RawInv, EmptyInv, WholeInv, CountInv
<1>7. ClosingInv'
    BY <1>2 DEF ClosingInv, Ending
<1>8. ASSUME NEW u \in Threads PROVE HolderInv(u)'
    <2>1. u # t => par'[u] = RootSlot
        BY <1>1, <1>2 DEF HeapInv, HolderInv
    <2> QED
        BY <1>2, <2>1, HolderRest
<1> QED
    BY <1>6, <1>7, <1>8 DEF HeapInv

\* The two shapes of the stack after a pointer has been looked at.
LEMMA RestOf ==
    ASSUME NEW S, NEW st \in Seq(S), st # <<>>
    PROVE  /\ Tail(st) \in Seq(S) /\ Len(Tail(st)) = Len(st) - 1 /\ Len(st) \in Nat \ {0}
           /\ \A i \in 1..(Len(st) - 1) : Tail(st)[i] = st[i + 1]
BY EmptySeq

LEMMA OneBefore ==
    ASSUME NEW S, NEW h \in S, NEW w \in Seq(S)
    PROVE  /\ <<>> \o <<h>> \o w \in Seq(S)
           /\ Len(<<>> \o <<h>> \o w) = 1 + Len(w)
           /\ \A i \in 1..(1 + Len(w)) :
                (<<>> \o <<h>> \o w)[i] = IF i = 1 THEN h ELSE w[i - 1]
OBVIOUS

LEMMA TwoBefore ==
    ASSUME NEW S, NEW g \in S, NEW h \in S, NEW w \in Seq(S)
    PROVE  /\ <<g>> \o <<h>> \o w \in Seq(S)
           /\ Len(<<g>> \o <<h>> \o w) = 2 + Len(w)
           /\ \A i \in 1..(2 + Len(w)) :
                (<<g>> \o <<h>> \o w)[i] = IF i = 1 THEN g ELSE IF i = 2 THEN h ELSE w[i - 2]
OBVIOUS

LEMMA NoPush ==
    ASSUME NEW st \in Seq(Frame), st # <<>>, NEW h \in Frame
    PROVE  LET r == <<>> \o <<h>> \o Tail(st)
           IN  /\ DOMAIN r = DOMAIN st
               /\ \A i \in DOMAIN r : r[i] = IF i = 1 THEN h ELSE st[i]
<1> DEFINE w == Tail(st)
           r == <<>> \o <<h>> \o w
<1>1. w \in Seq(Frame) /\ Len(w) = Len(st) - 1 /\ Len(st) \in Nat \ {0}
      /\ \A i \in 1..(Len(st) - 1) : w[i] = st[i + 1]
    BY RestOf
<1> HIDE DEF w
<1>2. r \in Seq(Frame) /\ Len(r) = 1 + Len(w)
      /\ \A i \in 1..(1 + Len(w)) : r[i] = IF i = 1 THEN h ELSE w[i - 1]
    BY <1>1, OneBefore
<1> HIDE DEF r
<1>3. DOMAIN r = DOMAIN st /\ \A i \in DOMAIN r : r[i] = IF i = 1 THEN h ELSE st[i]
    BY <1>1, <1>2
<1> QED
    BY <1>3 DEF r, w

LEMMA Push ==
    ASSUME NEW st \in Seq(Frame), st # <<>>, NEW h \in Frame, NEW g \in Frame
    PROVE  LET r == <<g>> \o <<h>> \o Tail(st)
           IN  /\ DOMAIN r = 1..(Len(st) + 1)
               /\ \A i \in DOMAIN r : r[i] = IF i = 1 THEN g ELSE IF i = 2 THEN h ELSE st[i - 1]
<1> DEFINE w == Tail(st)
           r == <<g>> \o <<h>> \o w
<1>1. w \in Seq(Frame) /\ Len(w) = Len(st) - 1 /\ Len(st) \in Nat \ {0}
      /\ \A i \in 1..(Len(st) - 1) : w[i] = st[i + 1]
    BY RestOf
<1> HIDE DEF w
<1>2. r \in Seq(Frame) /\ Len(r) = 2 + Len(w)
      /\ \A i \in 1..(2 + Len(w)) : r[i] = IF i = 1 THEN g ELSE IF i = 2 THEN h ELSE w[i - 2]
    BY <1>1, TwoBefore
<1> HIDE DEF r
<1>3. DOMAIN r = 1..(Len(st) + 1)
    BY <1>1, <1>2
<1>4. ASSUME NEW i \in 1..(Len(st) + 1)
      PROVE  r[i] = IF i = 1 THEN g ELSE IF i = 2 THEN h ELSE st[i - 1]
    <2>1. r[i] = IF i = 1 THEN g ELSE IF i = 2 THEN h ELSE w[i - 2]
        BY <1>1, <1>2
    <2>2. i \notin {1, 2} => i - 2 \in 1..(Len(st) - 1)
        BY <1>1
    <2>3. i \notin {1, 2} => w[i - 2] = st[i - 1]
        <3>1. (i - 2) + 1 = i - 1
            OBVIOUS
        <3> QED
            BY <1>1, <2>2, <3>1
    <2> QED
        BY <2>1, <2>3
<1> QED
    BY <1>3, <1>4 DEF r, w

\* The recursion looks at the pointer on side s of the block on top.
LEMMA LookHeap ==
    ASSUME TypeInv, MutexInv, HeapInv, NEW t \in Threads, Ending(t), stack[t] # <<>>,
           NEW f, f = Head(stack[t]), f.node \in Nodes, NEW s \in Side, ~Past(f, s),
           NEW h \in Frame, h.node = f.node, \A q \in Side : Past(h, q) <=> Past(f, q) \/ q = s,
           stack'[t] = Frames(child[f.node][s]) \o <<h>> \o Tail(stack[t]),
           UNCHANGED <<tree, pc, call, par, heapVars>>
    PROVE  HeapInv'
<1> DEFINE st == stack[t]
           n == f.node
           c == child[n][s]
<1>1. UNCHANGED <<block, child>> /\ Nodes' = Nodes
    BY DEF heapVars, Nodes
<1>2. st \in Seq(Frame) /\ st # <<>> /\ child \in Fun
    BY DEF TypeInv, TypeOK, Fun
<1>3. 1 \in DOMAIN st /\ st[1] = f
    BY <1>2
<1>4. /\ Forest(Ahead(t), OnStack(t), Nodes)
      /\ \A i, j \in DOMAIN st : st[i].node = st[j].node => i = j
    BY DEF HeapInv, ClosingInv
<1>5. n \in Addr /\ c \in Ptr
    BY <1>2 DEF Nodes, Fun
<1>6. Ahead(t)[n][s] = c
    <2>1. ~Followed(t, n, s)
        BY <1>3, <1>4 DEF Followed
    <2> QED
        BY <1>5, <2>1 DEF Ahead
<1>7. CASE c = NULL
    <2> DEFINE r == stack'[t]
    <2>1. DOMAIN r = DOMAIN st /\ \A i \in DOMAIN r : r[i] = IF i = 1 THEN h ELSE st[i]
        <3>1. r = <<>> \o <<h>> \o Tail(st)
            BY <1>7 DEF Frames
        <3> HIDE DEF st, r
        <3> QED
            BY <1>2, <3>1, NoPush
    <2>2. \A i \in DOMAIN r : r[i].node = st[i].node
        BY <1>3, <2>1
    <2>3. OnStack(t)' = OnStack(t)
        <3>1. OnStack(t)' = {r[i].node : i \in DOMAIN r} /\ OnStack(t) = {st[i].node : i \in DOMAIN st}
            BY DEF OnStack
        <3> HIDE DEF st, r
        <3> QED
            BY <2>1, <2>2, <3>1
    <2>4. \A a \in Addr, q \in Side : Followed(t, a, q)' <=> Followed(t, a, q) \/ (a = n /\ q = s)
        <3> TAKE a \in Addr, q \in Side
        <3>1. ASSUME Followed(t, a, q)' PROVE Followed(t, a, q) \/ (a = n /\ q = s)
            <4>1. PICK i \in DOMAIN r : r[i].node = a /\ Past(r[i], q)
                BY <3>1 DEF Followed
            <4> QED
                BY <1>3, <2>1, <4>1 DEF Followed
        <3>2. ASSUME Followed(t, a, q) \/ (a = n /\ q = s) PROVE Followed(t, a, q)'
            <4>1. CASE a = n /\ q = s
                BY <1>3, <2>1, <4>1 DEF Followed
            <4>2. CASE Followed(t, a, q)
                <5>1. PICK i \in DOMAIN st : st[i].node = a /\ Past(st[i], q)
                    BY <4>2 DEF Followed
                <5> QED
                    BY <1>3, <2>1, <5>1 DEF Followed
            <4> QED
                BY <3>2, <4>1, <4>2
        <3> QED
            BY <3>1, <3>2
    <2>5. \A a \in Nodes, q \in Side : Ahead(t)'[a][q] = Ahead(t)[a][q]
        BY <1>1, <1>7, <2>4 DEF Ahead, Nodes
    <2>6. Forest(Ahead(t)', OnStack(t)', Nodes')
        BY <1>1, <1>4, <2>3, <2>5, ForestSame
    <2>7. \A i, j \in DOMAIN r : r[i].node = r[j].node => i = j
        BY <1>4, <2>1, <2>2
    <2> QED
        BY <1>1, <2>6, <2>7, ClosingStep DEF HeapInv, FreeInv
<1>8. CASE c # NULL
    <2> DEFINE r == stack'[t]
               g == [node |-> c, at |-> "pre"]
    <2>1. /\ DOMAIN r = 1..(Len(st) + 1)
          /\ \A i \in DOMAIN r : r[i] = IF i = 1 THEN g ELSE IF i = 2 THEN h ELSE st[i - 1]
        <3>1. r = <<g>> \o <<h>> \o Tail(st)
            BY <1>8 DEF Frames
        <3>2. g \in Frame
            BY <1>5, <1>8 DEF Frame, Ptr
        <3> HIDE DEF g, st, r
        <3> QED
            BY <1>2, <3>1, <3>2, Push
    <2>2. Len(st) \in Nat \ {0} /\ DOMAIN st = 1..Len(st)
        BY <1>2, EmptySeq
    <2>3. g.node = c /\ \A q \in Side : ~Past(g, q)
        BY DEF Past
    <2> HIDE DEF g
    <2>4. 1 \in DOMAIN r /\ r[1] = g
        <3> HIDE DEF st, r
        <3> QED
            BY <2>1, <2>2
    <2>5. \A i \in DOMAIN st : i + 1 \in DOMAIN r /\ r[i + 1] = IF i = 1 THEN h ELSE st[i]
        <3> TAKE i \in DOMAIN st
        <3>1. i \in Nat /\ i + 1 \in 1..(Len(st) + 1) /\ i + 1 # 1 /\ (i + 1) - 1 = i /\ (i + 1 = 2 <=> i = 1)
            BY <2>2
        <3> QED
            BY <2>1, <3>1
    <2>6. \A i \in DOMAIN r : i = 1 \/ \E j \in DOMAIN st : i = j + 1
        <3> TAKE i \in DOMAIN r
        <3>1. i \in 1..(Len(st) + 1)
            BY <2>1
        <3>2. i # 1 => i - 1 \in 1..Len(st) /\ i = (i - 1) + 1
            BY <2>2, <3>1
        <3> QED
            BY <2>2, <3>2
    <2>7. \A j \in DOMAIN st : r[j + 1].node = st[j].node
        BY <1>3, <2>5
    <2>8. OnStack(t)' = OnStack(t) \cup {c}
        <3>1. OnStack(t)' = {r[i].node : i \in DOMAIN r} /\ OnStack(t) = {st[i].node : i \in DOMAIN st}
            BY DEF OnStack
        <3> HIDE DEF st, r, c
        <3>2. ASSUME NEW x \in OnStack(t)' PROVE x \in OnStack(t) \cup {c}
            <4>1. PICK i \in DOMAIN r : x = r[i].node
                BY <3>1, <3>2
            <4> QED
                BY <2>3, <2>4, <2>6, <2>7, <3>1, <4>1
        <3>3. ASSUME NEW x \in OnStack(t) PROVE x \in OnStack(t)'
            <4>1. PICK j \in DOMAIN st : x = st[j].node
                BY <3>1, <3>3
            <4>2. j + 1 \in DOMAIN r /\ r[j + 1].node = st[j].node
                BY <2>5, <2>7
            <4> QED
                BY <3>1, <4>1, <4>2
        <3>4. c \in OnStack(t)'
            BY <2>3, <2>4, <3>1
        <3> QED
            BY <3>2, <3>3, <3>4
    <2>9. \A a \in Addr, q \in Side : Followed(t, a, q)' <=> Followed(t, a, q) \/ (a = n /\ q = s)
        <3> TAKE a \in Addr, q \in Side
        <3>1. ASSUME Followed(t, a, q)' PROVE Followed(t, a, q) \/ (a = n /\ q = s)
            <4>1. PICK i \in DOMAIN r : r[i].node = a /\ Past(r[i], q)
                BY <3>1 DEF Followed
            <4>2. PICK j \in DOMAIN st : i = j + 1
                BY <2>3, <2>4, <2>6, <4>1
            <4> QED
                BY <1>3, <2>5, <4>1, <4>2 DEF Followed
        <3>2. ASSUME Followed(t, a, q) \/ (a = n /\ q = s) PROVE Followed(t, a, q)'
            <4>1. CASE a = n /\ q = s
                BY <1>3, <2>5, <4>1 DEF Followed
            <4>2. CASE Followed(t, a, q)
                <5>1. PICK i \in DOMAIN st : st[i].node = a /\ Past(st[i], q)
                    BY <4>2 DEF Followed
                <5> QED
                    BY <1>3, <2>5, <5>1 DEF Followed
            <4> QED
                BY <3>2, <4>1, <4>2
        <3> QED
            BY <3>1, <3>2
    <2>10. Updated(Ahead(t)', Ahead(t), n, s, NULL)
        BY <1>1, <2>9 DEF Ahead, Updated
    <2>11. Forest(Ahead(t)', OnStack(t)', Nodes')
        <3> HIDE DEF n, c
        <3> QED
            BY <1>1, <1>4, <1>5, <1>6, <1>8, <2>8, <2>10, ForestCut DEF n
    <2>12. c \notin OnStack(t)
        BY <1>4, <1>6, <1>8 DEF Forest
    <2>13. \A i, j \in DOMAIN r : r[i].node = r[j].node => i = j
        <3> SUFFICES ASSUME NEW i \in DOMAIN r, NEW j \in DOMAIN r, r[i].node = r[j].node PROVE i = j
            OBVIOUS
        <3>1. \A k \in DOMAIN st : st[k].node # c
            BY <2>12 DEF OnStack
        <3>2. CASE i = 1
            BY <2>3, <2>4, <2>6, <2>7, <3>1, <3>2
        <3>3. CASE j = 1
            BY <2>3, <2>4, <2>6, <2>7, <3>1, <3>3
        <3>4. CASE i # 1 /\ j # 1
            <4>1. PICK k \in DOMAIN st, l \in DOMAIN st : i = k + 1 /\ j = l + 1
                BY <2>6, <3>4
            <4>2. st[k].node = st[l].node
                BY <2>7, <4>1
            <4> QED
                BY <1>4, <4>1, <4>2
        <3> QED
            BY <3>2, <3>3, <3>4
    <2> QED
        BY <1>1, <2>11, <2>13, ClosingStep DEF HeapInv, FreeInv
<1> QED
    BY <1>7, <1>8

\* The handler frees the block on top, whose pointers have both been followed.
LEMMA FreeTopHeap ==
    ASSUME TypeInv, MutexInv, HeapInv, NEW t \in Threads, Ending(t), stack[t] # <<>>,
           NEW f, f = Head(stack[t]), f.node \in Nodes, \A q \in Side : Past(f, q),
           stack'[t] = Tail(stack[t]), Release(f.node),
           UNCHANGED <<tree, pc, call, par>>
    PROVE  HeapInv'
<1> DEFINE st == stack[t]
           r == stack'[t]
           n == f.node
<1>1. st \in Seq(Frame) /\ st # <<>> /\ child \in Fun /\ n \in Addr
    BY DEF TypeInv, TypeOK, Fun, Nodes
<1>2. /\ block' = [block EXCEPT ![n] = "free"] /\ child' = [child EXCEPT ![n] = NoChild]
    BY DEF Release
<1>3. Nodes' = Nodes \ {n} /\ \A a \in Addr : a # n => child'[a] = child[a]
    BY <1>1, <1>2 DEF Nodes, TypeInv, TypeOK
<1>4. FreeInv' /\ \A a \in Addr : block'[a] = "raw" => block[a] = "raw"
    BY <1>1, <1>2, <1>3 DEF HeapInv, FreeInv, TypeInv, TypeOK, Fun
<1>5. /\ Forest(Ahead(t), OnStack(t), Nodes)
      /\ \A i, j \in DOMAIN st : st[i].node = st[j].node => i = j
    BY DEF HeapInv, ClosingInv
<1>6. 1 \in DOMAIN st /\ st[1] = f
    BY <1>1
<1>7. /\ \A i \in DOMAIN r : i + 1 \in DOMAIN st /\ r[i] = st[i + 1] /\ i + 1 # 1 /\ i \in Int
      /\ \A k \in DOMAIN st : k = 1 \/ \E i \in DOMAIN r : k = i + 1
    <2>1. r \in Seq(Frame) /\ Len(r) = Len(st) - 1 /\ Len(st) \in Nat \ {0}
          /\ \A i \in 1..(Len(st) - 1) : r[i] = st[i + 1]
        BY <1>1, RestOf
    <2>2. DOMAIN r = 1..Len(r) /\ DOMAIN st = 1..Len(st)
        BY <1>1, <2>1
    <2> HIDE DEF r, st
    <2>3. ASSUME NEW i \in DOMAIN r PROVE i + 1 \in DOMAIN st /\ r[i] = st[i + 1] /\ i + 1 # 1 /\ i \in Int
        BY <2>1, <2>2
    <2>4. ASSUME NEW k \in DOMAIN st, k # 1 PROVE k - 1 \in DOMAIN r /\ k = (k - 1) + 1
        BY <2>1, <2>2, <2>4
    <2> QED
        BY <2>3, <2>4
<1>8. \A i, j \in DOMAIN r : r[i].node = r[j].node => i = j
    <2> SUFFICES ASSUME NEW i \in DOMAIN r, NEW j \in DOMAIN r, r[i].node = r[j].node PROVE i = j
        OBVIOUS
    <2>1. st[i + 1].node = st[j + 1].node
        BY <1>7
    <2>2. i + 1 = j + 1
        BY <1>5, <1>7, <2>1
    <2> QED
        BY <1>7, <2>2
<1>9. OnStack(t)' = OnStack(t) \ {n}
    <2>1. OnStack(t)' = {r[i].node : i \in DOMAIN r} /\ OnStack(t) = {st[i].node : i \in DOMAIN st}
        BY DEF OnStack
    <2> HIDE DEF st, r
    <2>2. ASSUME NEW x \in OnStack(t)' PROVE x \in OnStack(t) \ {n}
        BY <1>5, <1>6, <1>7, <2>1
    <2>3. ASSUME NEW x \in OnStack(t) \ {n} PROVE x \in OnStack(t)'
        BY <1>5, <1>6, <1>7, <2>1
    <2> QED
        BY <2>2, <2>3
<1>10. \A a \in Addr, q \in Side : a # n => (Followed(t, a, q)' <=> Followed(t, a, q))
    <2> TAKE a \in Addr, q \in Side
    <2> SUFFICES ASSUME a # n PROVE Followed(t, a, q)' <=> Followed(t, a, q)
        OBVIOUS
    <2> HIDE DEF r, st
    <2>1. Followed(t, a, q)' <=> \E i \in DOMAIN r : r[i].node = a /\ Past(r[i], q)
        BY DEF Followed, r
    <2>2. Followed(t, a, q) <=> \E i \in DOMAIN st : st[i].node = a /\ Past(st[i], q)
        BY DEF Followed, st
    <2> QED
        BY <1>6, <1>7, <2>1, <2>2
<1>11. \A a \in Nodes', q \in Side : Ahead(t)'[a][q] = Ahead(t)[a][q]
    BY <1>3, <1>10 DEF Ahead, Nodes
<1>12. n \in OnStack(t) /\ {Ahead(t)[n][q] : q \in Side} \subseteq {NULL}
    <2>1. \A q \in Side : Followed(t, n, q)
        BY <1>6 DEF Followed
    <2>2. n \in OnStack(t)
        BY <1>6 DEF OnStack
    <2> QED
        BY <1>1, <2>1, <2>2 DEF Ahead
<1>13. Forest(Ahead(t)', OnStack(t)', Nodes')
    <2> HIDE DEF n
    <2>1. Forest(Ahead(t), (OnStack(t) \ {n}) \cup ({Ahead(t)[n][q] : q \in Side} \ {NULL}), Nodes \ {n})
        BY <1>5, <1>12, ForestDrop
    <2>2. Forest(Ahead(t), OnStack(t)', Nodes')
        <3>1. (OnStack(t) \ {n}) \cup ({Ahead(t)[n][q] : q \in Side} \ {NULL}) = OnStack(t)'
            BY <1>9, <1>12
        <3> QED
            BY <1>3, <2>1, <3>1
    <2> QED
        BY <1>11, <2>2, ForestSame
<1> QED
    BY <1>4, <1>8, <1>13, ClosingStep

LEMMA VisitHeap ==
    ASSUME TypeInv, MutexInv, HeapInv, NEW t \in Threads, Visit(t)
    PROVE  HeapInv'
<1> DEFINE f == Head(stack[t])
           n == f.node
           below == Tail(stack[t])
<1>1. /\ pc[t] = "traverse" /\ stack[t] # <<>> /\ n \in Nodes
      /\ UNCHANGED <<tree, root, count, pc, call, walkVars, ret>>
    BY DEF Visit, Valid, treeVars
<1>2. /\ stack \in [Threads -> Seq(Frame)] /\ f \in Frame
    BY <1>1 DEF TypeInv, TypeOK
<1>3. /\ [f EXCEPT !.at = "in"] \in Frame /\ [f EXCEPT !.at = "post"] \in Frame
      /\ f.node = n /\ [f EXCEPT !.at = "in"].node = n /\ [f EXCEPT !.at = "post"].node = n
      /\ [f EXCEPT !.at = "in"].at = "in" /\ [f EXCEPT !.at = "post"].at = "post"
    <2> HIDE DEF f
    <2> QED
        BY <1>2 DEF Frame, f
<1>4. CASE call[t].op # "terminate"
    <2>1. UNCHANGED heapVars
        BY <1>4 DEF Visit
    <2>2. \A u \in Threads : u # t => stack'[u] = stack[u]
        BY <1>2 DEF Visit
    <2>3. ~Ending(t)' /\ pc[t] \notin Inside
        BY <1>1, <1>4 DEF Ending, Inside
    <2>4. UNCHANGED <<cur, par, tmp>>
        BY <1>1 DEF walkVars
    <2> QED
        BY <1>1, <2>1, <2>2, <2>3, <2>4, OutsideStep
<1>5. CASE call[t].op = "terminate"
    <2>1. Ending(t) /\ UNCHANGED par
        BY <1>1, <1>5 DEF Ending, walkVars
    <2>2. CASE f.at = "pre"
        <3> DEFINE h == [f EXCEPT !.at = "in"]
        <3>1. stack'[t] = Frames(child[n]["left"]) \o <<h>> \o below /\ UNCHANGED heapVars
            BY <1>2, <2>2 DEF Visit
        <3>2. "left" \in Side /\ ~Past(f, "left") /\ \A q \in Side : Past(h, q) <=> Past(f, q) \/ q = "left"
            BY <1>3, <2>2 DEF Past, Side
        <3>3. h \in Frame /\ h.node = f.node
            BY <1>3
        <3> HIDE DEF f, h
        <3> QED
            BY <1>1, <2>1, <3>1, <3>2, <3>3, LookHeap DEF f
    <2>3. CASE f.at = "in"
        <3> DEFINE h == [f EXCEPT !.at = "post"]
        <3>1. stack'[t] = Frames(child[n]["right"]) \o <<h>> \o below /\ UNCHANGED heapVars
            BY <1>2, <2>3 DEF Visit
        <3>2. "right" \in Side /\ ~Past(f, "right") /\ \A q \in Side : Past(h, q) <=> Past(f, q) \/ q = "right"
            BY <1>3, <2>3 DEF Past, Side
        <3>3. h \in Frame /\ h.node = f.node
            BY <1>3
        <3> HIDE DEF f, h
        <3> QED
            BY <1>1, <2>1, <3>1, <3>2, <3>3, LookHeap DEF f
    <2>4. CASE f.at = "post"
        <3>1. stack'[t] = below /\ Release(n)
            BY <1>2, <1>5, <2>4 DEF Visit
        <3>2. \A q \in Side : Past(f, q)
            BY <2>4 DEF Past
        <3> QED
            BY <1>1, <2>1, <3>1, <3>2, FreeTopHeap
    <2>5. f.at \in {"pre", "in", "post"}
        BY <1>2 DEF Frame
    <2> QED
        BY <2>2, <2>3, <2>4, <2>5
<1> QED
    BY <1>4, <1>5

-----------------------------------------------------------------------------
(* The rest, and all steps together *)

LEMMA SameHeap ==
    ASSUME HeapInv,
           UNCHANGED <<tree, root, count, block, child, pc, call, cur, par, tmp, stack, ret>>
    PROVE  HeapInv'
<1>1. Nodes' = Nodes /\ Roots' = Roots
    BY DEF Nodes, Roots
<1>2. FreeInv' /\ RawInv' /\ EmptyInv' /\ WholeInv' /\ CountInv'
    BY <1>1 DEF HeapInv, FreeInv, RawInv, EmptyInv, WholeInv, CountInv, Delta
<1>3. \A t \in Threads : Ahead(t)' = Ahead(t) /\ OnStack(t)' = OnStack(t) /\ (Ending(t)' <=> Ending(t))
    BY DEF Ahead, Followed, OnStack, Ending
<1>4. ClosingInv'
    BY <1>1, <1>3 DEF HeapInv, ClosingInv
<1>5. \A t \in Threads : HolderInv(t)'
    BY <1>1 DEF HeapInv, HolderInv, Hangs, Orphan
<1> QED
    BY <1>2, <1>4, <1>5 DEF HeapInv

LEMMA InitializeHeap ==
    ASSUME TypeInv, MutexInv, HeapInv, NEW t \in Threads, Initialize(t)
    PROVE  HeapInv'
<1>1. /\ tree = "none" /\ tree' = "up" /\ count' = 0 /\ root' \in {NULL, Wild}
      /\ UNCHANGED <<block, child, pc, call, par>>
    BY ConstantsAssumption DEF Initialize, heapVars, walkVars
<1>2. /\ \A u \in Threads : pc[u] \notin Inside \cup {"lock"} /\ ~Ending(u)
    BY <1>1 DEF MutexInv
<1>3. Nodes = {} /\ Nodes' = {}
    BY <1>1 DEF HeapInv, EmptyInv, Nodes
<1>4. root' # Wild => Roots' = {}
    BY <1>1 DEF Roots
<1>5. FreeInv' /\ RawInv' /\ EmptyInv' /\ CountInv'
    BY <1>1, <1>2, <1>3, FS_EmptySet DEF HeapInv, FreeInv, RawInv, EmptyInv, CountInv, Inside
<1>6. WholeInv'
    BY <1>3, <1>4, ForestEmpty DEF WholeInv
<1>7. ClosingInv'
    BY <1>1, <1>2 DEF ClosingInv, Ending
<1>8. ASSUME NEW u \in Threads PROVE HolderInv(u)'
    <2>1. pc'[u] = pc[u] /\ par'[u] = par[u] /\ pc[u] \notin Inside \cup {"lock"}
        BY <1>1, <1>2
    <2> QED
        BY <2>1 DEF HeapInv, HolderInv, Inside
<1> QED
    BY <1>5, <1>6, <1>7, <1>8 DEF HeapInv

LEMMA InvokeHeap ==
    ASSUME TypeInv, MutexInv, HeapInv, NEW t \in Threads, Invoke(t)
    PROVE  HeapInv'
<1>1. PICK c \in Calls(t) :
        /\ call' = [call EXCEPT ![t] = c]
        /\ pc' = [pc EXCEPT ![t] = CASE c.op \in {"add", "del"} -> "lock"
                                     [] c.op = "lookup"         -> "lookup"
                                     [] c.op = "print_info"     -> "traverse"]
        /\ cur' = [cur EXCEPT ![t] = IF c.op = "lookup" THEN root ELSE NULL]
        /\ stack' = [stack EXCEPT ![t] = IF c.op = "print_info" THEN Frames(root) ELSE <<>>]
    BY DEF Invoke, Goto
<1>2. c.op \in {"add", "del", "lookup", "print_info"}
    BY CallsType
<1>3. pc[t] = "idle" /\ UNCHANGED <<tree, root, count, heapVars, par, tmp, ret>>
    BY DEF Invoke, treeVars
<1>4. /\ pc'[t] \in {"lock", "lookup", "traverse"} /\ call'[t] = c
      /\ \A u \in Threads : u # t => /\ pc'[u] = pc[u] /\ call'[u] = call[u] /\ cur'[u] = cur[u]
                                     /\ stack'[u] = stack[u]
    BY <1>1, <1>2 DEF TypeInv, TypeOK
<1>5. par'[t] = RootSlot
    BY <1>3 DEF HeapInv, HolderInv
<1>6. pc[t] \notin Inside /\ pc'[t] \notin Inside /\ ~Ending(t)'
    BY <1>2, <1>3, <1>4 DEF Inside, Ending
<1> QED
    BY <1>3, <1>4, <1>5, <1>6, OutsideStep

LEMMA RefuseHeap ==
    ASSUME TypeInv, MutexInv, HeapInv, NEW t \in Threads, Refuse(t)
    PROVE  HeapInv'
<1>1. /\ pc[t] = "idle" /\ pc' = [pc EXCEPT ![t] = "return"]
      /\ call' = [call EXCEPT ![t] = [NoCall EXCEPT !.op = "refused"]]
      /\ ret' = [ret EXCEPT ![t] = -1]
      /\ UNCHANGED <<tree, root, count, heapVars, cur, par, tmp, stack>>
    BY DEF Refuse, Goto, Answer, treeVars, walkVars, frameVars
<1>2. /\ pc'[t] = "return"
      /\ \A u \in Threads : u # t => pc'[u] = pc[u] /\ call'[u] = call[u] /\ ret'[u] = ret[u]
    BY <1>1 DEF TypeInv, TypeOK
<1>3. pc[t] \notin Inside /\ pc'[t] \notin Inside /\ ~Ending(t)'
    BY <1>1, <1>2 DEF Inside, Ending
<1> QED
    BY <1>1, <1>2, <1>3, OutsideStep

LEMMA ReturnHeap ==
    ASSUME TypeInv, MutexInv, HeapInv, NEW t \in Threads, Return(t)
    PROVE  HeapInv'
<1>1. /\ pc[t] = "return" /\ pc' = [pc EXCEPT ![t] = "idle"]
      /\ call' = [call EXCEPT ![t] = NoCall]
      /\ cur' = [cur EXCEPT ![t] = NULL] /\ par' = [par EXCEPT ![t] = RootSlot]
      /\ tmp' = [tmp EXCEPT ![t] = NULL] /\ ret' = [ret EXCEPT ![t] = NULL]
      /\ UNCHANGED <<tree, root, count, heapVars, stack>>
    BY DEF Return, Goto, Answer, treeVars
<1>2. /\ pc'[t] = "idle" /\ par'[t] = RootSlot
      /\ \A u \in Threads : u # t => /\ pc'[u] = pc[u] /\ call'[u] = call[u] /\ cur'[u] = cur[u]
                                     /\ par'[u] = par[u] /\ tmp'[u] = tmp[u] /\ ret'[u] = ret[u]
    BY <1>1 DEF TypeInv, TypeOK
<1>3. pc[t] \notin Inside /\ pc'[t] \notin Inside /\ ~Ending(t)'
    BY <1>1, <1>2 DEF Inside, Ending
<1> QED
    BY <1>1, <1>2, <1>3, OutsideStep

LEMMA LookupHeap ==
    ASSUME TypeInv, MutexInv, HeapInv, NEW t \in Threads, Lookup(t) \/ PrintEnd(t)
    PROVE  HeapInv'
<1>1. /\ pc[t] \in {"lookup", "copy"} \/ (pc[t] = "traverse" /\ call[t].op = "print_info")
      /\ (pc' = pc /\ pc[t] = "lookup") \/ (pc' = [pc EXCEPT ![t] = "copy"]) \/ (pc' = [pc EXCEPT ![t] = "return"])
      /\ ret' = ret \/ ret' = [ret EXCEPT ![t] = 0]
      /\ cur' = cur \/ (\E p : cur' = [cur EXCEPT ![t] = p])
      /\ UNCHANGED <<tree, root, count, heapVars, call, par, tmp, stack>>
    BY DEF Lookup, LookupMiss, LookupDescend, LookupHit, LookupCopy, LookupEnd, PrintEnd, Goto,
           Answer, treeVars, walkVars, frameVars
<1>2. /\ pc'[t] \in {"lookup", "copy", "return"}
      /\ \A u \in Threads : u # t => pc'[u] = pc[u] /\ cur'[u] = cur[u] /\ ret'[u] = ret[u]
    BY <1>1 DEF TypeInv, TypeOK
<1>3. pc[t] \notin Inside /\ pc'[t] \notin Inside /\ ~Ending(t)'
    BY <1>1, <1>2 DEF Inside, Ending
<1> QED
    BY <1>1, <1>2, <1>3, OutsideStep

LEMMA HeapInit == Init => HeapInv
<1> SUFFICES ASSUME Init PROVE HeapInv
    OBVIOUS
<1>1. Nodes = {} /\ \A t \in Threads : pc[t] = "idle" /\ par[t] = RootSlot
    BY DEF Init, Nodes
<1>2. FreeInv /\ RawInv /\ EmptyInv /\ WholeInv /\ CountInv
    BY <1>1 DEF Init, FreeInv, RawInv, EmptyInv, WholeInv, CountInv
<1>3. ClosingInv /\ \A t \in Threads : HolderInv(t)
    BY <1>1 DEF ClosingInv, Ending, HolderInv
<1> QED
    BY <1>2, <1>3 DEF HeapInv

LEMMA HeapNext == TypeInv /\ MutexInv /\ HeapInv /\ [Next]_vars => HeapInv'
<1> SUFFICES ASSUME TypeInv, MutexInv, HeapInv, [Next]_vars PROVE HeapInv'
    OBVIOUS
<1>1. MutexInv'
    BY MutexNext
<1>2. CASE UNCHANGED vars
    BY <1>2, SameHeap DEF vars, treeVars, heapVars, walkVars, frameVars
<1>3. ASSUME NEW t \in Threads, Start(t) PROVE HeapInv'
    BY <1>3, InitializeHeap, InvokeHeap, RefuseHeap, TerminateHeap DEF Start
<1>4. ASSUME NEW t \in Threads, Run(t) PROVE HeapInv'
    <2>1. CASE Lock(t) \/ Unlock(t)
        BY <1>1, <2>1, LockHeap, UnlockHeap
    <2>2. CASE Add(t)
        <3>1. CASE AddRoot(t) \/ AddLeaf(t) \/ AddInit(t)
            BY <1>1, <3>1, AddRootHeap, AddLeafHeap, AddInitHeap
        <3>2. CASE AddNoMemory(t) \/ AddDuplicate(t)
            <4>1. pc[t] \in {"add", "del"} /\ Fail(t)
                BY <3>2 DEF AddNoMemory, AddDuplicate
            <4> QED
                BY <1>1, <4>1, FailHeap
        <3>3. CASE AddDescend(t)
            <4>1. pc[t] \in {"add", "del"} /\ Valid(cur[t]) /\ \E s \in Side : Descend(t, s)
                BY <3>3 DEF AddDescend
            <4> QED
                BY <1>1, <4>1, DescendHeap
        <3> QED
            BY <2>2, <3>1, <3>2, <3>3 DEF Add
    <2>3. CASE Del(t)
        <3>1. CASE DelFound(t) \/ DelUnlink(t) \/ DelBottom(t) \/ DelGraft(t) \/ DelFree(t)
            BY <1>1, <3>1, DelFoundHeap, DelUnlinkHeap, DelBottomHeap, DelGraftHeap, DelFreeHeap
        <3>2. CASE DelMissing(t)
            <4>1. pc[t] \in {"add", "del"} /\ Fail(t)
                BY <3>2 DEF DelMissing
            <4> QED
                BY <1>1, <4>1, FailHeap
        <3>3. CASE DelDescend(t)
            <4>1. pc[t] \in {"add", "del"} /\ Valid(cur[t]) /\ \E s \in Side : Descend(t, s)
                BY <3>3 DEF DelDescend
            <4> QED
                BY <1>1, <4>1, DescendHeap
        <3> QED
            BY <2>3, <3>1, <3>2, <3>3 DEF Del
    <2>4. CASE Lookup(t)
        BY <2>4, LookupHeap
    <2>5. CASE Traverse(t)
        BY <2>5, VisitHeap, LookupHeap, TerminateEndHeap DEF Traverse
    <2>6. CASE Return(t)
        BY <2>6, ReturnHeap
    <2>7. CASE Fault(t)
        BY <2>7, SameHeap DEF Fault, treeVars, heapVars, walkVars, frameVars
    <2> QED
        BY <1>4, <2>1, <2>2, <2>3, <2>4, <2>5, <2>6, <2>7 DEF Run
<1> QED
    BY <1>2, <1>3, <1>4 DEF Next

\* Whatever the threads do, the tree is whole whenever nobody changes it.
THEOREM HeapCorrect == Spec => [](TypeInv /\ MutexInv /\ HeapInv)
<1>1. Init => TypeInv /\ MutexInv /\ HeapInv
    BY TypeInit, MutexInit, HeapInit
<1>2. TypeInv /\ MutexInv /\ HeapInv /\ [Next]_vars => (TypeInv /\ MutexInv /\ HeapInv)'
    BY TypeNext, MutexNext, HeapNext
<1> QED
    BY <1>1, <1>2, PTL DEF Spec

\* tree->count is the number of nodes whenever the mutex is free.
THEOREM CountCorrect == Spec => []CountIsPopulation
<1>1. MutexInv /\ HeapInv => CountIsPopulation
    <2> SUFFICES ASSUME MutexInv, HeapInv, Quiet PROVE count = Cardinality(Nodes)
        BY DEF CountIsPopulation
    <2>1. \A t \in Threads : pc[t] # "unlock"
        BY ConstantsAssumption DEF Quiet, MutexInv, MutexHeldInside, Threads
    <2> QED
        BY <2>1 DEF Quiet, HeapInv, CountInv
<1> QED
    BY <1>1, HeapCorrect, PTL

\* terminate gives every block back.
THEOREM NothingLeakedCorrect == Spec => []NothingLeaked
<1>1. TypeInv /\ MutexInv /\ HeapInv => NothingLeaked
    <2> SUFFICES ASSUME TypeInv, MutexInv, HeapInv, tree = "none" PROVE Free = Addr
        BY DEF NothingLeaked
    <2>1. \A t \in Threads : pc[t] # "init"
        BY DEF MutexInv, Inside
    <2>2. \A a \in Addr : block[a] # "raw" /\ block[a] # "node"
        BY <2>1 DEF HeapInv, RawInv, EmptyInv, Nodes
    <2>3. \A a \in Addr : block[a] \in {"free", "raw", "node"}
        BY DEF TypeInv, TypeOK
    <2> QED
        BY <2>2, <2>3 DEF Free
<1> QED
    BY <1>1, HeapCorrect, PTL

LEMMA ForestBelow ==
    ASSUME NEW f \in Fun, NEW p \in Ptr, NEW N, Forest(f, {p} \ {NULL}, N)
    PROVE  Under(f, p) = N
<1>1. N \in SUBSET Addr /\ Closed(f, N) /\ (p # NULL => p \in N)
    BY DEF Forest, Closed
<1>2. Under(f, p) \subseteq N
    BY <1>1, UnderLeast
<1>3. N \subseteq Under(f, p)
    BY DEF Forest, Reached, Under
<1> QED
    BY <1>2, <1>3

\* Whenever the mutex is free, what the root reaches is all there is, and
\* there is one pointer to each node.
THEOREM TreeCorrect == Spec => []TreeIntact
<1>1. TypeInv /\ MutexInv /\ HeapInv => TreeIntact
    <2> SUFFICES ASSUME TypeInv, MutexInv, HeapInv, Quiet, root # Wild
                 PROVE  /\ Below(root) = Nodes
                        /\ \A a \in Addr : block[a] # "raw"
                        /\ \A a \in Nodes : Cardinality(Incoming(a)) = 1
        BY DEF TreeIntact
    <2>1. \A t \in Threads : pc[t] \notin Inside
        BY ConstantsAssumption DEF Quiet, MutexInv, MutexHeldInside, Threads, Inside
    <2>2. Forest(child, Roots, Nodes)
        BY <2>1 DEF Quiet, HeapInv, WholeInv, Amid, Inside
    <2>3. \A a \in Addr : block[a] # "raw"
        BY <2>1 DEF HeapInv, RawInv, Inside
    <2>4. child \in Fun /\ root \in Ptr
        BY DEF TypeInv, TypeOK, Fun
    <2>5. Below(root) = Nodes
        BY <2>2, <2>4, ForestBelow, BelowIsUnder DEF Roots
    <2>6. ASSUME NEW a \in Nodes PROVE Cardinality(Incoming(a)) = 1
        <3>1. a # NULL /\ NULL \notin Nodes
            BY ConstantsAssumption DEF Nodes
        <3>2. CASE a = root
            <4>1. \A b \in Nodes, s \in Side : child[b][s] # a
                BY <2>2, <3>1, <3>2 DEF Forest, Roots
            <4>2. Incoming(a) = {RootSlot}
                BY <3>2, <4>1 DEF Incoming
            <4> QED
                BY <4>2, FS_Singleton
        <3>3. CASE a # root
            <4>1. \E b \in Nodes, s \in Side : child[b][s] = a
                <5>1. a \in Under(child, root)
                    BY <2>5, BelowIsUnder
                <5> QED
                    BY <2>4, <2>5, <3>3, <5>1, BelowIsUnder, UnderParent
            <4>2. PICK b \in Nodes, s \in Side : child[b][s] = a
                BY <4>1
            <4>3. Incoming(a) = {<<b, s>>}
                BY <2>2, <3>1, <3>3, <4>2 DEF Incoming, Forest
            <4> QED
                BY <4>3, FS_Singleton
        <3> QED
            BY <3>2, <3>3
    <2> QED
        BY <2>3, <2>5, <2>6
<1> QED
    BY <1>1, HeapCorrect, PTL

-----------------------------------------------------------------------------
(* How the subtrees follow a change of the pointers *)

\* Pointers that skip some blocks, or are gone, only make subtrees smaller.
LEMMA UnderShortcut ==
    ASSUME NEW f \in Fun, NEW g \in Fun, NEW p \in Ptr,
           \A a \in Addr, s \in Side : g[a][s] = NULL \/ g[a][s] \in Under(f, f[a][s])
    PROVE  Under(g, p) \subseteq Under(f, p)
<1> DEFINE S == Under(f, p)
<1>1. S \in SUBSET Addr /\ Closed(f, S)
    BY UnderClosed
<1>2. p # NULL => p \in S
    BY UnderSelf DEF Ptr
<1>3. ASSUME NEW a \in S, NEW s \in Side, g[a][s] # NULL PROVE g[a][s] \in S
    <2>1. a \in Addr /\ g[a][s] \in Under(f, f[a][s])
        BY <1>1, <1>3
    <2>2. f[a][s] # NULL
        BY <2>1, UnderNull
    <2>3. f[a][s] \in S
        BY <1>1, <2>2 DEF Closed
    <2> QED
        BY <2>1, <2>3, UnderDeeper
<1>4. Closed(g, S)
    BY <1>3 DEF Closed
<1> HIDE DEF S
<1>5. Under(g, p) \subseteq S
    BY <1>1, <1>2, <1>4, UnderLeast
<1> QED
    BY <1>5 DEF S

\* A new pointer adds what it points to, where the block that has it is.
LEMMA UnderGraft ==
    ASSUME NEW f \in Fun, NEW g \in Fun, NEW p \in Addr, NEW s \in Side, NEW o \in Ptr,
           Updated(g, f, p, s, o), NEW v \in Ptr, NEW x \in Under(g, v)
    PROVE  x \in Under(f, v) \/ (p \in Under(f, v) /\ x \in Under(f, o))
<1> SUFFICES ASSUME x \notin Under(f, v) PROVE p \in Under(f, v) /\ x \in Under(f, o)
    OBVIOUS
<1> DEFINE S == {y \in Addr : y \in Under(f, v) \/ (p \in Under(f, v) /\ y \in Under(f, o))}
<1>1. /\ Under(f, v) \in SUBSET Addr /\ Closed(f, Under(f, v))
      /\ Under(f, o) \in SUBSET Addr /\ Closed(f, Under(f, o))
    BY UnderClosed
<1>2. v # NULL => v \in S
    BY UnderSelf DEF Ptr
<1>3. ASSUME NEW a \in S, NEW q \in Side, g[a][q] # NULL PROVE g[a][q] \in S
    <2>1. CASE a = p /\ q = s
        <3>1. g[a][q] = o /\ o \in Addr
            BY <1>3, <2>1 DEF Updated, Ptr
        <3>2. o \in Under(f, o)
            BY <3>1, UnderSelf
        <3> QED
            BY <2>1, <3>1, <3>2
    <2>2. CASE ~(a = p /\ q = s)
        <3>1. g[a][q] = f[a][q]
            BY <2>2 DEF Updated
        <3> QED
            BY <1>1, <1>3, <3>1 DEF Closed
    <2> QED
        BY <2>1, <2>2
<1>4. S \in SUBSET Addr /\ Closed(g, S)
    BY <1>3 DEF Closed
<1>5. Under(g, v) \subseteq S
    <2> HIDE DEF S
    <2> QED
        BY <1>2, <1>4, UnderLeast
<1> QED
    BY <1>5

\* Nothing leads to a root.
LEMMA UnderNoRoot ==
    ASSUME NEW f \in Fun, NEW R, NEW N, Forest(f, R, N), NEW r \in R, NEW a \in N, NEW s \in Side
    PROVE  r \notin Under(f, f[a][s])
<1> DEFINE p == f[a][s]
<1> SUFFICES ASSUME r \in Under(f, p) PROVE FALSE
    OBVIOUS
<1>1. p # NULL
    BY UnderNull
<1>2. p \in N /\ p # r /\ p \in Ptr
    BY <1>1 DEF Forest, Ptr
<1> HIDE DEF p
<1>3. PICK b \in Under(f, p), q \in Side : f[b][q] = r
    BY <1>2, UnderParent
<1>4. b \in N /\ r # NULL
    <2>1. Under(f, p) \subseteq N
        BY <1>2, UnderForest
    <2>2. r # NULL
        BY ConstantsAssumption DEF Forest
    <2> QED
        BY <1>3, <2>1, <2>2
<1>5. f[b][q] # NULL => f[b][q] \notin R
    BY <1>4 DEF Forest
<1> QED
    BY <1>3, <1>4, <1>5

\* A block without children is all there is under it.
LEMMA UnderLeaf ==
    ASSUME NEW f, NEW a \in Addr, \A s \in Side : f[a][s] = NULL
    PROVE  Under(f, a) \subseteq {a}
<1>1. {a} \in SUBSET Addr /\ Closed(f, {a})
    BY DEF Closed
<1> QED
    BY <1>1, UnderLeast

-----------------------------------------------------------------------------
(* The order of the keys *)

Ordered(s, k, ka) == IF s = "left" THEN k < ka ELSE k >= ka

Sorted(M) ==
    \A a \in M, s \in Side : \A x \in Under(child, child[a][s]) \cap Nodes :
        Ordered(s, key[x], key[a])

\* What a walk has learnt on its way, and what del relies on when it grafts.
WayInv(t) ==
    /\ pc[t] = "add" =>
          \A a \in Nodes, s \in Side :
              cur[t] \in Under(child, child[a][s]) => Ordered(s, call[t].key, key[a])
    /\ pc[t] = "init" =>
          \A a \in Nodes, s \in Side :
              tmp[t] \in Under(child, child[a][s]) => Ordered(s, call[t].key, key[a])
    /\ pc[t] = "bottom" =>
          /\ tmp[t] \in Under(child, child[cur[t]][Other(par[t][2])])
          /\ \A a \in Nodes \ {cur[t]}, s \in Side :
                tmp[t] \in Under(child, child[a][s]) =>
                    \A x \in Under(child, Orphan(t)) : Ordered(s, key[x], key[a])
    /\ pc[t] = "free" => Sorted(Nodes \ {cur[t]})

KeysInv ==
    /\ \A t \in Threads : call[t].op = "add" => call[t].key \in Keys
    /\ \A a \in Nodes : key[a] \in Keys

SortedInv == tree = "up" /\ (\A t \in Threads : pc[t] # "free") => Sorted(Nodes)

OrderInv == KeysInv /\ SortedInv /\ \A t \in Threads : WayInv(t)

\* A step of the thread that holds the mutex.
LEMMA OrderHolder ==
    ASSUME NEW t \in Threads, pc'[t] \in Inside, MutexInv',
           KeysInv', pc'[t] # "free" => Sorted(Nodes)', WayInv(t)'
    PROVE  OrderInv'
<1>1. \A u \in Threads : u # t => pc'[u] \notin Inside
    BY DEF MutexInv, MutexHeldInside, Inside
<1>2. ASSUME NEW u \in Threads PROVE WayInv(u)'
    BY <1>1 DEF WayInv, Inside
<1>3. SortedInv'
    BY DEF SortedInv
<1> QED
    BY <1>2, <1>3 DEF OrderInv

\* A step that leaves the nodes alone.
LEMMA OrderSame ==
    ASSUME OrderInv, NEW t \in Threads, UNCHANGED <<tree, block, child, key>>,
           KeysInv', pc[t] \notin {"free"}, pc'[t] \notin {"add", "init", "bottom", "free"},
           \A u \in Threads : u # t => /\ pc'[u] = pc[u] /\ call'[u] = call[u] /\ cur'[u] = cur[u]
                                       /\ par'[u] = par[u] /\ tmp'[u] = tmp[u]
    PROVE  OrderInv'
<1>1. Nodes' = Nodes
    BY DEF Nodes
<1>2. ASSUME NEW u \in Threads PROVE WayInv(u)'
    <2>1. CASE u = t
        BY <2>1 DEF WayInv
    <2>2. CASE u # t
        BY <1>1, <2>2 DEF OrderInv, WayInv, Sorted, Orphan
    <2> QED
        BY <2>1, <2>2
<1>3. SortedInv'
    BY <1>1 DEF OrderInv, SortedInv, Sorted
<1> QED
    BY <1>2, <1>3 DEF OrderInv

\* With the tree down or closing nobody walks.
LEMMA OrderDown ==
    ASSUME MutexInv', tree' # "up", KeysInv'
    PROVE  OrderInv'
<1>1. \A u \in Threads : pc'[u] \notin Inside
    BY DEF MutexInv
<1> QED
    BY <1>1 DEF OrderInv, SortedInv, WayInv, Inside

LEMMA TowardOrdered ==
    ASSUME NEW c, NEW k \in Keys, c.key \in Keys, NEW s \in Side, Toward(c, k) = s
    PROVE  Ordered(s, c.key, k)
<1>1. c.key \in Int /\ k \in Int
    BY ConstantsAssumption
<1>2. CASE s = "left"
    BY <1>1, <1>2 DEF Toward, Ordered
<1>3. CASE s = "right"
    <2>1. ~(c.key < k)
        BY <1>3 DEF Toward
    <2> QED
        BY <1>1, <1>3, <2>1 DEF Ordered
<1> QED
    BY <1>2, <1>3 DEF Side

LEMMA SortedHere ==
    ASSUME MutexInv, OrderInv, NEW t \in Threads, pc[t] \in Inside, pc[t] # "free"
    PROVE  Sorted(Nodes)
BY HolderAlone DEF OrderInv, SortedInv, Inside

LEMMA KeysSame == KeysInv /\ UNCHANGED <<call, block, key>> => KeysInv'
BY DEF KeysInv, Nodes

LEMMA NodeKey == ASSUME OrderInv, NEW a \in Nodes PROVE key[a] \in Keys /\ key[a] \in Int
BY ConstantsAssumption DEF OrderInv, KeysInv

LEMMA RootOnTop ==
    ASSUME TypeInv, root # Wild => Forest(child, Roots, Nodes), root = Wild => Nodes = {}
    PROVE  \A a \in Nodes, s \in Side : root \notin Under(child, child[a][s])
<1> TAKE a \in Nodes, s \in Side
<1>1. CASE root = NULL
    BY <1>1, ConstantsAssumption DEF Under
<1>2. CASE root # NULL
    <2>1. Forest(child, Roots, Nodes) /\ root \in Roots
        BY <1>2 DEF Roots
    <2> QED
        BY <2>1, ChildFun, UnderNoRoot
<1> QED
    BY <1>1, <1>2

LEMMA LockOrder ==
    ASSUME TypeInv, MutexInv, HeapInv, OrderInv, MutexInv', NEW t \in Threads, Lock(t)
    PROVE  OrderInv'
<1>1. /\ pc[t] = "lock" /\ cur' = [cur EXCEPT ![t] = root] /\ pc' = [pc EXCEPT ![t] = call[t].op]
      /\ call[t].op \in {"add", "del"} /\ lock = NULL
      /\ UNCHANGED <<tree, root, block, child, key, call>>
    BY DEF Lock, Goto, MutexFree, TypeInv, CallInv, heapVars
<1>2. pc'[t] \in {"add", "del"} /\ cur'[t] = root
    BY <1>1 DEF TypeInv, TypeOK
<1>3. tree = "up" /\ \A u \in Threads : pc[u] \notin Inside
    BY <1>1, ConstantsAssumption DEF MutexInv, MutexHeldInside, Inside, Threads
<1>4. /\ root # Wild => Forest(child, Roots, Nodes)
      /\ root = Wild => Nodes = {}
      /\ Sorted(Nodes)
    BY <1>3 DEF HeapInv, WholeInv, EmptyInv, OrderInv, SortedInv, Amid, Inside
<1>5. \A a \in Nodes, s \in Side : root \notin Under(child, child[a][s])
    BY <1>4, RootOnTop
<1>6. KeysInv'
    BY <1>1, KeysSame DEF OrderInv
<1>7. WayInv(t)'
    BY <1>1, <1>2, <1>5 DEF WayInv, Nodes
<1>8. Sorted(Nodes)'
    BY <1>1, <1>4 DEF Sorted, Nodes
<1> QED
    BY <1>2, <1>6, <1>7, <1>8, OrderHolder DEF Inside

LEMMA AddDescendOrder ==
    ASSUME TypeInv, MutexInv, HeapInv, OrderInv, MutexInv', NEW t \in Threads, AddDescend(t)
    PROVE  OrderInv'
<1> DEFINE c == cur[t]
<1>1. PICK s \in Side : Toward(call[t], key[c]) = s /\ Descend(t, s)
    BY DEF AddDescend
<1>2. /\ pc[t] = "add" /\ c \in Nodes /\ child[c][s] # NULL
      /\ cur' = [cur EXCEPT ![t] = child[c][s]]
      /\ UNCHANGED <<tree, root, block, child, key, pc, call>>
    BY <1>1 DEF AddDescend, Valid, Descend, treeVars, heapVars
<1>3. cur'[t] = child[c][s]
    BY <1>2 DEF TypeInv, TypeOK
<1>4. Forest(child, Roots, Nodes) /\ Sorted(Nodes) /\ child \in Fun
    BY <1>2, WholeHere, SortedHere, ChildFun DEF Inside, Amid
<1>5. call[t].op = "add" /\ call[t].key \in Keys
    BY <1>2 DEF HeapInv, HolderInv, OrderInv, KeysInv
<1>6. Ordered(s, call[t].key, key[c])
    BY <1>1, <1>2, <1>5, NodeKey, TowardOrdered
<1>7. ASSUME NEW a \in Nodes, NEW q \in Side, child[c][s] \in Under(child, child[a][q])
      PROVE  Ordered(q, call[t].key, key[a])
    <2>1. child[a][q] \in Nodes \cup {NULL}
        BY <1>4 DEF Forest
    <2>2. child[c][s] = child[a][q] \/ c \in Under(child, child[a][q])
        BY <1>2, <1>4, <1>7, <2>1, UnderOneParent
    <2>3. CASE child[c][s] = child[a][q]
        <3>1. a = c /\ q = s
            BY <1>2, <1>4, <2>3 DEF Forest
        <3> QED
            BY <1>6, <3>1
    <2>4. CASE c \in Under(child, child[a][q])
        BY <1>2, <2>4 DEF OrderInv, WayInv
    <2> QED
        BY <2>2, <2>3, <2>4
<1>8. KeysInv' /\ Sorted(Nodes)'
    BY <1>2, <1>4, KeysSame DEF OrderInv, Sorted, Nodes
<1>9. WayInv(t)'
    BY <1>2, <1>3, <1>7 DEF WayInv, Nodes
<1> QED
    BY <1>2, <1>8, <1>9, OrderHolder DEF Inside

LEMMA AddRootOrder ==
    ASSUME TypeInv, MutexInv, HeapInv, OrderInv, MutexInv', NEW t \in Threads, AddRoot(t)
    PROVE  OrderInv'
<1>1. PICK a \in Free : InitNode(t, a) /\ root' = a
    BY DEF AddRoot
<1>2. /\ pc[t] = "add" /\ cur[t] = NULL /\ pc'[t] = "unlock" /\ call' = call
    BY DEF AddRoot, Goto, TypeInv, TypeOK
<1>3. root = NULL /\ call[t].op = "add" /\ call[t].key \in Keys
    BY <1>2 DEF HeapInv, HolderInv, Hangs, OrderInv, KeysInv
<1>4. Nodes = {}
    <2>1. Forest(child, Roots, Nodes)
        BY <1>2, <1>3, ConstantsAssumption, WholeHere DEF Inside, Amid
    <2> QED
        BY <1>3, <2>1, ForestNone DEF Roots
<1>5. /\ a \in Addr /\ block' = [block EXCEPT ![a] = "node"] /\ child' = [child EXCEPT ![a] = NoChild]
      /\ key' = [key EXCEPT ![a] = call[t].key]
    BY <1>1 DEF InitNode, Free
<1>6. Nodes' = {a} /\ key'[a] = call[t].key /\ \A s \in Side : child'[a][s] = NULL
    BY <1>4, <1>5 DEF Nodes, TypeInv, TypeOK, NoChild
<1>7. KeysInv'
    BY <1>2, <1>3, <1>6 DEF OrderInv, KeysInv
<1>8. Sorted(Nodes)'
    BY <1>6, UnderNull DEF Sorted
<1>9. WayInv(t)'
    BY <1>2 DEF WayInv
<1> QED
    BY <1>2, <1>7, <1>8, <1>9, OrderHolder DEF Inside

LEMMA AddLeafOrder ==
    ASSUME TypeInv, MutexInv, HeapInv, OrderInv, MutexInv', NEW t \in Threads, AddLeaf(t)
    PROVE  OrderInv'
<1> DEFINE c == cur[t]
<1>1. PICK s \in Side, a \in Free :
        /\ Toward(call[t], key[c]) = s /\ child[c][s] = NULL
        /\ block' = [block EXCEPT ![a] = "raw"]
        /\ child' = [child EXCEPT ![c][s] = a]
        /\ tmp' = [tmp EXCEPT ![t] = a]
    BY DEF AddLeaf
<1>2. /\ pc[t] = "add" /\ c \in Nodes /\ c \in Addr /\ pc'[t] = "init" /\ tmp'[t] = a
      /\ UNCHANGED <<tree, root, key, call>>
    BY <1>1 DEF AddLeaf, Valid, Goto, treeVars, TypeInv, TypeOK, Nodes
<1>3. Forest(child, Roots, Nodes) /\ Sorted(Nodes) /\ child \in Fun
    BY <1>2, WholeHere, SortedHere, ChildFun DEF Inside, Amid
<1>4. call[t].op = "add" /\ call[t].key \in Keys
    BY <1>2 DEF HeapInv, HolderInv, OrderInv, KeysInv
<1>5. Ordered(s, call[t].key, key[c])
    BY <1>1, <1>2, <1>4, NodeKey, TowardOrdered
<1>6. a \in Addr /\ a \notin Nodes /\ \A q \in Side : child[a][q] = NULL
    BY DEF Free, Nodes, HeapInv, FreeInv, NoChild
<1>7. Nodes' = Nodes
    BY <1>1, <1>6 DEF Nodes, TypeInv, TypeOK
<1>8. Updated(child', child, c, s, a) /\ child' \in Fun
    <2>1. child' \in Fun
        BY <1>1, <1>3, <1>6, UpdateType DEF Fun, Ptr
    <2> QED
        BY <1>1, <1>2, <1>3, <2>1 DEF Updated, Fun
<1>9. Under(child, a) \subseteq {a}
    BY <1>6, UnderLeaf
\* What is new below a pointer of the tree is the block, where c was below it.
<1>10. ASSUME NEW b \in Nodes, NEW q \in Side, NEW x \in Under(child', child'[b][q])
       PROVE  x \in Under(child, child[b][q]) \/ (x = a /\ ((b = c /\ q = s) \/ c \in Under(child, child[b][q])))
    <2>1. b \in Addr /\ a \in Ptr /\ child[b][q] \in Ptr
        BY <1>3, <1>6 DEF Nodes, Fun, Ptr
    <2>2. CASE b = c /\ q = s
        <3>1. child'[b][q] = a
            BY <1>2, <1>8, <2>2 DEF Updated
        <3>2. x \in Under(child, a)
            BY <1>2, <1>3, <1>8, <1>10, <2>1, <3>1, UnderGraft
        <3> QED
            BY <1>9, <2>2, <3>2
    <2>3. CASE ~(b = c /\ q = s)
        <3>1. child'[b][q] = child[b][q]
            BY <1>8, <2>1, <2>3 DEF Updated
        <3>2. x \in Under(child, child[b][q]) \/ (c \in Under(child, child[b][q]) /\ x \in Under(child, a))
            BY <1>2, <1>3, <1>8, <1>10, <2>1, <3>1, UnderGraft
        <3> QED
            BY <1>9, <3>2
    <2> QED
        BY <2>2, <2>3
<1>11. KeysInv'
    BY <1>2, <1>7 DEF OrderInv, KeysInv
<1>12. Sorted(Nodes)'
    BY <1>2, <1>3, <1>6, <1>7, <1>10 DEF Sorted
<1>13. ASSUME NEW b \in Nodes, NEW q \in Side, a \in Under(child', child'[b][q])
       PROVE  Ordered(q, call[t].key, key[b])
    <2>1. child[b][q] \in Nodes \cup {NULL}
        BY <1>3 DEF Forest
    <2>2. a \notin Under(child, child[b][q])
        BY <1>3, <1>6, <2>1, UnderForest
    <2>3. (b = c /\ q = s) \/ c \in Under(child, child[b][q])
        BY <1>10, <1>13, <2>2
    <2> QED
        BY <1>2, <1>5, <2>3 DEF OrderInv, WayInv
<1>14. WayInv(t)'
    BY <1>2, <1>7, <1>13 DEF WayInv
<1> QED
    BY <1>2, <1>11, <1>12, <1>14, OrderHolder DEF Inside

LEMMA AddInitOrder ==
    ASSUME TypeInv, MutexInv, HeapInv, OrderInv, MutexInv', NEW t \in Threads, AddInit(t)
    PROVE  OrderInv'
<1> DEFINE a == tmp[t]
<1>1. /\ pc[t] = "init" /\ a \in Addr
      /\ block' = [block EXCEPT ![a] = "node"] /\ child' = [child EXCEPT ![a] = NoChild]
      /\ key' = [key EXCEPT ![a] = call[t].key] /\ call' = call
      /\ pc' = [pc EXCEPT ![t] = "unlock"] /\ pc'[t] = "unlock"
    BY DEF AddInit, InitNode, Goto, TypeInv, TypeOK, CallInv
<1>2. block[a] = "raw" /\ call[t].op = "add" /\ call[t].key \in Keys
    BY <1>1 DEF HeapInv, HolderInv, OrderInv, KeysInv
<1>3. child[a] = NoChild /\ child' = child
    BY <1>1, <1>2 DEF HeapInv, FreeInv, TypeInv, TypeOK
<1>4. /\ Nodes' = Nodes \cup {a} /\ a \notin Nodes /\ key'[a] = call[t].key
      /\ \A b \in Nodes : key'[b] = key[b]
    BY <1>1, <1>2 DEF Nodes, TypeInv, TypeOK
<1>5. Sorted(Nodes)
    BY <1>1, SortedHere DEF Inside
<1>6. KeysInv'
    BY <1>1, <1>2, <1>4 DEF OrderInv, KeysInv
<1>7. \A s \in Side : Under(child, child[a][s]) = {}
    BY <1>3, UnderNull DEF NoChild
<1>8. ASSUME NEW b \in Nodes, NEW s \in Side, NEW x \in Under(child, child[b][s]) \cap Nodes'
      PROVE  Ordered(s, key'[x], key'[b])
    <2>1. CASE x = a
        BY <1>1, <1>4, <1>8, <2>1 DEF OrderInv, WayInv
    <2>2. CASE x \in Nodes
        BY <1>4, <1>5, <1>8, <2>2 DEF Sorted
    <2> QED
        BY <1>4, <2>1, <2>2
<1>9. Sorted(Nodes)'
    BY <1>3, <1>4, <1>7, <1>8 DEF Sorted
<1>10. WayInv(t)'
    BY <1>1 DEF WayInv
<1> QED
    BY <1>1, <1>6, <1>9, <1>10, OrderHolder DEF Inside

LEMMA UnderShorter ==
    ASSUME NEW f \in Fun, NEW g \in Fun, NEW a \in Addr, NEW s \in Side,
           \A b \in Addr, q \in Side : g[b][q] = NULL \/ g[b][q] \in Under(f, f[b][q])
    PROVE  Under(g, g[a][s]) \subseteq Under(f, f[a][s])
<1>1. g[a][s] \in Ptr
    BY DEF Fun
<1>2. Under(g, g[a][s]) \subseteq Under(f, g[a][s])
    BY <1>1, UnderShortcut
<1>3. CASE g[a][s] = NULL
    BY <1>2, <1>3, UnderNull
<1>4. CASE g[a][s] \in Under(f, f[a][s])
    BY <1>2, <1>4, UnderDeeper
<1> QED
    BY <1>3, <1>4

\* Unlinking the victim only shortens paths.
LEMMA UnlinkShort ==
    ASSUME TypeInv, NEW t \in Threads, Hangs(t), cur[t] \in Nodes,
           NEW r \in Side, SetSlot(par[t], child[cur[t]][r])
    PROVE  /\ child' \in Fun
           /\ \A b \in Addr, q \in Side :
                child'[b][q] = NULL \/ child'[b][q] \in Under(child, child[b][q])
<1> DEFINE c == cur[t]
           k == child[c][r]
           p == par[t][1]
           s == par[t][2]
<1>1. child \in Fun /\ c \in Addr /\ k \in Ptr
    BY ChildFun DEF Fun, Nodes
<1>2. \A b \in Addr, q \in Side : child[b][q] = NULL \/ child[b][q] \in Under(child, child[b][q])
    BY <1>1, UnderSelf DEF Fun, Ptr
<1>3. CASE par[t] = RootSlot
    <2>1. child' = child
        BY <1>3 DEF SetSlot
    <2> QED
        BY <1>1, <1>2, <2>1
<1>4. CASE par[t] # RootSlot
    <2>1. p \in Addr /\ s \in Side /\ child[p][s] = c /\ child' = [child EXCEPT ![p][s] = k]
        BY <1>4, SlotType DEF Hangs, SetSlot, Nodes
    <2> HIDE DEF k, p, s
    <2>2. child' \in Fun
        BY <1>1, <2>1, UpdateType DEF Fun
    <2>3. \A b \in Addr, q \in Side : child'[b][q] = IF b = p /\ q = s THEN k ELSE child[b][q]
        BY <1>1, <2>1 DEF Fun
    <2>4. k = NULL \/ k \in Under(child, c)
        <3>1. c \in Under(child, c)
            BY <1>1, UnderSelf
        <3> QED
            BY <1>1, <3>1, UnderClosed DEF Closed, k
    <2> QED
        BY <1>1, <1>2, <2>1, <2>2, <2>3, <2>4
<1> QED
    BY <1>3, <1>4

\* What add or del found, or failed to find, moves nothing.
LEMMA StillOrder ==
    ASSUME TypeInv, OrderInv, NEW t \in Threads,
           Unlock(t) \/ Fail(t) \/ DelFound(t) \/ DelDescend(t), pc[t] # "free"
    PROVE  OrderInv'
<1>1. UNCHANGED <<tree, block, child, key, call>>
    BY DEF Unlock, Fail, DelFound, DelDescend, Descend, treeVars, heapVars
<1>2. pc'[t] \in {"return", "unlock", "unlink", "del"}
    BY DEF Unlock, Fail, DelFound, DelDescend, Descend, Goto, TypeInv, TypeOK
<1>3. \A u \in Threads : u # t => pc'[u] = pc[u] /\ cur'[u] = cur[u] /\ par'[u] = par[u] /\ tmp'[u] = tmp[u]
    BY DEF Unlock, Fail, DelFound, DelDescend, Descend, Goto, TypeInv, TypeOK, walkVars
<1>4. KeysInv'
    BY <1>1, KeysSame DEF OrderInv
<1> QED
    BY <1>1, <1>2, <1>3, <1>4, OrderSame

LEMMA DelUnlinkOrder ==
    ASSUME TypeInv, MutexInv, HeapInv, OrderInv, MutexInv', NEW t \in Threads, DelUnlink(t)
    PROVE  OrderInv'
<1> DEFINE c == cur[t]
           s == par[t][2]
           kid == child[c][Other(s)]
           o == child[c][s]
<1>1. /\ pc[t] = "unlink" /\ UNCHANGED <<tree, block, key, call, cur, par>>
      /\ IF kid = NULL
         THEN SetSlot(par[t], o) /\ Goto(t, "free")
         ELSE SetSlot(par[t], kid) /\ Goto(t, "bottom") /\ tmp' = [tmp EXCEPT ![t] = kid]
    BY DEF DelUnlink
<1>2. pc'[t] = (IF kid = NULL THEN "free" ELSE "bottom")
    BY <1>1 DEF Goto, TypeInv, TypeOK
<1>3. c \in Nodes /\ c \in Addr /\ Hangs(t)
    BY <1>1 DEF HeapInv, HolderInv, Nodes
<1>4. Forest(child, Roots, Nodes) /\ Sorted(Nodes) /\ child \in Fun
    BY <1>1, <1>3, WholeHere, SortedHere, ChildFun DEF Inside, Amid
<1>5. s \in Side /\ Other(s) \in Side /\ Other(s) # s
    BY SlotType
<1>6. /\ child' \in Fun
      /\ \A b \in Addr, q \in Side :
           child'[b][q] = NULL \/ child'[b][q] \in Under(child, child[b][q])
    <2>1. CASE kid = NULL
        BY <1>1, <1>3, <1>5, <2>1, UnlinkShort
    <2>2. CASE kid # NULL
        BY <1>1, <1>3, <1>5, <2>2, UnlinkShort
    <2> QED
        BY <2>1, <2>2
<1>7. \A b \in Addr, q \in Side : Under(child', child'[b][q]) \subseteq Under(child, child[b][q])
    BY <1>4, <1>6, UnderShorter
<1>8. Nodes' = Nodes /\ KeysInv'
    BY <1>1, KeysSame DEF Nodes, OrderInv
<1>9. Sorted(Nodes)'
    BY <1>1, <1>4, <1>7, <1>8 DEF Sorted, Nodes
<1>10. CASE kid = NULL
    <2>1. WayInv(t)'
        BY <1>2, <1>8, <1>9, <1>10 DEF WayInv, Sorted
    <2> QED
        BY <1>2, <1>8, <1>9, <1>10, <2>1, OrderHolder DEF Inside
<1>11. CASE kid # NULL
    <2>1. tmp'[t] = kid
        BY <1>1, <1>11 DEF TypeInv, TypeOK
    <2>2. child'[c] = child[c]
        BY <1>1, <1>3, <1>11, SlotType, ChildElsewhere, <1>4 DEF SetSlot, Hangs, Fun
    <2>3. kid \in Nodes /\ kid \in Under(child', child'[c][Other(s)])
        <3>1. kid \in Nodes
            BY <1>3, <1>4, <1>5, <1>11 DEF Forest
        <3> QED
            BY <2>2, <3>1, UnderSelf DEF Nodes
    <2>4. ASSUME NEW a \in Nodes \ {c}, NEW q \in Side, kid \in Under(child', child'[a][q]),
                 NEW x \in Under(child', o)
          PROVE  Ordered(q, key[x], key[a])
        <3>1. kid \in Under(child, child[a][q])
            BY <1>7, <2>4 DEF Nodes
        <3>2. child[a][q] \in Nodes \cup {NULL}
            BY <1>4 DEF Forest
        <3>3. kid # child[a][q]
            BY <1>3, <1>4, <1>5, <1>11, <2>4 DEF Forest
        <3>4. c \in Under(child, child[a][q])
            <4> HIDE DEF c
            <4>1. child[c][Other(s)] \in Under(child, child[a][q])
                BY <3>1
            <4>2. child[c][Other(s)] = child[a][q] \/ c \in Under(child, child[a][q])
                BY <1>3, <1>4, <1>5, <1>11, <3>2, <4>1, UnderOneParent
            <4> QED
                BY <3>3, <4>2
        <3>5. o # NULL
            BY <2>4, UnderNull
        <3>6. o \in Under(child, child[a][q])
            BY <1>4, <1>5, <3>4, <3>5, UnderClosed DEF Closed
        <3>7. x \in Under(child, o)
            <4>1. x \in Under(child', child'[c][s])
                BY <2>2, <2>4
            <4> QED
                BY <1>3, <1>5, <1>7, <4>1
        <3>8. x \in Under(child, child[a][q]) /\ x \in Nodes
            BY <1>4, <3>2, <3>6, <3>7, UnderDeeper, UnderForest
        <3> QED
            BY <1>4, <3>8 DEF Sorted
    <2>5. Orphan(t)' = o
        BY <1>1, <2>2 DEF Orphan
    <2>6. WayInv(t)'
        <3> HIDE DEF o, kid, c
        <3> QED
            BY <1>1, <1>2, <1>8, <1>11, <2>1, <2>3, <2>4, <2>5 DEF WayInv, c
    <2> QED
        BY <1>2, <1>8, <1>9, <1>11, <2>6, OrderHolder DEF Inside
<1> QED
    BY <1>10, <1>11

LEMMA Across ==
    ASSUME NEW s \in Side, NEW k \in Int, NEW l \in Int, NEW m \in Int,
           Ordered(s, k, l), Ordered(Other(s), m, l)
    PROVE  Ordered(s, k, m)
BY DEF Ordered, Other, Side

\* del at the bottom: its victim still has both children.
LEMMA BottomHere ==
    ASSUME TypeInv, MutexInv, HeapInv, OrderInv, NEW t \in Threads, pc[t] = "bottom"
    PROVE  LET c == cur[t]
               s == par[t][2]
           IN  /\ Sorted(Nodes) /\ child \in Fun /\ s \in Side /\ Other(s) \in Side
               /\ Forest(child, Roots \cup ({child[c][s]} \ {NULL}), Nodes \ {c})
               /\ c \in Nodes /\ tmp[t] \in Nodes \ {c}
               /\ tmp[t] \in Under(child, child[c][Other(s)])
               /\ \A a \in Nodes \ {c}, q \in Side :
                    tmp[t] \in Under(child, child[a][q]) =>
                        \A x \in Under(child, child[c][s]) : Ordered(q, key[x], key[a])
               /\ Under(child, child[c][s]) \subseteq Nodes
               /\ \A x \in Under(child, child[c][s]) : Ordered(s, key[x], key[tmp[t]])
<1> DEFINE c == cur[t]
           s == par[t][2]
           o == child[c][s]
<1>1. Sorted(Nodes) /\ child \in Fun /\ s \in Side /\ Other(s) \in Side
    BY SortedHere, ChildFun, SlotType DEF Inside
<1>2. /\ Forest(child, Roots \cup ({o} \ {NULL}), Nodes \ {c})
      /\ c \in Nodes /\ tmp[t] \in Nodes \ {c}
    BY DEF HeapInv, HolderInv, Orphan
<1>3. /\ tmp[t] \in Under(child, child[c][Other(s)])
      /\ \A a \in Nodes \ {c}, q \in Side :
           tmp[t] \in Under(child, child[a][q]) =>
               \A x \in Under(child, o) : Ordered(q, key[x], key[a])
    BY DEF OrderInv, WayInv, Orphan
<1>4. Under(child, o) \subseteq Nodes
    <2>1. o \in (Nodes \ {c}) \cup {NULL}
        BY <1>2 DEF Forest
    <2> QED
        BY <1>2, <2>1, UnderForest
<1>5. ASSUME NEW x \in Under(child, o) PROVE Ordered(s, key[x], key[tmp[t]])
    <2>1. Ordered(s, key[x], key[c])
        BY <1>1, <1>2, <1>4, <1>5 DEF Sorted
    <2>2. Ordered(Other(s), key[tmp[t]], key[c])
        BY <1>1, <1>2, <1>3 DEF Sorted
    <2>3. key[x] \in Int /\ key[c] \in Int /\ key[tmp[t]] \in Int
        BY <1>2, <1>4, <1>5, NodeKey
    <2> QED
        BY <1>1, <2>1, <2>2, <2>3, Across
<1> QED
    BY <1>1, <1>2, <1>3, <1>4, <1>5

LEMMA DelBottomOrder ==
    ASSUME TypeInv, MutexInv, HeapInv, OrderInv, MutexInv', NEW t \in Threads, DelBottom(t)
    PROVE  OrderInv'
<1> DEFINE c == cur[t]
           s == par[t][2]
           p == tmp[t]
           n == child[p][s]
           o == child[c][s]
<1>1. /\ pc[t] = "bottom" /\ n # NULL /\ tmp' = [tmp EXCEPT ![t] = n] /\ tmp'[t] = n
      /\ UNCHANGED <<tree, block, child, key, pc, call, cur, par>>
    BY DEF DelBottom, treeVars, heapVars, TypeInv, TypeOK
<1>2. /\ Sorted(Nodes) /\ child \in Fun /\ s \in Side
      /\ Forest(child, Roots \cup ({o} \ {NULL}), Nodes \ {c})
      /\ p \in Nodes \ {c}
      /\ p \in Under(child, child[c][Other(s)])
      /\ \A a \in Nodes \ {c}, q \in Side :
           p \in Under(child, child[a][q]) => \A x \in Under(child, o) : Ordered(q, key[x], key[a])
      /\ \A x \in Under(child, o) : Ordered(s, key[x], key[p])
    BY <1>1, BottomHere
<1>3. n \in Under(child, child[c][Other(s)])
    BY <1>1, <1>2, UnderClosed DEF Closed
<1>4. ASSUME NEW a \in Nodes \ {c}, NEW q \in Side, n \in Under(child, child[a][q]),
             NEW x \in Under(child, o)
      PROVE  Ordered(q, key[x], key[a])
    <2>1. child[a][q] \in (Nodes \ {c}) \cup {NULL}
        BY <1>2 DEF Forest
    <2>2. n = child[a][q] \/ p \in Under(child, child[a][q])
        <3> HIDE DEF c, p, s, o
        <3> QED
            BY <1>1, <1>2, <1>4, <2>1, UnderOneParent
    <2>3. CASE n = child[a][q]
        <3>1. a = p /\ q = s
            BY <1>1, <1>2, <2>3 DEF Forest
        <3> QED
            BY <1>2, <3>1
    <2>4. CASE p \in Under(child, child[a][q])
        BY <1>2, <2>4
    <2> QED
        BY <2>2, <2>3, <2>4
<1>5. Nodes' = Nodes /\ KeysInv' /\ Sorted(Nodes)'
    BY <1>1, <1>2, KeysSame DEF Nodes, OrderInv, Sorted
<1>6. WayInv(t)'
    BY <1>1, <1>3, <1>4, <1>5 DEF WayInv, Orphan
<1> QED
    BY <1>1, <1>5, <1>6, OrderHolder DEF Inside

LEMMA DelGraftOrder ==
    ASSUME TypeInv, MutexInv, HeapInv, OrderInv, MutexInv', NEW t \in Threads, DelGraft(t)
    PROVE  OrderInv'
<1> DEFINE c == cur[t]
           s == par[t][2]
           p == tmp[t]
           o == child[c][s]
<1>1. /\ pc[t] = "bottom" /\ child[p][s] = NULL /\ child' = [child EXCEPT ![p][s] = o]
      /\ pc'[t] = "free" /\ UNCHANGED <<tree, block, key, call, cur, par>>
    BY DEF DelGraft, Goto, walkVars, treeVars, TypeInv, TypeOK
<1>2. /\ Sorted(Nodes) /\ child \in Fun /\ s \in Side
      /\ c \in Nodes /\ p \in Nodes \ {c}
      /\ \A a \in Nodes \ {c}, q \in Side :
           p \in Under(child, child[a][q]) => \A x \in Under(child, o) : Ordered(q, key[x], key[a])
      /\ \A x \in Under(child, o) : Ordered(s, key[x], key[p])
    BY <1>1, BottomHere
<1>3. p \in Addr /\ o \in Ptr
    BY <1>2 DEF Nodes, Fun
<1>4. child' \in Fun /\ Updated(child', child, p, s, o)
    <2> HIDE DEF c, p, s, o
    <2>1. child' \in Fun
        BY <1>1, <1>2, <1>3, UpdateType DEF Fun
    <2> QED
        BY <1>1, <1>2, <1>3, <2>1 DEF Updated, Fun
<1>5. Nodes' = Nodes /\ KeysInv'
    BY <1>1, KeysSame DEF Nodes, OrderInv
<1>6. ASSUME NEW a \in Nodes \ {c}, NEW q \in Side, NEW x \in Under(child', child'[a][q]), x \in Nodes
      PROVE  Ordered(q, key[x], key[a])
    <2>1. a \in Addr /\ child[a][q] \in Ptr
        BY <1>2 DEF Nodes, Fun
    <2>2. CASE a = p /\ q = s
        <3>1. child'[a][q] = o
            BY <1>4, <2>1, <2>2 DEF Updated
        <3>2. x \in Under(child, o)
            <4> HIDE DEF c, p, s, o
            <4> QED
                BY <1>2, <1>3, <1>4, <1>6, <3>1, UnderGraft
        <3> QED
            BY <1>2, <2>2, <3>2
    <2>3. CASE ~(a = p /\ q = s)
        <3>1. child'[a][q] = child[a][q]
            BY <1>4, <2>1, <2>3 DEF Updated
        <3>2. x \in Under(child, child[a][q]) \/ (p \in Under(child, child[a][q]) /\ x \in Under(child, o))
            <4> HIDE DEF c, p, s, o
            <4> QED
                BY <1>2, <1>3, <1>4, <1>6, <2>1, <3>1, UnderGraft
        <3> QED
            BY <1>2, <1>6, <3>2 DEF Sorted
    <2> QED
        BY <2>2, <2>3
<1>7. WayInv(t)'
    BY <1>1, <1>5, <1>6 DEF WayInv, Sorted
<1> QED
    BY <1>1, <1>5, <1>7, OrderHolder DEF Inside

LEMMA DelFreeOrder ==
    ASSUME TypeInv, MutexInv, HeapInv, OrderInv, MutexInv', NEW t \in Threads, DelFree(t)
    PROVE  OrderInv'
<1> DEFINE c == cur[t]
<1>1. /\ pc[t] = "free" /\ block' = [block EXCEPT ![c] = "free"] /\ child' = [child EXCEPT ![c] = NoChild]
      /\ key' = [key EXCEPT ![c] = NULL] /\ pc'[t] = "unlock" /\ call' = call
    BY DEF DelFree, Release, Goto, TypeInv, TypeOK
<1>2. c \in Nodes /\ c \in Addr /\ Sorted(Nodes \ {c}) /\ child \in Fun
    BY <1>1, ChildFun DEF HeapInv, HolderInv, OrderInv, WayInv, Nodes
<1>3. Nodes' = Nodes \ {c} /\ \A a \in Nodes' : key'[a] = key[a]
    BY <1>1, <1>2 DEF Nodes, TypeInv, TypeOK
<1>4. KeysInv'
    BY <1>1, <1>3 DEF OrderInv, KeysInv
<1>5. /\ child' \in Fun
      /\ \A b \in Addr, q \in Side : child'[b][q] = NULL \/ child'[b][q] \in Under(child, child[b][q])
    <2>1. NoChild \in [Side -> Ptr]
        BY DEF NoChild, Ptr
    <2>2. child' \in Fun /\ \A b \in Addr, q \in Side : child'[b][q] = NULL \/ child'[b][q] = child[b][q]
        BY <1>1, <1>2, <2>1 DEF Fun, NoChild
    <2> QED
        BY <1>2, <2>2, UnderSelf DEF Fun, Ptr
<1>6. \A b \in Addr, q \in Side : Under(child', child'[b][q]) \subseteq Under(child, child[b][q])
    BY <1>2, <1>5, UnderShorter
<1>7. Sorted(Nodes)'
    BY <1>2, <1>3, <1>6 DEF Sorted, Nodes
<1>8. WayInv(t)'
    BY <1>1 DEF WayInv
<1> QED
    BY <1>1, <1>4, <1>7, <1>8, OrderHolder DEF Inside

-----------------------------------------------------------------------------
(* The order, all steps together *)

LEMMA InvokeOrder ==
    ASSUME TypeInv, OrderInv, NEW t \in Threads, Invoke(t)
    PROVE  OrderInv'
<1>1. PICK c \in Calls(t) :
        /\ call' = [call EXCEPT ![t] = c]
        /\ pc' = [pc EXCEPT ![t] = CASE c.op \in {"add", "del"} -> "lock"
                                     [] c.op = "lookup"         -> "lookup"
                                     [] c.op = "print_info"     -> "traverse"]
        /\ cur' = [cur EXCEPT ![t] = IF c.op = "lookup" THEN root ELSE NULL]
    BY DEF Invoke, Goto
<1>2. c.op \in {"add", "del", "lookup", "print_info"}
    BY CallsType
<1>3. c.op = "add" => c.key \in Keys
    BY DEF Calls, Call, Args, NoCall
<1>4. pc[t] = "idle" /\ UNCHANGED <<tree, block, child, key, par, tmp>>
    BY DEF Invoke, treeVars, heapVars
<1>5. /\ pc'[t] \in {"lock", "lookup", "traverse"} /\ call'[t] = c
      /\ \A u \in Threads : u # t => pc'[u] = pc[u] /\ call'[u] = call[u] /\ cur'[u] = cur[u]
    BY <1>1, <1>2 DEF TypeInv, TypeOK
<1>6. KeysInv'
    BY <1>3, <1>4, <1>5 DEF OrderInv, KeysInv, Nodes
<1> QED
    BY <1>4, <1>5, <1>6, OrderSame

LEMMA OutsideOrder ==
    ASSUME TypeInv, OrderInv, NEW t \in Threads, Refuse(t) \/ Return(t) \/ Lookup(t) \/ PrintEnd(t)
    PROVE  OrderInv'
<1>1. /\ pc[t] \in {"idle", "return", "lookup", "copy", "traverse"}
      /\ UNCHANGED <<tree, block, child, key>>
    BY DEF Refuse, Return, Lookup, LookupMiss, LookupDescend, LookupHit, LookupCopy, LookupEnd,
           PrintEnd, treeVars, heapVars
<1>2. /\ pc'[t] \in {"idle", "return", "lookup", "copy"}
      /\ \A u \in Threads : u # t => /\ pc'[u] = pc[u] /\ cur'[u] = cur[u]
                                     /\ par'[u] = par[u] /\ tmp'[u] = tmp[u]
    BY DEF Refuse, Return, Lookup, LookupMiss, LookupDescend, LookupHit, LookupCopy, LookupEnd,
           PrintEnd, Goto, walkVars, TypeInv, TypeOK
<1>3. /\ call'[t] = call[t] \/ call'[t].op # "add"
      /\ \A u \in Threads : u # t => call'[u] = call[u]
    BY DEF Refuse, Return, Lookup, LookupMiss, LookupDescend, LookupHit, LookupCopy, LookupEnd,
           PrintEnd, NoCall, TypeInv, TypeOK
<1>4. KeysInv'
    BY <1>1, <1>3 DEF OrderInv, KeysInv, Nodes
<1> QED
    BY <1>1, <1>2, <1>3, <1>4, OrderSame

LEMMA UpDownOrder ==
    ASSUME TypeInv, MutexInv, HeapInv, OrderInv, MutexInv', NEW t \in Threads,
           Initialize(t) \/ Terminate(t) \/ TerminateEnd(t)
    PROVE  OrderInv'
<1>1. UNCHANGED <<block, child, key>>
    BY DEF Initialize, Terminate, TerminateEnd, heapVars
<1>2. \A u \in Threads : call'[u] = call[u] \/ call'[u].op # "add"
    BY DEF Initialize, Terminate, TerminateEnd, NoCall, TypeInv, TypeOK
<1>3. KeysInv'
    BY <1>1, <1>2 DEF OrderInv, KeysInv, Nodes
<1>4. CASE Initialize(t)
    <2>1. tree = "none" /\ pc' = pc
        BY <1>4 DEF Initialize
    <2>2. Nodes' = {} /\ \A u \in Threads : pc'[u] \notin Inside
        BY <1>1, <2>1 DEF MutexInv, HeapInv, EmptyInv, Nodes
    <2>3. SortedInv' /\ \A u \in Threads : WayInv(u)'
        BY <2>2 DEF SortedInv, Sorted, WayInv, Inside
    <2> QED
        BY <1>3, <2>3 DEF OrderInv
<1>5. CASE Terminate(t) \/ TerminateEnd(t)
    <2>1. tree' # "up"
        BY <1>5 DEF Terminate, TerminateEnd
    <2> QED
        BY <1>3, <2>1, OrderDown
<1> QED
    BY <1>4, <1>5

LEMMA VisitOrder ==
    ASSUME TypeInv, MutexInv, OrderInv, MutexInv', NEW t \in Threads, Visit(t)
    PROVE  OrderInv'
<1>1. pc[t] = "traverse" /\ UNCHANGED <<tree, pc, call, cur, par, tmp>>
    BY DEF Visit, treeVars, walkVars
<1>2. CASE call[t].op # "terminate"
    <2>1. UNCHANGED <<block, child, key>>
        BY <1>2 DEF Visit, heapVars
    <2>2. KeysInv'
        BY <1>1, <2>1, KeysSame DEF OrderInv
    <2> QED
        BY <1>1, <2>1, <2>2, OrderSame
<1>3. CASE call[t].op = "terminate"
    <2>1. tree' # "up"
        BY <1>1, <1>3 DEF MutexInv, Ending
    <2>2. UNCHANGED <<block, key>> \/ Release(Head(stack[t]).node)
        BY DEF Visit, heapVars
    <2>3. \A a \in Nodes' : a \in Nodes /\ key'[a] = key[a]
        BY <2>2 DEF Release, Nodes, TypeInv, TypeOK
    <2>4. KeysInv'
        BY <1>1, <2>3 DEF OrderInv, KeysInv
    <2> QED
        BY <2>1, <2>4, OrderDown
<1> QED
    BY <1>2, <1>3

LEMMA StutterOrder ==
    ASSUME OrderInv, UNCHANGED <<tree, block, child, key, pc, call, cur, par, tmp>>
    PROVE  OrderInv'
<1>1. Nodes' = Nodes /\ KeysInv'
    BY KeysSame DEF Nodes, OrderInv
<1>2. SortedInv' /\ \A u \in Threads : WayInv(u)'
    BY <1>1 DEF OrderInv, SortedInv, WayInv, Sorted, Orphan
<1> QED
    BY <1>1, <1>2 DEF OrderInv

LEMMA OrderInit == Init => OrderInv
<1> SUFFICES ASSUME Init PROVE OrderInv
    OBVIOUS
<1>1. Nodes = {} /\ \A t \in Threads : pc[t] = "idle" /\ call[t].op = "none"
    BY DEF Init, Nodes, NoCall
<1> QED
    BY <1>1 DEF OrderInv, KeysInv, SortedInv, Sorted, WayInv

LEMMA OrderNext == TypeInv /\ MutexInv /\ HeapInv /\ OrderInv /\ [Next]_vars => OrderInv'
<1> SUFFICES ASSUME TypeInv, MutexInv, HeapInv, OrderInv, [Next]_vars PROVE OrderInv'
    OBVIOUS
<1>1. MutexInv'
    BY MutexNext
<1>2. CASE UNCHANGED vars
    BY <1>2, StutterOrder DEF vars, treeVars, heapVars, walkVars
<1>3. ASSUME NEW t \in Threads, Start(t) PROVE OrderInv'
    BY <1>1, <1>3, InvokeOrder, OutsideOrder, UpDownOrder DEF Start
<1>4. ASSUME NEW t \in Threads, Run(t) PROVE OrderInv'
    <2>1. CASE Lock(t)
        BY <1>1, <2>1, LockOrder
    <2>2. CASE Unlock(t)
        BY <2>2, StillOrder DEF Unlock
    <2>3. CASE Add(t)
        <3>1. CASE AddNoMemory(t) \/ AddDuplicate(t)
            BY <3>1, StillOrder DEF AddNoMemory, AddDuplicate
        <3> QED
            BY <1>1, <2>3, <3>1, AddRootOrder, AddLeafOrder, AddInitOrder, AddDescendOrder DEF Add
    <2>4. CASE Del(t)
        <3>1. CASE DelMissing(t) \/ DelFound(t) \/ DelDescend(t)
            BY <3>1, StillOrder DEF DelMissing, DelFound, DelDescend
        <3> QED
            BY <1>1, <2>4, <3>1, DelUnlinkOrder, DelBottomOrder, DelGraftOrder, DelFreeOrder DEF Del
    <2>5. CASE Lookup(t) \/ Return(t)
        BY <2>5, OutsideOrder
    <2>6. CASE Traverse(t)
        BY <1>1, <2>6, VisitOrder, OutsideOrder, UpDownOrder DEF Traverse
    <2>7. CASE Fault(t)
        BY <2>7, StutterOrder DEF Fault, treeVars, heapVars, walkVars
    <2> QED
        BY <1>4, <2>1, <2>2, <2>3, <2>4, <2>5, <2>6, <2>7 DEF Run
<1> QED
    BY <1>2, <1>3, <1>4 DEF Next

\* A search is always led the right way, even in the middle of a del.
THEOREM SearchOrderCorrect == Spec => []SearchOrder
<1>1. Init => OrderInv
    BY OrderInit
<1>2. TypeInv /\ MutexInv /\ HeapInv /\ OrderInv /\ [Next]_vars => OrderInv'
    BY OrderNext
<1>3. TypeInv /\ MutexInv /\ HeapInv /\ OrderInv => SearchOrder
    <2> SUFFICES ASSUME TypeInv, MutexInv, HeapInv, OrderInv, tree = "up",
                        NEW a \in Below(root) \cap Nodes
                 PROVE  /\ \A x \in Below(child[a]["left"])  \cap Nodes : key[x] < key[a]
                        /\ \A x \in Below(child[a]["right"]) \cap Nodes : key[x] >= key[a]
        BY DEF SearchOrder
    <2>1. \A s \in Side : \A x \in Under(child, child[a][s]) \cap Nodes : Ordered(s, key[x], key[a])
        <3>1. CASE \A t \in Threads : pc[t] # "free"
            BY <3>1 DEF OrderInv, SortedInv, Sorted
        <3>2. CASE \E t \in Threads : pc[t] = "free"
            <4>1. PICK t \in Threads : pc[t] = "free"
                BY <3>2
            <4>2. Sorted(Nodes \ {cur[t]}) /\ Forest(child, Roots, Nodes \ {cur[t]}) /\ cur[t] \in Nodes
                BY <4>1 DEF OrderInv, WayInv, HeapInv, HolderInv
            <4>3. root # Wild
                BY <4>1, <4>2, PiecesHere
            <4>4. child \in Fun /\ root \in Ptr
                BY <4>3, ChildFun DEF TypeInv, TypeOK
            <4>5. Under(child, root) = Nodes \ {cur[t]}
                BY <4>2, <4>4, ForestBelow DEF Roots
            <4>6. a \in Nodes \ {cur[t]}
                BY <4>5, BelowIsUnder
            <4> QED
                BY <4>2, <4>6 DEF Sorted
        <3> QED
            BY <3>1, <3>2
    <2> QED
        BY <2>1, BelowIsUnder DEF Ordered, Side
<1> QED
    BY <1>1, <1>2, <1>3, HeapCorrect, PTL DEF Spec

-----------------------------------------------------------------------------
(* What grows and what does not, when pointers change *)

LEMMA CardMore ==
    ASSUME NEW A \in SUBSET Addr, NEW B \in SUBSET Addr
    PROVE  /\ Cardinality(A) \in Nat /\ Cardinality(B) \in Nat
           /\ A \subseteq B => Cardinality(A) <= Cardinality(B)
           /\ \A c : A \ {c} \subseteq B => Cardinality(A) - 1 <= Cardinality(B)
           /\ \A c \in B : A \subseteq B /\ c \notin A => Cardinality(A) + 1 <= Cardinality(B)
<1>1. IsFiniteSet(A) /\ IsFiniteSet(B)
    BY ConstantsAssumption, FS_Subset
<1>2. Cardinality(A) \in Nat /\ Cardinality(B) \in Nat
    BY <1>1, FS_CardinalityType
<1>3. A \subseteq B => Cardinality(A) <= Cardinality(B)
    BY <1>1, FS_Subset
<1>4. ASSUME NEW c, A \ {c} \subseteq B PROVE Cardinality(A) - 1 <= Cardinality(B)
    <2>1. Cardinality(A \ {c}) <= Cardinality(B) /\ IsFiniteSet(A \ {c})
        BY <1>1, <1>4, FS_Subset
    <2>2. CASE c \in A
        BY <1>1, <1>2, <2>1, <2>2, FS_RemoveElement
    <2>3. CASE c \notin A
        <3>1. A \ {c} = A
            BY <2>3
        <3> QED
            BY <1>2, <2>1, <3>1
    <2> QED
        BY <2>2, <2>3
<1>5. ASSUME NEW c \in B, A \subseteq B, c \notin A PROVE Cardinality(A) + 1 <= Cardinality(B)
    <2>1. Cardinality(A \cup {c}) = Cardinality(A) + 1
        BY <1>1, <1>5, FS_AddElement
    <2>2. A \cup {c} \subseteq B
        BY <1>5
    <2>3. Cardinality(A \cup {c}) <= Cardinality(B)
        BY <1>1, <2>2, FS_Subset
    <2> QED
        BY <2>1, <2>3
<1> QED
    BY <1>2, <1>3, <1>4, <1>5

\* A pointer where there was none takes nothing away.
LEMMA UnderGrows ==
    ASSUME NEW f \in Fun, NEW g \in Fun, NEW p \in Addr, NEW s \in Side, NEW o \in Ptr,
           f[p][s] = NULL, Updated(g, f, p, s, o), NEW v
    PROVE  /\ Under(f, v) \subseteq Under(g, v)
           /\ p \in Under(f, v) => Under(f, o) \subseteq Under(g, v)
<1>1. \A S \in SUBSET Addr : Closed(g, S) => Closed(f, S)
    BY DEF Closed, Updated
<1>2. \A w : Under(f, w) \subseteq Under(g, w)
    BY <1>1 DEF Under
<1>3. ASSUME p \in Under(f, v) PROVE Under(f, o) \subseteq Under(g, v)
    <2>1. CASE o = NULL
        BY <2>1, UnderNull
    <2>2. CASE o # NULL
        <3>1. g[p][s] = o /\ p \in Under(g, v)
            BY <1>2, <1>3 DEF Updated
        <3>2. o \in Under(g, v)
            BY <2>2, <3>1, UnderClosed DEF Closed
        <3>3. Under(g, o) \subseteq Under(g, v)
            BY <3>2, UnderDeeper
        <3> QED
            BY <1>2, <3>3
    <2> QED
        BY <2>1, <2>2
<1> QED
    BY <1>2, <1>3

\* The pointers of a block that is elsewhere do not matter.
LEMMA UnderElsewhere ==
    ASSUME NEW f \in Fun, NEW g \in Fun, NEW c, NEW v \in Ptr, c \notin Under(f, v),
           \A a \in Addr : a # c => g[a] = f[a]
    PROVE  Under(f, v) \subseteq Under(g, v)
<1> DEFINE S == Under(f, v) \cap Under(g, v)
<1>1. /\ Under(f, v) \in SUBSET Addr /\ Closed(f, Under(f, v))
      /\ Under(g, v) \in SUBSET Addr /\ Closed(g, Under(g, v))
    BY UnderClosed
<1>2. v # NULL => v \in S
    BY UnderSelf DEF Ptr
<1>3. S \in SUBSET Addr /\ Closed(f, S)
    BY <1>1 DEF Closed
<1>4. Under(f, v) \subseteq S
    <2> HIDE DEF S
    <2> QED
        BY <1>2, <1>3, UnderLeast
<1> QED
    BY <1>4

\* c is taken out of its place p, s, where k takes over; o is what it leaves.
LEMMA SpliceUnder ==
    ASSUME NEW f \in Fun, NEW g \in Fun, NEW p \in Addr, NEW s \in Side,
           NEW c \in Addr, c = f[p][s], c # p,
           NEW k \in Ptr, NEW o \in Ptr, Children(f, c, k, o), Updated(g, f, p, s, k),
           NEW a \in Addr, NEW q \in Side
    PROVE  /\ Under(f, f[a][q]) \ {c} \subseteq Under(g, g[a][q]) \cup Under(g, o)
           /\ c \notin Under(f, f[a][q]) => Under(f, f[a][q]) \subseteq Under(g, g[a][q])
           /\ c \in Under(f, f[a][q]) /\ k # NULL => k \in Under(g, g[a][q])
<1> DEFINE v == f[a][q]
           w == g[a][q]
<1>1. v \in Ptr /\ w \in Ptr
    BY DEF Fun
<1>2. /\ Under(f, v) \in SUBSET Addr /\ Closed(f, Under(f, v))
      /\ Under(g, w) \in SUBSET Addr /\ Closed(g, Under(g, w))
      /\ Under(g, o) \in SUBSET Addr /\ Closed(g, Under(g, o))
    BY UnderClosed
<1>3. /\ w # NULL => w \in Under(g, w)
      /\ v # NULL => v \in Under(f, v)
      /\ o # NULL => o \in Under(g, o)
    BY <1>1, UnderSelf DEF Ptr
<1>4. /\ \A b \in Addr, r \in Side : ~(b = p /\ r = s) => g[b][r] = f[b][r]
      /\ g[p][s] = k /\ \A r \in Side : f[c][r] \in {k, o} /\ g[c][r] = f[c][r]
      /\ \E r \in Side : f[c][r] = k
    <2>1. \A b \in Addr, r \in Side : g[b][r] = IF b = p /\ r = s THEN k ELSE f[b][r]
        BY DEF Updated
    <2>2. {f[c][r] : r \in Side} = {k, o}
        BY DEF Children
    <2>3. \A r \in Side : f[c][r] \in {k, o}
        BY <2>2
    <2>4. \E r \in Side : f[c][r] = k
        BY <2>2
    <2> QED
        BY <2>1, <2>3, <2>4
<1>5. c # NULL
    BY ConstantsAssumption
\* If the way to p is not there, the subtree is the same.
<1>6. ASSUME p \notin Under(g, w), ~(a = p /\ q = s) PROVE Under(f, v) \subseteq Under(g, w)
    <2>1. v = w
        BY <1>4, <1>6
    <2>2. Closed(f, Under(g, w))
        BY <1>2, <1>4, <1>6 DEF Closed
    <2> QED
        BY <1>2, <1>3, <2>1, <2>2, UnderLeast
<1>7. ASSUME p \in Under(g, w) \/ (a = p /\ q = s) PROVE k # NULL => k \in Under(g, w)
    BY <1>2, <1>3, <1>4, <1>7 DEF Closed
<1>8. Under(f, v) \ {c} \subseteq Under(g, w) \cup Under(g, o)
    <2>1. CASE p \notin Under(g, w) /\ ~(a = p /\ q = s)
        BY <1>6, <2>1
    <2>2. CASE p \in Under(g, w) \/ (a = p /\ q = s)
        <3> DEFINE S == Under(g, w) \cup Under(g, o) \cup {c}
        <3>1. k # NULL => k \in S
            BY <1>7, <2>2
        <3>2. ASSUME NEW b \in S, NEW r \in Side, f[b][r] # NULL PROVE f[b][r] \in S
            <4>1. CASE b = c
                BY <1>3, <1>4, <3>1, <3>2, <4>1
            <4>2. CASE b = p /\ r = s
                BY <4>2
            <4>3. CASE b # c /\ ~(b = p /\ r = s)
                BY <1>2, <1>4, <3>2, <4>3 DEF Closed
            <4> QED
                BY <4>1, <4>2, <4>3
        <3>3. S \in SUBSET Addr /\ Closed(f, S)
            BY <1>2, <3>2 DEF Closed
        <3>4. v # NULL => v \in S
            BY <1>3, <1>4
        <3>5. Under(f, v) \subseteq S
            <4> HIDE DEF S, v
            <4> QED
                BY <3>3, <3>4, UnderLeast
        <3> QED
            BY <3>5
    <2> QED
        BY <2>1, <2>2
\* The way to p leads on to c.
<1>9. Under(g, w) \subseteq Under(f, v)
    <2>1. ASSUME NEW b \in Addr, NEW r \in Side PROVE g[b][r] = NULL \/ g[b][r] \in Under(f, f[b][r])
        <3>1. CASE b = p /\ r = s
            <4>1. c \in Under(f, c)
                BY UnderSelf
            <4>2. \A u \in Side : f[c][u] # NULL => f[c][u] \in Under(f, c)
                BY <4>1, UnderClosed DEF Closed
            <4> QED
                BY <1>4, <3>1, <4>2
        <3>2. CASE ~(b = p /\ r = s)
            BY <1>4, <3>2, UnderSelf DEF Fun, Ptr
        <3> QED
            BY <3>1, <3>2
    <2> HIDE DEF w, v
    <2> QED
        BY <2>1, UnderShorter DEF w, v
<1>10. ASSUME c \notin Under(f, v) PROVE Under(f, v) \subseteq Under(g, w)
    <2>1. p \notin Under(f, v)
        BY <1>2, <1>5, <1>10 DEF Closed
    <2>2. ~(a = p /\ q = s)
        BY <1>3, <1>5, <1>10
    <2> QED
        BY <1>6, <1>9, <2>1, <2>2
<1>11. ASSUME c \in Under(f, v), k # NULL PROVE k \in Under(g, w)
    <2>1. CASE p \in Under(g, w) \/ (a = p /\ q = s)
        BY <1>7, <1>11, <2>1
    <2>2. CASE p \notin Under(g, w) /\ ~(a = p /\ q = s)
        <3>1. c \in Under(g, w)
            BY <1>6, <1>11, <2>2
        <3> QED
            BY <1>2, <1>4, <1>11, <3>1 DEF Closed
    <2> QED
        BY <2>1, <2>2
<1> QED
    BY <1>8, <1>10, <1>11

-----------------------------------------------------------------------------
(* The counters of the nodes *)

Population(a, s) == Cardinality(Under(child, child[a][s]))

Ancestors(p) == {slot \in Nodes \X Side : p \in Under(child, child[slot[1]][slot[2]])}

\* The path a call corrects is the way to the node it works on.
PathInv(t) ==
    /\ pc[t] \in {"idle", "lock"} => path[t] = {}
    /\ pc[t] \in {"add", "del", "unlink"} => path[t] = Ancestors(cur[t])
    /\ pc[t] = "init" => path[t] \subseteq Nodes \X Side
    /\ pc[t] = "bottom" =>
          \A a \in Nodes \ {cur[t]}, s \in Side :
              <<a, s>> \in path[t] => tmp[t] \in Under(child, child[a][s])

On(t, a, s) == IF <<a, s>> \in path[t] THEN 1 ELSE 0

\* What the counters are to be once the call has corrected them.
CounterInv(t) ==
    /\ pc[t] = "init" =>
          \A a \in Nodes, s \in Side : size[a][s] + On(t, a, s) <= Population(a, s)
    /\ pc[t] = "bottom" =>
          \A a \in Nodes \ {cur[t]}, s \in Side :
              IF <<a, s>> \in path[t]
              THEN size[a][s] - 1 <= Cardinality(Under(child, child[a][s]) \cup Under(child, Orphan(t)))
              ELSE size[a][s] <= Population(a, s)
    /\ pc[t] = "free" =>
          \A a \in Nodes \ {cur[t]}, s \in Side : size[a][s] - On(t, a, s) <= Population(a, s)
    /\ pc[t] = "unlock" =>
          \A a \in Nodes, s \in Side :
              size[a][s] + (IF ret[t] = 0 THEN On(t, a, s) * Delta(t) ELSE 0) <= Population(a, s)

Correcting == {"init", "bottom", "free", "unlock"}

Modest == \A a \in Nodes, s \in Side : size[a][s] <= Population(a, s)
ModestInv == tree = "up" /\ (\A t \in Threads : pc[t] \notin Correcting) => Modest

SizeInv == ModestInv /\ \A t \in Threads : PathInv(t) /\ CounterInv(t)

LEMMA SizeHere ==
    ASSUME MutexInv, SizeInv, NEW t \in Threads, pc[t] \in Inside \ Correcting
    PROVE  Modest
BY HolderAlone DEF SizeInv, ModestInv, Correcting, Inside

LEMMA PopulationType ==
    ASSUME TypeInv, NEW a \in Nodes, NEW s \in Side
    PROVE  Population(a, s) \in Nat /\ size[a][s] \in Int
<1>1. Under(child, child[a][s]) \in SUBSET Addr
    BY ChildFun, UnderClosed
<1>2. Population(a, s) \in Nat
    BY <1>1, CardMore DEF Population
<1> QED
    BY <1>2 DEF TypeInv, TypeOK, Nodes

\* A step of the thread that has the mutex, or gives it back.
LEMMA SizeHolder ==
    ASSUME SizeInv, MutexInv, NEW t \in Threads, pc[t] \in Inside \/ lock = NULL,
           pc'[t] \in Inside \cup {"return"},
           \A u \in Threads : u # t => pc'[u] = pc[u] /\ path'[u] = path[u],
           PathInv(t)', CounterInv(t)', pc'[t] \notin Correcting => Modest'
    PROVE  SizeInv'
<1>1. \A u \in Threads : u # t => pc'[u] \notin Inside
    BY HolderAlone, ConstantsAssumption DEF MutexInv, MutexHeldInside, Inside, Threads
<1>2. ASSUME NEW u \in Threads PROVE PathInv(u)' /\ CounterInv(u)'
    <2>1. CASE u # t
        <3>1. pc'[u] \notin Inside /\ pc'[u] = pc[u] /\ path'[u] = path[u]
            BY <1>1, <2>1
        <3> QED
            BY <3>1 DEF SizeInv, PathInv, CounterInv, Inside
    <2> QED
        BY <2>1
<1>3. ModestInv'
    BY DEF ModestInv
<1> QED
    BY <1>2, <1>3 DEF SizeInv

\* A step that leaves the nodes alone.
LEMMA SizeSame ==
    ASSUME SizeInv, NEW t \in Threads, UNCHANGED <<tree, block, child, size>>,
           pc[t] \notin Inside, pc'[t] \notin Inside,
           pc'[t] \in {"idle", "lock"} => path'[t] = {},
           \A u \in Threads : u # t => /\ pc'[u] = pc[u] /\ call'[u] = call[u] /\ cur'[u] = cur[u]
                                       /\ par'[u] = par[u] /\ tmp'[u] = tmp[u] /\ path'[u] = path[u]
                                       /\ ret'[u] = ret[u]
    PROVE  SizeInv'
<1>1. Nodes' = Nodes /\ \A a, s : Population(a, s)' = Population(a, s)
    BY DEF Nodes, Population
<1>2. ASSUME NEW u \in Threads PROVE PathInv(u)' /\ CounterInv(u)'
    <2>1. CASE u = t
        BY <2>1 DEF PathInv, CounterInv, Inside
    <2>2. CASE u # t
        <3>1. PathInv(u)'
            BY <1>1, <2>2 DEF SizeInv, PathInv, Ancestors
        <3>2. (\A a, s : On(u, a, s)' = On(u, a, s)) /\ Delta(u)' = Delta(u) /\ Orphan(u)' = Orphan(u)
            BY <2>2 DEF On, Delta, Orphan
        <3>3. CounterInv(u)'
            <4>1. /\ pc'[u] = pc[u] /\ cur'[u] = cur[u] /\ path'[u] = path[u] /\ ret'[u] = ret[u]
                  /\ size' = size /\ child' = child /\ CounterInv(u)
                BY <2>2 DEF SizeInv
            <4> QED
                BY <1>1, <3>2, <4>1 DEF CounterInv
        <3> QED
            BY <3>1, <3>3
    <2> QED
        BY <2>1, <2>2
<1>3. ModestInv'
    BY <1>1 DEF SizeInv, ModestInv, Modest, Correcting, Inside
<1> QED
    BY <1>2, <1>3 DEF SizeInv

LEMMA LockSize ==
    ASSUME TypeInv, MutexInv, HeapInv, SizeInv, NEW t \in Threads, Lock(t)
    PROVE  SizeInv'
<1>1. /\ pc[t] = "lock" /\ cur' = [cur EXCEPT ![t] = root] /\ pc' = [pc EXCEPT ![t] = call[t].op]
      /\ call[t].op \in {"add", "del"} /\ lock = NULL
      /\ UNCHANGED <<tree, root, block, child, size, path>>
    BY DEF Lock, Goto, MutexFree, TypeInv, CallInv, heapVars
<1>2. /\ pc'[t] \in {"add", "del"} /\ cur'[t] = root /\ path'[t] = {}
      /\ \A u \in Threads : u # t => pc'[u] = pc[u]
    BY <1>1 DEF TypeInv, TypeOK, SizeInv, PathInv
<1>3. tree = "up" /\ \A u \in Threads : pc[u] \notin Inside
    BY <1>1, ConstantsAssumption DEF MutexInv, MutexHeldInside, Inside, Threads
<1>4. /\ root # Wild => Forest(child, Roots, Nodes)
      /\ root = Wild => Nodes = {}
      /\ Modest
    BY <1>3 DEF HeapInv, WholeInv, EmptyInv, SizeInv, ModestInv, Correcting, Amid, Inside
<1>5. \A a \in Nodes, s \in Side : root \notin Under(child, child[a][s])
    BY <1>4, RootOnTop
<1>6. Nodes' = Nodes /\ Modest'
    BY <1>1, <1>4 DEF Nodes, Modest, Population
<1>7. Ancestors(root) = {}
    BY <1>5 DEF Ancestors
<1>8. Ancestors(cur[t])' = {}
    BY <1>1, <1>2, <1>6, <1>7 DEF Ancestors
<1>9. PathInv(t)' /\ CounterInv(t)'
    BY <1>2, <1>8 DEF PathInv, CounterInv
<1> QED
    BY <1>1, <1>2, <1>6, <1>9, SizeHolder DEF Inside

LEMMA DescendSize ==
    ASSUME TypeInv, MutexInv, HeapInv, SizeInv, NEW t \in Threads, pc[t] \in {"add", "del"},
           Valid(cur[t]), NEW s \in Side, Descend(t, s)
    PROVE  SizeInv'
<1> DEFINE c == cur[t]
           n == child[c][s]
<1>1. /\ c \in Nodes /\ n # NULL
      /\ cur' = [cur EXCEPT ![t] = n] /\ path' = [path EXCEPT ![t] = @ \cup {<<c, s>>}]
      /\ UNCHANGED <<tree, root, block, child, size, pc>>
    BY DEF Valid, Descend, treeVars, heapVars
<1>2. /\ cur'[t] = n /\ path'[t] = path[t] \cup {<<c, s>>}
      /\ \A u \in Threads : u # t => path'[u] = path[u]
    BY <1>1 DEF TypeInv, TypeOK
<1>3. Forest(child, Roots, Nodes) /\ Modest /\ child \in Fun /\ pc[t] \in Inside
    BY <1>1, WholeHere, SizeHere, ChildFun DEF Inside, Amid, Correcting
<1>4. path[t] = Ancestors(c)
    BY DEF SizeInv, PathInv
<1>5. ASSUME NEW a \in Nodes, NEW q \in Side
      PROVE  n \in Under(child, child[a][q]) <=> c \in Under(child, child[a][q]) \/ (a = c /\ q = s)
    <2>1. child[a][q] \in Nodes \cup {NULL}
        BY <1>3 DEF Forest
    <2>2. ASSUME n \in Under(child, child[a][q])
          PROVE  c \in Under(child, child[a][q]) \/ (a = c /\ q = s)
        <3>1. n = child[a][q] \/ c \in Under(child, child[a][q])
            BY <1>1, <1>3, <2>1, <2>2, UnderOneParent
        <3> QED
            BY <1>1, <1>3, <3>1 DEF Forest
    <2>3. ASSUME c \in Under(child, child[a][q]) PROVE n \in Under(child, child[a][q])
        BY <1>1, <1>3, <2>3, UnderClosed DEF Closed
    <2>4. ASSUME a = c, q = s PROVE n \in Under(child, child[a][q])
        <3>1. n \in Addr
            BY <1>1, <1>3 DEF Forest
        <3> QED
            BY <2>4, <3>1, UnderSelf
    <2> QED
        BY <2>2, <2>3, <2>4
<1>6. Ancestors(n) = Ancestors(c) \cup {<<c, s>>}
    <2> HIDE DEF c, n
    <2> QED
        BY <1>1, <1>5 DEF Ancestors
<1>7. Ancestors(cur[t])' = Ancestors(n) /\ Modest'
    BY <1>1, <1>2, <1>3 DEF Ancestors, Nodes, Modest, Population
<1>8. PathInv(t)' /\ CounterInv(t)'
    BY <1>1, <1>2, <1>4, <1>6, <1>7 DEF PathInv, CounterInv
<1> QED
    BY <1>1, <1>2, <1>3, <1>7, <1>8, SizeHolder

LEMMA FailSize ==
    ASSUME TypeInv, MutexInv, HeapInv, SizeInv, NEW t \in Threads, pc[t] \in {"add", "del"}, Fail(t)
    PROVE  SizeInv'
<1>1. /\ pc' = [pc EXCEPT ![t] = "unlock"] /\ ret' = [ret EXCEPT ![t] = -1]
      /\ UNCHANGED <<tree, block, child, size, path>>
    BY DEF Fail, Goto, Answer, treeVars, heapVars, walkVars
<1>2. pc'[t] = "unlock" /\ ret'[t] = -1 /\ \A u \in Threads : u # t => pc'[u] = pc[u]
    BY <1>1 DEF TypeInv, TypeOK
<1>3. Modest /\ pc[t] \in Inside
    BY SizeHere DEF Inside, Correcting
<1>4. Nodes' = Nodes /\ \A a \in Nodes, s \in Side : Population(a, s)' = Population(a, s)
    BY <1>1 DEF Nodes, Population
<1>5. ASSUME NEW a \in Nodes, NEW s \in Side
      PROVE  size'[a][s] + (IF ret'[t] = 0 THEN On(t, a, s)' * Delta(t)' ELSE 0) <= Population(a, s)'
    BY <1>1, <1>2, <1>3, <1>4, PopulationType DEF Modest
<1>6. PathInv(t)' /\ CounterInv(t)'
    BY <1>2, <1>4, <1>5 DEF PathInv, CounterInv
<1> QED
    BY <1>1, <1>2, <1>3, <1>6, SizeHolder DEF Inside, Correcting

LEMMA DelFoundSize ==
    ASSUME TypeInv, MutexInv, HeapInv, SizeInv, NEW t \in Threads, DelFound(t)
    PROVE  SizeInv'
<1>1. /\ pc[t] = "del" /\ pc' = [pc EXCEPT ![t] = "unlink"]
      /\ UNCHANGED <<tree, block, child, size, cur, path>>
    BY DEF DelFound, Goto, treeVars, heapVars, walkVars
<1>2. pc'[t] = "unlink" /\ \A u \in Threads : u # t => pc'[u] = pc[u]
    BY <1>1 DEF TypeInv, TypeOK
<1>3. Modest /\ pc[t] \in Inside /\ path[t] = Ancestors(cur[t])
    BY <1>1, SizeHere DEF Inside, Correcting, SizeInv, PathInv
<1>4. Ancestors(cur[t])' = Ancestors(cur[t]) /\ Modest'
    BY <1>1, <1>3 DEF Ancestors, Nodes, Modest, Population
<1>5. PathInv(t)' /\ CounterInv(t)'
    BY <1>1, <1>2, <1>3, <1>4 DEF PathInv, CounterInv
<1> QED
    BY <1>1, <1>2, <1>3, <1>4, <1>5, SizeHolder DEF Inside

LEMMA UnlockSize ==
    ASSUME TypeInv, MutexInv, HeapInv, SizeInv, NEW t \in Threads, Unlock(t)
    PROVE  SizeInv'
<1>1. /\ pc[t] = "unlock" /\ pc' = [pc EXCEPT ![t] = "return"]
      /\ UNCHANGED <<tree, block, child, path>>
      /\ IF ret[t] = 0
         THEN size' = [a \in Addr |-> [s \in Side |->
                         IF <<a, s>> \in path[t] THEN size[a][s] + Delta(t) ELSE size[a][s]]]
         ELSE UNCHANGED size
    BY DEF Unlock, Succeeded, Goto, walkVars
<1>2. pc'[t] = "return" /\ \A u \in Threads : u # t => pc'[u] = pc[u]
    BY <1>1 DEF TypeInv, TypeOK
<1>3. Nodes' = Nodes /\ \A a \in Nodes, s \in Side : Population(a, s)' = Population(a, s)
    BY <1>1 DEF Nodes, Population
<1>4. ASSUME NEW a \in Nodes, NEW s \in Side PROVE size'[a][s] <= Population(a, s)
    <2>1. size[a][s] + (IF ret[t] = 0 THEN On(t, a, s) * Delta(t) ELSE 0) <= Population(a, s)
        BY <1>1 DEF SizeInv, CounterInv
    <2>2. size[a][s] \in Int /\ Delta(t) \in Int /\ a \in Addr
        BY PopulationType DEF Delta, Nodes
    <2>3. CASE ret[t] = 0
        <3>1. size'[a][s] = IF <<a, s>> \in path[t] THEN size[a][s] + Delta(t) ELSE size[a][s]
            BY <1>1, <2>2, <2>3
        <3>2. On(t, a, s) * Delta(t) = IF <<a, s>> \in path[t] THEN Delta(t) ELSE 0
            BY <2>2 DEF On
        <3> QED
            BY <2>1, <2>2, <2>3, <3>1, <3>2
    <2>4. CASE ret[t] # 0
        BY <1>1, <2>1, <2>2, <2>4
    <2> QED
        BY <2>3, <2>4
<1>5. Modest'
    BY <1>3, <1>4 DEF Modest
<1>6. PathInv(t)' /\ CounterInv(t)'
    BY <1>2 DEF PathInv, CounterInv
<1> QED
    BY <1>1, <1>2, <1>5, <1>6, SizeHolder DEF Inside

LEMMA AddRootSize ==
    ASSUME TypeInv, MutexInv, HeapInv, SizeInv, NEW t \in Threads, AddRoot(t)
    PROVE  SizeInv'
<1>1. PICK a \in Free : InitNode(t, a)
    BY DEF AddRoot
<1>2. /\ pc[t] = "add" /\ cur[t] = NULL /\ path' = path
      /\ pc' = [pc EXCEPT ![t] = "unlock"] /\ ret' = [ret EXCEPT ![t] = 0]
    BY DEF AddRoot, Goto, Answer, walkVars
<1>3. pc'[t] = "unlock" /\ \A u \in Threads : u # t => pc'[u] = pc[u]
    BY <1>2 DEF TypeInv, TypeOK
<1>4. Nodes = {} /\ path[t] = {}
    <2>1. root = NULL
        BY <1>2 DEF HeapInv, HolderInv, Hangs
    <2>2. Forest(child, Roots, Nodes)
        BY <1>2, <2>1, ConstantsAssumption, WholeHere DEF Inside, Amid
    <2>3. Nodes = {}
        BY <2>1, <2>2, ForestNone DEF Roots
    <2> QED
        BY <1>2, <2>3 DEF SizeInv, PathInv, Ancestors
<1>5. /\ a \in Addr /\ block' = [block EXCEPT ![a] = "node"] /\ child' = [child EXCEPT ![a] = NoChild]
      /\ size' = [size EXCEPT ![a] = Zero]
    BY <1>1 DEF InitNode, Free
<1>6. Nodes' = {a} /\ \A s \in Side : child'[a][s] = NULL /\ size'[a][s] = 0
    BY <1>4, <1>5 DEF Nodes, TypeInv, TypeOK, NoChild, Zero
<1>7. \A s \in Side : Population(a, s)' = 0
    BY <1>6, UnderNull, FS_EmptySet DEF Population
<1>8. \A s \in Side : On(t, a, s)' * Delta(t)' = 0
    BY <1>2, <1>4 DEF On, Delta
<1>9. PathInv(t)' /\ CounterInv(t)'
    BY <1>3, <1>6, <1>7, <1>8 DEF PathInv, CounterInv
<1> QED
    BY <1>2, <1>3, <1>9, SizeHolder DEF Inside, Correcting

LEMMA AddLeafSize ==
    ASSUME TypeInv, MutexInv, HeapInv, SizeInv, NEW t \in Threads, AddLeaf(t)
    PROVE  SizeInv'
<1> DEFINE c == cur[t]
<1>1. PICK s \in Side, a \in Free :
        /\ child[c][s] = NULL
        /\ block' = [block EXCEPT ![a] = "raw"]
        /\ child' = [child EXCEPT ![c][s] = a]
        /\ path' = [path EXCEPT ![t] = @ \cup {<<c, s>>}]
    BY DEF AddLeaf
<1>2. /\ pc[t] = "add" /\ c \in Nodes /\ c \in Addr /\ pc' = [pc EXCEPT ![t] = "init"]
      /\ pc'[t] = "init" /\ path'[t] = path[t] \cup {<<c, s>>}
      /\ \A u \in Threads : u # t => pc'[u] = pc[u] /\ path'[u] = path[u]
      /\ UNCHANGED <<tree, size>>
    BY <1>1 DEF AddLeaf, Valid, Goto, treeVars, TypeInv, TypeOK, Nodes
<1>3. Forest(child, Roots, Nodes) /\ Modest /\ child \in Fun /\ path[t] = Ancestors(c)
    BY <1>2, WholeHere, SizeHere, ChildFun DEF Inside, Amid, Correcting, SizeInv, PathInv
<1>4. a \in Addr /\ a \notin Nodes
    BY DEF Free, Nodes
<1>5. Nodes' = Nodes
    BY <1>1, <1>4 DEF Nodes, TypeInv, TypeOK, Free
<1>6. Updated(child', child, c, s, a) /\ child' \in Fun /\ a \in Ptr
    <2>1. child' \in Fun
        BY <1>1, <1>3, <1>4, UpdateType DEF Fun, Ptr
    <2> QED
        BY <1>1, <1>2, <1>3, <1>4, <2>1 DEF Updated, Fun, Ptr
<1>7. ASSUME NEW b \in Nodes, NEW q \in Side
      PROVE  size'[b][q] + On(t, b, q)' <= Population(b, q)'
    <2> DEFINE U == Under(child, child[b][q])
               V == Under(child', child'[b][q])
    <2>1. b \in Addr /\ child[b][q] \in Nodes \cup {NULL}
        BY <1>3 DEF Forest, Nodes
    <2>2. U \in SUBSET Addr /\ V \in SUBSET Addr /\ a \notin U
        BY <1>3, <1>4, <1>6, <2>1, UnderClosed, UnderForest
    <2>3. size[b][q] <= Cardinality(U) /\ size[b][q] \in Int /\ size'[b][q] = size[b][q]
        BY <1>2, <1>3, PopulationType DEF Modest, Population
    <2>4. Population(b, q)' = Cardinality(V)
        BY DEF Population
    <2>5. U \subseteq V /\ (<<b, q>> \in path'[t] => a \in V)
        <3>1. CASE b = c /\ q = s
            <4>1. child'[b][q] = a
                BY <1>6, <2>1, <3>1 DEF Updated
            <4>2. U = {}
                BY <1>1, <3>1, UnderNull
            <4> QED
                BY <1>4, <4>1, <4>2, UnderSelf
        <3>2. CASE ~(b = c /\ q = s)
            <4>1. child'[b][q] = child[b][q]
                BY <1>6, <2>1, <3>2 DEF Updated
            <4>2. child[c][s] = NULL /\ c \in Addr
                BY <1>1, <1>2
            <4>3. /\ Under(child, child[b][q]) \subseteq Under(child', child[b][q])
                  /\ c \in Under(child, child[b][q]) => Under(child, a) \subseteq Under(child', child[b][q])
                <5> HIDE DEF c, U, V
                <5>1. child \in Fun /\ child' \in Fun
                    BY <1>3, <1>6
                <5> QED
                    BY <1>6, <4>2, <5>1, UnderGrows
            <4>4. U \subseteq V /\ (c \in U => Under(child, a) \subseteq V)
                BY <4>1, <4>3
            <4>5. <<b, q>> \in path'[t] => c \in U
                BY <1>2, <1>3, <3>2 DEF Ancestors
            <4> QED
                BY <1>4, <4>4, <4>5, UnderSelf
        <3> QED
            BY <3>1, <3>2
    <2> HIDE DEF U, V
    <2>6. On(t, b, q)' = IF <<b, q>> \in path'[t] THEN 1 ELSE 0
        BY DEF On
    <2>7. /\ Cardinality(U) \in Nat /\ Cardinality(V) \in Nat
          /\ Cardinality(U) <= Cardinality(V)
          /\ a \in V => Cardinality(U) + 1 <= Cardinality(V)
        BY <2>2, <2>5, CardMore
    <2> QED
        BY <2>3, <2>4, <2>5, <2>6, <2>7
<1>8. PathInv(t)'
    <2>1. path'[t] \subseteq Nodes \X Side
        BY <1>2, <1>3 DEF Ancestors
    <2> QED
        BY <1>2, <1>5, <2>1 DEF PathInv
<1>9. CounterInv(t)'
    BY <1>2, <1>5, <1>7 DEF CounterInv
<1> QED
    BY <1>2, <1>8, <1>9, SizeHolder DEF Inside, Correcting

LEMMA AddInitSize ==
    ASSUME TypeInv, MutexInv, HeapInv, SizeInv, NEW t \in Threads, AddInit(t)
    PROVE  SizeInv'
<1> DEFINE a == tmp[t]
<1>1. /\ pc[t] = "init" /\ a \in Addr
      /\ block' = [block EXCEPT ![a] = "node"] /\ child' = [child EXCEPT ![a] = NoChild]
      /\ size' = [size EXCEPT ![a] = Zero] /\ call' = call /\ path' = path
      /\ pc' = [pc EXCEPT ![t] = "unlock"] /\ ret' = [ret EXCEPT ![t] = 0]
    BY DEF AddInit, InitNode, Goto, Answer, walkVars, TypeInv, TypeOK, CallInv
<1>2. pc'[t] = "unlock" /\ ret'[t] = 0 /\ \A u \in Threads : u # t => pc'[u] = pc[u]
    BY <1>1 DEF TypeInv, TypeOK
<1>3. block[a] = "raw" /\ call[t].op = "add" /\ path[t] \subseteq Nodes \X Side
    BY <1>1 DEF HeapInv, HolderInv, SizeInv, PathInv
<1>4. child[a] = NoChild /\ child' = child
    BY <1>1, <1>3 DEF HeapInv, FreeInv, TypeInv, TypeOK
<1>5. /\ Nodes' = Nodes \cup {a} /\ a \notin Nodes
      /\ \A s \in Side : size'[a][s] = 0 /\ \A b \in Nodes : size'[b][s] = size[b][s]
    BY <1>1, <1>3 DEF Nodes, Zero, TypeInv, TypeOK
<1>6. \A b \in Nodes', s \in Side : On(t, b, s)' * Delta(t)' = On(t, b, s)
    BY <1>1, <1>3 DEF On, Delta
<1>7. \A b, s : Population(b, s)' = Population(b, s)
    BY <1>4 DEF Population
<1>8. ASSUME NEW b \in Nodes', NEW s \in Side
      PROVE  size'[b][s] + On(t, b, s) <= Population(b, s)
    <2>1. CASE b = a
        <3>1. On(t, b, s) = 0
            BY <1>3, <1>5, <2>1 DEF On
        <3>2. Population(b, s) = 0
            BY <1>4, <2>1, UnderNull, FS_EmptySet DEF Population, NoChild
        <3> QED
            BY <1>5, <2>1, <3>1, <3>2
    <2>2. CASE b \in Nodes
        BY <1>1, <1>5, <2>2 DEF SizeInv, CounterInv
    <2> QED
        BY <1>5, <2>1, <2>2
<1>9. PathInv(t)' /\ CounterInv(t)'
    BY <1>2, <1>6, <1>7, <1>8 DEF PathInv, CounterInv
<1> QED
    BY <1>1, <1>2, <1>9, SizeHolder DEF Inside, Correcting

\* The victim is out: a subtree it was in has lost it, and what is to be
\* grafted elsewhere.
LEMMA UnlinkSize ==
    ASSUME TypeInv, NEW t \in Threads, Hangs(t), cur[t] \in Nodes,
           Forest(child, Roots, Nodes),
           NEW k \in Ptr, NEW o \in Ptr, Children(child, cur[t], k, o), SetSlot(par[t], k),
           child' \in Fun, NEW a \in Nodes \ {cur[t]}, NEW q \in Side
    PROVE  LET U == Under(child, child[a][q])
               V == Under(child', child'[a][q])
           IN  /\ U \ {cur[t]} \subseteq V \cup Under(child', o)
               /\ cur[t] \notin U => U \subseteq V
               /\ cur[t] \in U /\ k # NULL => k \in V
<1> DEFINE c == cur[t]
           U == Under(child, child[a][q])
           V == Under(child', child'[a][q])
<1>1. child \in Fun /\ c \in Addr /\ a \in Addr
    BY ChildFun DEF Nodes
<1>2. CASE par[t] = RootSlot
    <2>1. child' = child /\ c \in Roots
        BY <1>1, <1>2, ConstantsAssumption DEF Hangs, SetSlot, Roots
    <2>2. c \notin U
        <3> HIDE DEF c
        <3> QED
            BY <1>1, <2>1, UnderNoRoot
    <2> QED
        BY <2>1, <2>2
<1>3. CASE par[t] # RootSlot
    <2> DEFINE p == par[t][1]
               s == par[t][2]
    <2>1. p \in Nodes /\ p \in Addr /\ s \in Side /\ child[p][s] = c /\ child' = [child EXCEPT ![p][s] = k]
        BY <1>3, SlotType DEF Hangs, SetSlot, Nodes
    <2>2. Updated(child', child, p, s, k)
        <3> HIDE DEF p, s
        <3> QED
            BY <1>1, <2>1 DEF Updated, Fun
    <2>3. c # p
        <3> HIDE DEF p, s
        <3> QED
            BY <2>1, ChildElsewhere
    <2>4. Children(child, c, k, o)
        OBVIOUS
    <2>5. /\ child \in Fun /\ child' \in Fun /\ p \in Addr /\ s \in Side /\ c \in Addr
          /\ c = child[p][s] /\ k \in Ptr /\ o \in Ptr /\ a \in Addr /\ q \in Side
        BY <1>1, <2>1
    <2> HIDE DEF p, s, c, U, V
    <2>6. U \ {c} \subseteq V \cup Under(child', o)
        <3>1. Under(child, child[a][q]) \ {c} \subseteq Under(child', child'[a][q]) \cup Under(child', o)
            BY <2>2, <2>3, <2>4, <2>5, SpliceUnder
        <3> QED
            BY <3>1 DEF U, V
    <2>7. c \notin U => U \subseteq V
        <3>1. c \notin Under(child, child[a][q])
              => Under(child, child[a][q]) \subseteq Under(child', child'[a][q])
            BY <2>2, <2>3, <2>4, <2>5, SpliceUnder
        <3> QED
            BY <3>1 DEF U, V
    <2>8. c \in U /\ k # NULL => k \in V
        <3>1. c \in Under(child, child[a][q]) /\ k # NULL => k \in Under(child', child'[a][q])
            BY <2>2, <2>3, <2>4, <2>5, SpliceUnder
        <3> QED
            BY <3>1 DEF U, V
    <2> QED
        BY <2>6, <2>7, <2>8 DEF c, U, V
<1> QED
    BY <1>2, <1>3

LEMMA DelUnlinkSize ==
    ASSUME TypeInv, MutexInv, HeapInv, SizeInv, NEW t \in Threads, DelUnlink(t)
    PROVE  SizeInv'
<1> DEFINE c == cur[t]
           s == par[t][2]
           kid == child[c][Other(s)]
           o == child[c][s]
           U(a, q) == Under(child, child[a][q])
           V(a, q) == Under(child', child'[a][q])
<1>1. /\ pc[t] = "unlink" /\ UNCHANGED <<tree, block, size, call, cur, par, path>>
      /\ IF kid = NULL
         THEN SetSlot(par[t], o) /\ Goto(t, "free")
         ELSE SetSlot(par[t], kid) /\ Goto(t, "bottom") /\ tmp' = [tmp EXCEPT ![t] = kid]
    BY DEF DelUnlink
<1>2. /\ pc'[t] = (IF kid = NULL THEN "free" ELSE "bottom")
      /\ \A u \in Threads : u # t => pc'[u] = pc[u]
    BY <1>1 DEF Goto, TypeInv, TypeOK
<1>3. c \in Nodes /\ c \in Addr /\ Hangs(t)
    BY <1>1 DEF HeapInv, HolderInv, Nodes
<1>4. Forest(child, Roots, Nodes) /\ Modest /\ child \in Fun /\ path[t] = Ancestors(c)
    BY <1>1, <1>3, WholeHere, SizeHere, ChildFun DEF Inside, Amid, Correcting, SizeInv, PathInv
<1>5. s \in Side /\ Other(s) \in Side /\ Other(s) # s
    BY SlotType
<1>6. kid \in Ptr /\ o \in Ptr /\ Children(child, c, kid, o) /\ Children(child, c, o, kid)
    BY <1>3, <1>4, <1>5 DEF Fun, Children, Side
<1>7. child' \in Fun
    <2>1. CASE kid = NULL
        BY <1>1, <1>3, <1>5, <2>1, UnlinkShort
    <2>2. CASE kid # NULL
        BY <1>1, <1>3, <1>5, <2>2, UnlinkShort
    <2> QED
        BY <2>1, <2>2
<1>8. Nodes' = Nodes
    BY <1>1 DEF Nodes
<1>9. ASSUME NEW a \in Nodes \ {c}, NEW q \in Side
      PROVE  /\ U(a, q) \in SUBSET Addr /\ V(a, q) \in SUBSET Addr /\ Under(child', o) \in SUBSET Addr
             /\ Population(a, q) = Cardinality(U(a, q)) /\ Population(a, q)' = Cardinality(V(a, q))
             /\ size'[a][q] = size[a][q] /\ size[a][q] \in Int /\ size[a][q] <= Cardinality(U(a, q))
             /\ <<a, q>> \in path[t] <=> c \in U(a, q)
             /\ path' = path
    <2>1. <<a, q>> \in path[t] <=> c \in U(a, q)
        BY <1>4 DEF Ancestors
    <2> QED
        BY <1>1, <1>4, <1>6, <1>7, <2>1, UnderClosed, PopulationType DEF Modest, Population
<1>10. CASE kid = NULL
    <2>0. SetSlot(par[t], o) /\ kid = NULL
        BY <1>1, <1>10
    <2>1. ASSUME NEW a \in Nodes \ {c}, NEW q \in Side
          PROVE  size'[a][q] - On(t, a, q)' <= Population(a, q)'
        <3>1. U(a, q) \ {c} \subseteq V(a, q) \cup Under(child', NULL)
            BY <1>3, <1>4, <1>6, <1>7, <2>0, <2>1, UnlinkSize
        <3>2. c \notin U(a, q) => U(a, q) \subseteq V(a, q)
            BY <1>3, <1>4, <1>6, <1>7, <2>0, <2>1, UnlinkSize
        <3> HIDE DEF U, V
        <3>3. U(a, q) \ {c} \subseteq V(a, q)
            BY <3>1, UnderNull
        <3>4. /\ Cardinality(U(a, q)) \in Nat /\ Cardinality(V(a, q)) \in Nat
              /\ Cardinality(U(a, q)) - 1 <= Cardinality(V(a, q))
              /\ c \notin U(a, q) => Cardinality(U(a, q)) <= Cardinality(V(a, q))
            BY <1>9, <3>2, <3>3, CardMore
        <3>5. On(t, a, q)' = IF c \in U(a, q) THEN 1 ELSE 0
            BY <1>9 DEF On
        <3>6. /\ size'[a][q] = size[a][q] /\ size[a][q] \in Int /\ size[a][q] <= Cardinality(U(a, q))
              /\ Population(a, q)' = Cardinality(V(a, q))
            BY <1>9
        <3> QED
            BY <3>4, <3>5, <3>6
    <2>2. PathInv(t)' /\ CounterInv(t)'
        BY <1>1, <1>2, <1>8, <1>10, <2>1 DEF PathInv, CounterInv
    <2> QED
        BY <1>1, <1>2, <1>10, <2>2, SizeHolder DEF Inside, Correcting
<1>11. CASE kid # NULL
    <2>1. tmp'[t] = kid /\ pc'[t] = "bottom" /\ SetSlot(par[t], kid)
        BY <1>1, <1>2, <1>11 DEF TypeInv, TypeOK
    <2>2. child'[c] = child[c]
        BY <1>1, <1>3, <1>11, SlotType, ChildElsewhere, <1>4 DEF SetSlot, Hangs, Fun
    <2>3. Orphan(t)' = o
        BY <1>1, <2>2 DEF Orphan
    <2>4. ASSUME NEW a \in Nodes \ {c}, NEW q \in Side
          PROVE  /\ <<a, q>> \in path[t] => kid \in V(a, q)
                 /\ IF <<a, q>> \in path[t]
                    THEN size[a][q] - 1 <= Cardinality(V(a, q) \cup Under(child', o))
                    ELSE size[a][q] <= Cardinality(V(a, q))
        <3>1. U(a, q) \ {c} \subseteq V(a, q) \cup Under(child', o)
            BY <1>3, <1>4, <1>6, <1>7, <2>1, <2>4, UnlinkSize
        <3>2. c \notin U(a, q) => U(a, q) \subseteq V(a, q)
            BY <1>3, <1>4, <1>6, <1>7, <2>1, <2>4, UnlinkSize
        <3>3. c \in U(a, q) => kid \in V(a, q)
            BY <1>3, <1>4, <1>6, <1>7, <1>11, <2>1, <2>4, UnlinkSize
        <3> HIDE DEF U, V, c, kid, o
        <3>4. /\ Cardinality(U(a, q)) \in Nat /\ Cardinality(V(a, q)) \in Nat
              /\ c \notin U(a, q) => Cardinality(U(a, q)) <= Cardinality(V(a, q))
            BY <1>9, <3>2, CardMore
        <3>5. /\ Cardinality(V(a, q) \cup Under(child', o)) \in Nat
              /\ Cardinality(U(a, q)) - 1 <= Cardinality(V(a, q) \cup Under(child', o))
            <4>1. V(a, q) \cup Under(child', o) \in SUBSET Addr
                BY <1>9
            <4> QED
                BY <1>9, <3>1, <4>1, CardMore
        <3> QED
            BY <1>9, <3>3, <3>4, <3>5
    <2>5. PathInv(t)'
        <3> HIDE DEF c, kid, o
        <3>1. \A a \in Nodes' \ {cur'[t]}, q \in Side : <<a, q>> \in path'[t] => tmp'[t] \in Under(child', child'[a][q])
            BY <1>1, <1>8, <2>1, <2>4 DEF c
        <3> QED
            BY <2>1, <3>1 DEF PathInv
    <2>6. CounterInv(t)'
        <3>1. \A a \in Nodes' \ {cur'[t]}, q \in Side :
                 IF <<a, q>> \in path'[t]
                 THEN size'[a][q] - 1 <= Cardinality(Under(child', child'[a][q]) \cup Under(child', Orphan(t)'))
                 ELSE size'[a][q] <= Population(a, q)'
            <4> SUFFICES ASSUME NEW a \in Nodes \ {c}, NEW q \in Side
                         PROVE  IF <<a, q>> \in path'[t]
                                THEN size'[a][q] - 1 <= Cardinality(Under(child', child'[a][q]) \cup Under(child', Orphan(t)'))
                                ELSE size'[a][q] <= Population(a, q)'
                BY <1>1, <1>8
            <4>1. size'[a][q] = size[a][q] /\ Population(a, q)' = Cardinality(V(a, q)) /\ path' = path
                BY <1>9
            <4>2. IF <<a, q>> \in path[t]
                  THEN size[a][q] - 1 <= Cardinality(V(a, q) \cup Under(child', o))
                  ELSE size[a][q] <= Cardinality(V(a, q))
                BY <2>4
            <4> QED
                BY <2>3, <4>1, <4>2
        <3> QED
            BY <2>1, <3>1 DEF CounterInv
    <2> QED
        BY <1>1, <1>2, <2>1, <2>5, <2>6, SizeHolder DEF Inside, Correcting
<1> QED
    BY <1>10, <1>11

LEMMA DelBottomSize ==
    ASSUME TypeInv, MutexInv, HeapInv, SizeInv, NEW t \in Threads, DelBottom(t)
    PROVE  SizeInv'
<1> DEFINE c == cur[t]
           p == tmp[t]
           n == child[p][par[t][2]]
<1>1. /\ pc[t] = "bottom" /\ n # NULL /\ tmp' = [tmp EXCEPT ![t] = n] /\ tmp'[t] = n
      /\ UNCHANGED <<tree, block, child, size, pc, cur, par, path>>
    BY DEF DelBottom, treeVars, heapVars, TypeInv, TypeOK
<1>2. child \in Fun /\ par[t][2] \in Side
    BY ChildFun, SlotType
<1>3. ASSUME NEW a \in Nodes \ {c}, NEW q \in Side, <<a, q>> \in path[t]
      PROVE  n \in Under(child, child[a][q])
    <2>1. p \in Under(child, child[a][q])
        BY <1>1, <1>3 DEF SizeInv, PathInv
    <2> QED
        BY <1>1, <1>2, <2>1, UnderClosed DEF Closed
<1>4. Nodes' = Nodes
    BY <1>1 DEF Nodes
<1>5. PathInv(t)'
    BY <1>1, <1>3, <1>4 DEF PathInv
<1>6. CounterInv(t)'
    <2>1. Orphan(t)' = Orphan(t) /\ \A a, q : Population(a, q)' = Population(a, q)
        BY <1>1 DEF Orphan, Population
    <2> QED
        BY <1>1, <1>4, <2>1 DEF SizeInv, CounterInv
<1> QED
    BY <1>1, <1>5, <1>6, SizeHolder DEF Inside, Correcting

LEMMA DelGraftSize ==
    ASSUME TypeInv, MutexInv, HeapInv, SizeInv, NEW t \in Threads, DelGraft(t)
    PROVE  SizeInv'
<1> DEFINE c == cur[t]
           s == par[t][2]
           p == tmp[t]
           o == child[c][s]
           U(a, q) == Under(child, child[a][q])
           V(a, q) == Under(child', child'[a][q])
<1>1. /\ pc[t] = "bottom" /\ child[p][s] = NULL /\ child' = [child EXCEPT ![p][s] = o]
      /\ pc'[t] = "free" /\ UNCHANGED <<tree, block, size, call, cur, par, path>>
      /\ \A u \in Threads : u # t => pc'[u] = pc[u]
    BY DEF DelGraft, Goto, walkVars, treeVars, TypeInv, TypeOK
<1>2. /\ child \in Fun /\ s \in Side /\ c \in Nodes /\ p \in Nodes \ {c}
    BY <1>1, ChildFun, SlotType DEF HeapInv, HolderInv
<1>3. p \in Addr /\ o \in Ptr
    BY <1>2 DEF Nodes, Fun
<1>4. child' \in Fun /\ Updated(child', child, p, s, o)
    <2> HIDE DEF c, p, s, o
    <2>1. child' \in Fun
        BY <1>1, <1>2, <1>3, UpdateType DEF Fun
    <2> QED
        BY <1>1, <1>2, <1>3, <2>1 DEF Updated, Fun
<1>5. Nodes' = Nodes
    BY <1>1 DEF Nodes
<1>6. ASSUME NEW a \in Nodes \ {c}, NEW q \in Side
      PROVE  size'[a][q] - On(t, a, q)' <= Population(a, q)'
    <2>1. a \in Addr /\ child[a][q] \in Ptr /\ size[a][q] \in Int
        BY <1>2, PopulationType DEF Nodes, Fun
    <2>2. /\ U(a, q) \in SUBSET Addr /\ V(a, q) \in SUBSET Addr /\ Under(child, o) \in SUBSET Addr
          /\ U(a, q) \cup Under(child, o) \in SUBSET Addr
          /\ Population(a, q) = Cardinality(U(a, q)) /\ Population(a, q)' = Cardinality(V(a, q))
        BY <1>2, <1>4, UnderClosed DEF Population
    <2>3. /\ <<a, q>> \in path[t] => p \in U(a, q)
          /\ IF <<a, q>> \in path[t]
             THEN size[a][q] - 1 <= Cardinality(U(a, q) \cup Under(child, o))
             ELSE size[a][q] <= Cardinality(U(a, q))
        <3>1. PathInv(t) /\ CounterInv(t) /\ Orphan(t) = o
            BY DEF SizeInv, Orphan
        <3>2. /\ <<a, q>> \in path[t] => p \in Under(child, child[a][q])
              /\ IF <<a, q>> \in path[t]
                 THEN size[a][q] - 1 <= Cardinality(Under(child, child[a][q]) \cup Under(child, Orphan(t)))
                 ELSE size[a][q] <= Population(a, q)
            BY <1>1, <3>1 DEF PathInv, CounterInv
        <3> QED
            BY <2>2, <3>1, <3>2
    <2>4. U(a, q) \subseteq V(a, q) /\ (p \in U(a, q) => Under(child, o) \subseteq V(a, q))
        <3>1. CASE a = p /\ q = s
            <4>1. U(a, q) = {}
                BY <1>1, <3>1, UnderNull
            <4> HIDE DEF U, V
            <4> QED
                BY <4>1
        <3>2. CASE ~(a = p /\ q = s)
            <4>1. child'[a][q] = child[a][q]
                BY <1>4, <2>1, <3>2 DEF Updated
            <4>2. /\ Under(child, child[a][q]) \subseteq Under(child', child[a][q])
                  /\ p \in Under(child, child[a][q]) => Under(child, o) \subseteq Under(child', child[a][q])
                <5>1. child[p][s] = NULL
                    BY <1>1
                <5> HIDE DEF c, p, s, o, U, V
                <5> QED
                    BY <1>2, <1>3, <1>4, <5>1, UnderGrows
            <4> QED
                BY <4>1, <4>2
        <3> QED
            BY <3>1, <3>2
    <2> HIDE DEF U, V, p, c, s, o
    <2>5. Cardinality(U(a, q)) \in Nat /\ Cardinality(V(a, q)) \in Nat /\ Cardinality(U(a, q)) <= Cardinality(V(a, q))
        BY <2>2, <2>4, CardMore
    <2>6. CASE <<a, q>> \in path[t]
        <3>1. U(a, q) \cup Under(child, o) \subseteq V(a, q)
            BY <2>3, <2>4, <2>6
        <3>2. /\ Cardinality(U(a, q) \cup Under(child, o)) \in Nat
              /\ Cardinality(U(a, q) \cup Under(child, o)) <= Cardinality(V(a, q))
            BY <2>2, <3>1, CardMore
        <3>3. On(t, a, q)' = 1
            BY <1>1, <2>6 DEF On
        <3> QED
            BY <1>1, <2>1, <2>2, <2>3, <2>5, <2>6, <3>2, <3>3
    <2>7. CASE <<a, q>> \notin path[t]
        <3>1. On(t, a, q)' = 0
            BY <1>1, <2>7 DEF On
        <3> QED
            BY <1>1, <2>1, <2>2, <2>3, <2>5, <2>7, <3>1
    <2> QED
        BY <2>6, <2>7
<1>7. PathInv(t)' /\ CounterInv(t)'
    BY <1>1, <1>5, <1>6 DEF PathInv, CounterInv
<1> QED
    BY <1>1, <1>7, SizeHolder DEF Inside, Correcting

LEMMA DelFreeSize ==
    ASSUME TypeInv, MutexInv, HeapInv, SizeInv, NEW t \in Threads, DelFree(t)
    PROVE  SizeInv'
<1> DEFINE c == cur[t]
<1>1. /\ pc[t] = "free" /\ block' = [block EXCEPT ![c] = "free"] /\ child' = [child EXCEPT ![c] = NoChild]
      /\ size' = [size EXCEPT ![c] = Zero] /\ pc'[t] = "unlock" /\ ret'[t] = 0
      /\ UNCHANGED <<call, path>> /\ \A u \in Threads : u # t => pc'[u] = pc[u]
    BY DEF DelFree, Release, Goto, Answer, walkVars, TypeInv, TypeOK
<1>2. /\ c \in Nodes /\ c \in Addr /\ child \in Fun /\ call[t].op = "del"
      /\ Forest(child, Roots, Nodes \ {c})
    BY <1>1, ChildFun DEF HeapInv, HolderInv, Nodes
<1>3. /\ Nodes' = Nodes \ {c} /\ \A a \in Addr : a # c => child'[a] = child[a]
      /\ \A a \in Nodes' : size'[a] = size[a]
    BY <1>1, <1>2 DEF Nodes, TypeInv, TypeOK
<1>4. child' \in Fun
    <2>1. NoChild \in [Side -> Ptr]
        BY DEF NoChild, Ptr
    <2> QED
        BY <1>1, <1>2, <2>1 DEF Fun
<1>5. ASSUME NEW a \in Nodes', NEW q \in Side
      PROVE  size'[a][q] + On(t, a, q)' * Delta(t)' <= Population(a, q)'
    <2> DEFINE U == Under(child, child[a][q])
               V == Under(child', child'[a][q])
    <2>1. /\ a \in Nodes \ {c} /\ a \in Addr /\ a # c /\ child'[a][q] = child[a][q]
          /\ child[a][q] \in (Nodes \ {c}) \cup {NULL} /\ child[a][q] \in Ptr
        BY <1>2, <1>3 DEF Nodes, Forest, Fun
    <2>2. U \in SUBSET Addr /\ V \in SUBSET Addr
        BY <1>2, <1>4, UnderClosed
    <2>3. U \subseteq V
        <3>1. c \notin Under(child, child[a][q])
            BY <1>2, <2>1, UnderForest
        <3>2. Under(child, child[a][q]) \subseteq Under(child', child[a][q])
            <4> HIDE DEF c, U, V
            <4> QED
                BY <1>2, <1>3, <1>4, <2>1, <3>1, UnderElsewhere
        <3> QED
            BY <2>1, <3>2
    <2>4. Population(a, q)' = Cardinality(V)
        BY DEF Population
    <2>5. size[a][q] - On(t, a, q) <= Cardinality(U) /\ size[a][q] \in Int
        BY <1>1, <2>1, PopulationType DEF SizeInv, CounterInv, Population
    <2>6. size'[a][q] + On(t, a, q)' * Delta(t)' = size[a][q] - On(t, a, q)
        <3>1. Delta(t)' = -1 /\ size'[a][q] = size[a][q]
            BY <1>1, <1>2, <1>3 DEF Delta
        <3>2. On(t, a, q)' = On(t, a, q) /\ On(t, a, q) \in {0, 1}
            BY <1>1 DEF On
        <3> QED
            BY <2>5, <3>1, <3>2
    <2> HIDE DEF U, V
    <2>7. Cardinality(U) \in Nat /\ Cardinality(V) \in Nat /\ Cardinality(U) <= Cardinality(V)
        BY <2>2, <2>3, CardMore
    <2>8. On(t, a, q) \in {0, 1}
        BY DEF On
    <2> QED
        BY <2>4, <2>5, <2>6, <2>7, <2>8
<1>6. PathInv(t)' /\ CounterInv(t)'
    BY <1>1, <1>5 DEF PathInv, CounterInv
<1> QED
    BY <1>1, <1>6, SizeHolder DEF Inside, Correcting

-----------------------------------------------------------------------------
(* The counters, all steps together *)

LEMMA InvokeSize ==
    ASSUME TypeInv, SizeInv, NEW t \in Threads, Invoke(t)
    PROVE  SizeInv'
<1>1. PICK c \in Calls(t) :
        /\ call' = [call EXCEPT ![t] = c]
        /\ pc' = [pc EXCEPT ![t] = CASE c.op \in {"add", "del"} -> "lock"
                                     [] c.op = "lookup"         -> "lookup"
                                     [] c.op = "print_info"     -> "traverse"]
        /\ cur' = [cur EXCEPT ![t] = IF c.op = "lookup" THEN root ELSE NULL]
    BY DEF Invoke, Goto
<1>2. c.op \in {"add", "del", "lookup", "print_info"}
    BY CallsType
<1>3. pc[t] = "idle" /\ path[t] = {} /\ UNCHANGED <<tree, block, child, size, par, tmp, path, ret>>
    BY DEF Invoke, treeVars, heapVars, SizeInv, PathInv
<1>4. /\ pc'[t] \in {"lock", "lookup", "traverse"}
      /\ \A u \in Threads : u # t => pc'[u] = pc[u] /\ call'[u] = call[u] /\ cur'[u] = cur[u]
    BY <1>1, <1>2 DEF TypeInv, TypeOK
<1> QED
    BY <1>3, <1>4, SizeSame DEF Inside

LEMMA OutsideSize ==
    ASSUME TypeInv, SizeInv, NEW t \in Threads, Refuse(t) \/ Return(t) \/ Lookup(t) \/ PrintEnd(t)
    PROVE  SizeInv'
<1>1. /\ pc[t] \in {"idle", "return", "lookup", "copy", "traverse"}
      /\ UNCHANGED <<tree, block, child, size>>
    BY DEF Refuse, Return, Lookup, LookupMiss, LookupDescend, LookupHit, LookupCopy, LookupEnd,
           PrintEnd, treeVars, heapVars
<1>2. /\ pc'[t] \in {"idle", "return", "lookup", "copy"}
      /\ \A u \in Threads : u # t => /\ pc'[u] = pc[u] /\ cur'[u] = cur[u] /\ call'[u] = call[u]
                                     /\ par'[u] = par[u] /\ tmp'[u] = tmp[u] /\ path'[u] = path[u]
                                     /\ ret'[u] = ret[u]
    BY DEF Refuse, Return, Lookup, LookupMiss, LookupDescend, LookupHit, LookupCopy, LookupEnd,
           PrintEnd, Goto, Answer, walkVars, TypeInv, TypeOK
<1>3. pc'[t] \in {"idle", "lock"} => path'[t] = {}
    BY DEF Refuse, Return, Lookup, LookupMiss, LookupDescend, LookupHit, LookupCopy, LookupEnd,
           PrintEnd, Goto, TypeInv, TypeOK
<1> QED
    BY <1>1, <1>2, <1>3, SizeSame DEF Inside

\* While terminate runs, and after it, nobody relies on a counter.
LEMMA SizeDown ==
    ASSUME MutexInv', tree' # "up", \A u \in Threads : pc'[u] = "idle" => path'[u] = {}
    PROVE  SizeInv'
<1>1. \A u \in Threads : pc'[u] \notin Inside \cup {"lock"}
    BY DEF MutexInv
<1> QED
    BY <1>1 DEF SizeInv, ModestInv, PathInv, CounterInv, Inside

LEMMA UpDownSize ==
    ASSUME TypeInv, MutexInv, HeapInv, SizeInv, MutexInv', NEW t \in Threads,
           Initialize(t) \/ Terminate(t) \/ TerminateEnd(t)
    PROVE  SizeInv'
<1>1. UNCHANGED <<block, path>>
    BY DEF Initialize, Terminate, TerminateEnd, heapVars, walkVars
<1>2. CASE Initialize(t)
    <2>1. tree = "none" /\ UNCHANGED <<pc, path>>
        BY <1>2 DEF Initialize, walkVars
    <2>2. Nodes' = {} /\ \A u \in Threads : pc[u] \notin Inside
        BY <1>1, <2>1 DEF MutexInv, HeapInv, EmptyInv, Nodes
    <2>3. ModestInv'
        BY <2>2 DEF ModestInv, Modest
    <2>4. \A u \in Threads : PathInv(u)' /\ CounterInv(u)'
        BY <2>1, <2>2 DEF SizeInv, PathInv, CounterInv, Inside
    <2> QED
        BY <2>3, <2>4 DEF SizeInv
<1>3. CASE Terminate(t) \/ TerminateEnd(t)
    <2>1. tree' # "up"
        BY <1>3 DEF Terminate, TerminateEnd
    <2>2. \A u \in Threads : pc'[u] = "idle" => pc[u] = "idle"
        BY <1>3 DEF Terminate, TerminateEnd, Goto, TypeInv, TypeOK
    <2> QED
        BY <1>1, <2>1, <2>2, SizeDown DEF SizeInv, PathInv
<1> QED
    BY <1>2, <1>3

LEMMA StutterSize ==
    ASSUME SizeInv, UNCHANGED <<tree, block, child, size, pc, call, cur, par, tmp, path, ret>>
    PROVE  SizeInv'
<1>1. Nodes' = Nodes /\ \A a, s : Population(a, s)' = Population(a, s)
    BY DEF Nodes, Population
<1>2. ModestInv'
    BY <1>1 DEF SizeInv, ModestInv, Modest
<1>3. ASSUME NEW u \in Threads PROVE PathInv(u)' /\ CounterInv(u)'
    <2>1. PathInv(u)'
        BY <1>1 DEF SizeInv, PathInv, Ancestors
    <2>2. (\A a, s : On(u, a, s)' = On(u, a, s)) /\ Delta(u)' = Delta(u) /\ Orphan(u)' = Orphan(u)
        BY DEF On, Delta, Orphan
    <2>3. CounterInv(u)'
        BY <1>1, <2>2 DEF SizeInv, CounterInv
    <2> QED
        BY <2>1, <2>3
<1> QED
    BY <1>2, <1>3 DEF SizeInv

LEMMA VisitSize ==
    ASSUME TypeInv, MutexInv, SizeInv, MutexInv', NEW t \in Threads, Visit(t)
    PROVE  SizeInv'
<1>1. pc[t] = "traverse" /\ UNCHANGED <<tree, pc, call, cur, par, tmp, path, ret>>
    BY DEF Visit, treeVars, walkVars
<1>2. CASE call[t].op # "terminate"
    <2>1. UNCHANGED <<block, child, size>>
        BY <1>2 DEF Visit, heapVars
    <2> QED
        BY <1>1, <2>1, StutterSize
<1>3. CASE call[t].op = "terminate"
    <2>1. tree' # "up"
        BY <1>1, <1>3 DEF MutexInv, Ending
    <2> QED
        BY <1>1, <2>1, SizeDown DEF SizeInv, PathInv
<1> QED
    BY <1>2, <1>3

LEMMA SizeInit == Init => SizeInv
<1> SUFFICES ASSUME Init PROVE SizeInv
    OBVIOUS
<1>1. Nodes = {} /\ \A t \in Threads : pc[t] = "idle" /\ path[t] = {}
    BY DEF Init, Nodes
<1> QED
    BY <1>1 DEF SizeInv, ModestInv, Modest, PathInv, CounterInv

LEMMA SizeNext == TypeInv /\ MutexInv /\ HeapInv /\ SizeInv /\ [Next]_vars => SizeInv'
<1> SUFFICES ASSUME TypeInv, MutexInv, HeapInv, SizeInv, [Next]_vars PROVE SizeInv'
    OBVIOUS
<1>1. MutexInv'
    BY MutexNext
<1>2. CASE UNCHANGED vars
    BY <1>2, StutterSize DEF vars, treeVars, heapVars, walkVars
<1>3. ASSUME NEW t \in Threads, Start(t) PROVE SizeInv'
    BY <1>1, <1>3, InvokeSize, OutsideSize, UpDownSize DEF Start
<1>4. ASSUME NEW t \in Threads, Run(t) PROVE SizeInv'
    <2>1. CASE Lock(t) \/ Unlock(t)
        BY <2>1, LockSize, UnlockSize
    <2>2. CASE Add(t)
        <3>1. CASE AddNoMemory(t) \/ AddDuplicate(t)
            BY <3>1, FailSize DEF AddNoMemory, AddDuplicate
        <3>2. CASE AddDescend(t)
            BY <3>2, DescendSize DEF AddDescend
        <3> QED
            BY <2>2, <3>1, <3>2, AddRootSize, AddLeafSize, AddInitSize DEF Add
    <2>3. CASE Del(t)
        <3>1. CASE DelMissing(t)
            BY <3>1, FailSize DEF DelMissing
        <3>2. CASE DelDescend(t)
            BY <3>2, DescendSize DEF DelDescend
        <3> QED
            BY <2>3, <3>1, <3>2, DelFoundSize, DelUnlinkSize, DelBottomSize, DelGraftSize, DelFreeSize DEF Del
    <2>4. CASE Lookup(t) \/ Return(t)
        BY <2>4, OutsideSize
    <2>5. CASE Traverse(t)
        BY <1>1, <2>5, VisitSize, OutsideSize, UpDownSize DEF Traverse
    <2>6. CASE Fault(t)
        BY <2>6, StutterSize DEF Fault, treeVars, heapVars, walkVars
    <2> QED
        BY <1>4, <2>1, <2>2, <2>3, <2>4, <2>5, <2>6 DEF Run
<1> QED
    BY <1>2, <1>3, <1>4 DEF Next

\* left_count and right_count never promise more nodes than hang there: add
\* and del correct them along the way they walked, and the subtree that del
\* grafts makes the counts above it too small, never too large.
THEOREM CountersCorrect == Spec => []CountersNeverOverstate
<1>1. Init => SizeInv
    BY SizeInit
<1>2. TypeInv /\ MutexInv /\ HeapInv /\ SizeInv /\ [Next]_vars => SizeInv'
    BY SizeNext
<1>3. TypeInv /\ MutexInv /\ SizeInv => CountersNeverOverstate
    <2> SUFFICES ASSUME TypeInv, MutexInv, SizeInv, Quiet, NEW a \in Nodes, NEW s \in Side
                 PROVE  size[a][s] <= Cardinality(Below(child[a][s]))
        BY DEF CountersNeverOverstate
    <2>1. tree = "up" /\ \A t \in Threads : pc[t] \notin Correcting
        BY ConstantsAssumption DEF Quiet, MutexInv, MutexHeldInside, Correcting, Threads
    <2> QED
        BY <2>1, BelowIsUnder DEF SizeInv, ModestInv, Modest, Population
<1> QED
    BY <1>1, <1>2, <1>3, HeapCorrect, PTL DEF Spec

-----------------------------------------------------------------------------
(* A program whose readers run alone: what a call may run into             *)

Reads == {"lookup", "print_info"}

\* What a reader that runs alone may follow.
Good(p) == p \in Nodes \/ (p = Wild /\ root = Wild)
GoodFrame == {f \in Frame : Good(f.node)}

ReaderInv(t) ==
    /\ call[t].op \in Reads => pc[t] \in {"lookup", "copy", "traverse", "return"} /\ tree = "up"
    /\ pc[t] \in {"lookup", "copy"} => call[t].op = "lookup"
    /\ pc[t] = "traverse" => call[t].op \in {"print_info", "terminate"}
    /\ pc[t] = "lookup" => cur[t] = NULL \/ Good(cur[t])
    /\ pc[t] = "copy" => cur[t] \in Nodes
    /\ pc[t] = "traverse" /\ call[t].op = "print_info" => stack[t] \in Seq(GoodFrame)

ReadersInv == ReaderAlone /\ \A t \in Threads : ReaderInv(t)

\* A step of t: no other thread is reading, so that only t counts.
LEMMA ReadersStep ==
    ASSUME ReadersInv, ReaderAlone', NEW t \in Threads, ReaderInv(t)',
           pc[t] # "idle" \/ pc'[t] # "idle" \/ tree = "none",
           \A u \in Threads : u # t => pc'[u] = pc[u] /\ call'[u] = call[u]
    PROVE  ReadersInv'
<1>1. ASSUME NEW u \in Threads, u # t PROVE ReaderInv(u)'
    <2>1. CASE call[u].op \in Reads
        <3>1. tree = "up" /\ pc[t] = "idle" /\ pc'[t] = "idle"
            BY <1>1, <2>1 DEF ReadersInv, ReaderInv, ReaderAlone, Reads
        <3> QED
            BY <3>1
    <2>2. CASE call[u].op \notin Reads
        BY <1>1, <2>2 DEF ReadersInv, ReaderInv, Reads
    <2> QED
        BY <2>1, <2>2
<1> QED
    BY <1>1 DEF ReadersInv

\* When no other thread is in a call, the tree is whole.
LEMMA ReaderTree ==
    ASSUME TypeInv, MutexInv, HeapInv, NEW t \in Threads, tree = "up",
           pc[t] \notin Inside, \A u \in Threads : u # t => pc[u] = "idle"
    PROVE  /\ root # Wild => Forest(child, Roots, Nodes)
           /\ root = Wild => Nodes = {}
           /\ root = NULL \/ Good(root)
           /\ \A a \in Nodes, s \in Side : child[a][s] \in Nodes \cup {NULL}
<1>1. \A u \in Threads : pc[u] \notin Amid
    BY DEF Amid, Inside
<1>2. (root # Wild => Forest(child, Roots, Nodes)) /\ (root = Wild => Nodes = {})
    BY <1>1 DEF HeapInv, WholeInv, EmptyInv
<1>3. root = NULL \/ Good(root)
    BY <1>2 DEF Forest, Roots, Good
<1>4. \A a \in Nodes, s \in Side : child[a][s] \in Nodes \cup {NULL}
    BY <1>2 DEF Forest
<1> QED
    BY <1>2, <1>3, <1>4

LEMMA GoodFrames ==
    ASSUME NEW p, p = NULL \/ Good(p)
    PROVE  Frames(p) \in Seq(GoodFrame)
<1>1. CASE p = NULL
    BY <1>1, EmptySeq DEF Frames
<1>2. CASE p # NULL
    <2> DEFINE f == [node |-> p, at |-> "pre"]
    <2>1. f \in GoodFrame
        BY <1>2 DEF GoodFrame, Frame, Good, Nodes
    <2>2. <<f>> \in Seq(GoodFrame)
        BY <2>1
    <2> QED
        BY <1>2, <2>2 DEF Frames
<1> QED
    BY <1>1, <1>2

LEMMA StartReaders ==
    ASSUME TypeInv, MutexInv, HeapInv, ReadersInv, ReaderAlone', NEW t \in Threads, Start(t)
    PROVE  ReadersInv'
<1>1. pc[t] = "idle" /\ call[t].op \notin Reads
    BY DEF Start, Initialize, Invoke, Refuse, Terminate, ReadersInv, ReaderInv
<1>2. CASE Initialize(t)
    <2>1. tree = "none" /\ tree' = "up" /\ UNCHANGED <<pc, call>>
        BY <1>2 DEF Initialize
    <2>2. ReaderInv(t)'
        BY <1>1, <2>1 DEF ReaderInv
    <2> QED
        BY <2>1, <2>2, ReadersStep
<1>3. CASE Refuse(t)
    <2>1. /\ pc'[t] = "return" /\ call'[t].op = "refused"
          /\ \A u \in Threads : u # t => pc'[u] = pc[u] /\ call'[u] = call[u]
        BY <1>3 DEF Refuse, Goto, NoCall, TypeInv, TypeOK
    <2>2. ReaderInv(t)'
        BY <2>1 DEF ReaderInv, Reads
    <2> QED
        BY <2>1, <2>2, ReadersStep
<1>4. CASE Terminate(t)
    <2>1. /\ pc'[t] = "traverse" /\ call'[t].op = "terminate"
          /\ \A u \in Threads : u # t => pc'[u] = pc[u] /\ call'[u] = call[u]
        BY <1>4 DEF Terminate, Goto, NoCall, TypeInv, TypeOK
    <2>2. ReaderInv(t)'
        BY <2>1 DEF ReaderInv, Reads
    <2> QED
        BY <2>1, <2>2, ReadersStep
<1>5. CASE Invoke(t)
    <2>1. PICK c \in Calls(t) :
            /\ call' = [call EXCEPT ![t] = c]
            /\ pc' = [pc EXCEPT ![t] = CASE c.op \in {"add", "del"} -> "lock"
                                         [] c.op = "lookup"         -> "lookup"
                                         [] c.op = "print_info"     -> "traverse"]
            /\ cur' = [cur EXCEPT ![t] = IF c.op = "lookup" THEN root ELSE NULL]
            /\ stack' = [stack EXCEPT ![t] = IF c.op = "print_info" THEN Frames(root) ELSE <<>>]
        BY <1>5 DEF Invoke, Goto
    <2>2. c.op \in {"add", "del", "lookup", "print_info"}
        BY CallsType
    <2>3. /\ tree = "up" /\ UNCHANGED <<tree, root, block>>
        BY <1>5 DEF Invoke, treeVars, heapVars
    <2>4. /\ call'[t] = c /\ cur'[t] = (IF c.op = "lookup" THEN root ELSE NULL)
          /\ stack'[t] = IF c.op = "print_info" THEN Frames(root) ELSE <<>>
          /\ \A u \in Threads : u # t => pc'[u] = pc[u] /\ call'[u] = call[u]
        BY <2>1 DEF TypeInv, TypeOK
    <2>5. pc'[t] = CASE c.op \in {"add", "del"} -> "lock"
                     [] c.op = "lookup"         -> "lookup"
                     [] c.op = "print_info"     -> "traverse"
        BY <2>1 DEF TypeInv, TypeOK
    <2>6. /\ pc'[t] \in {"lock", "lookup", "traverse"}
          /\ pc'[t] = "lookup" <=> c.op = "lookup"
          /\ pc'[t] = "traverse" <=> c.op = "print_info"
        BY <2>2, <2>5
    <2>7. ReaderInv(t)'
        <3>1. CASE c.op \notin Reads
            BY <2>4, <2>6, <3>1 DEF ReaderInv, Reads
        <3>2. CASE c.op \in Reads
            <4>1. \A u \in Threads : u # t => pc[u] = "idle"
                BY <2>4, <3>2 DEF ReaderAlone, Reads
            <4>2. root = NULL \/ Good(root)
                BY <1>1, <2>3, <4>1, ReaderTree DEF Inside
            <4>3. GoodFrame' = GoodFrame /\ \A p : Good(p)' <=> Good(p)
                BY <2>3 DEF GoodFrame, Good, Nodes
            <4>4. Frames(root) \in Seq(GoodFrame)
                BY <4>2, GoodFrames
            <4> QED
                BY <2>3, <2>4, <2>6, <3>2, <4>2, <4>3, <4>4 DEF ReaderInv, Reads
        <3> QED
            BY <3>1, <3>2
    <2> QED
        BY <2>4, <2>6, <2>7, ReadersStep
<1> QED
    BY <1>2, <1>3, <1>4, <1>5 DEF Start

\* Whoever is in add or del, or about to be, is no reader.
LEMMA WriterReaders ==
    ASSUME TypeInv, ReadersInv, ReaderAlone', NEW t \in Threads, Lock(t) \/ Unlock(t) \/ Add(t) \/ Del(t)
    PROVE  ReadersInv'
<1>1. pc[t] \in Inside \cup {"lock"} /\ call' = call
    BY DEF Lock, Unlock, Add, AddRoot, AddNoMemory, AddDuplicate, AddDescend, AddLeaf, AddInit,
           Del, DelDescend, DelMissing, DelFound, DelUnlink, DelBottom, DelGraft, DelFree,
           Descend, Fail, Inside
<1>2. \A u \in Threads : u # t => pc'[u] = pc[u]
    BY DEF Lock, Unlock, Add, AddRoot, AddNoMemory, AddDuplicate, AddDescend, AddLeaf, AddInit,
           Del, DelDescend, DelMissing, DelFound, DelUnlink, DelBottom, DelGraft, DelFree,
           Descend, Fail, Goto, TypeInv, TypeOK
<1>3. pc'[t] \in Inside \cup {"return"}
    <2>1. CASE Lock(t)
        BY <2>1 DEF Lock, Goto, TypeInv, TypeOK, CallInv, Inside
    <2>2. CASE Unlock(t)
        BY <2>2 DEF Unlock, Goto, TypeInv, TypeOK
    <2>3. CASE Add(t)
        BY <2>3 DEF Add, AddRoot, AddNoMemory, AddDuplicate, AddDescend, AddLeaf, AddInit,
                    Descend, Fail, Goto, Inside, TypeInv, TypeOK
    <2>4. CASE Del(t)
        BY <2>4 DEF Del, DelDescend, DelMissing, DelFound, DelUnlink, DelBottom, DelGraft, DelFree,
                    Descend, Fail, Goto, Inside, TypeInv, TypeOK
    <2> QED
        BY <2>1, <2>2, <2>3, <2>4
<1>4. pc[t] # "idle" /\ call[t].op \notin Reads
    BY <1>1 DEF ReadersInv, ReaderInv, Inside
<1>5. ReaderInv(t)'
    BY <1>1, <1>3, <1>4 DEF ReaderInv, Inside
<1> QED
    BY <1>1, <1>2, <1>4, <1>5, ReadersStep

LEMMA LookupReaders ==
    ASSUME TypeInv, MutexInv, HeapInv, ReadersInv, ReaderAlone', NEW t \in Threads, Lookup(t)
    PROVE  ReadersInv'
<1>1. /\ pc[t] \in {"lookup", "copy"} /\ UNCHANGED <<tree, root, block, call>>
      /\ \A u \in Threads : u # t => pc'[u] = pc[u]
    BY DEF Lookup, LookupMiss, LookupDescend, LookupHit, LookupCopy, LookupEnd, Goto,
           treeVars, heapVars, TypeInv, TypeOK
<1>2. /\ call[t].op = "lookup" /\ tree = "up" /\ \A u \in Threads : u # t => pc[u] = "idle"
    BY <1>1 DEF ReadersInv, ReaderInv, ReaderAlone, Reads
<1>3. \A a \in Nodes, s \in Side : child[a][s] \in Nodes \cup {NULL}
    BY <1>1, <1>2, ReaderTree DEF Inside
<1>4. Nodes' = Nodes
    BY <1>1 DEF Nodes
<1>5. ReaderInv(t)'
    <2>1. CASE LookupMiss(t) \/ LookupCopy(t)
        <3>1. pc'[t] = "return"
            BY <2>1 DEF LookupMiss, LookupCopy, LookupEnd, Goto, TypeInv, TypeOK
        <3> QED
            BY <1>1, <1>2, <3>1 DEF ReaderInv
    <2>2. CASE LookupDescend(t)
        <3>1. pc'[t] = "lookup" /\ cur'[t] \in Nodes
            BY <1>3, <2>2 DEF LookupDescend, Valid, TypeInv, TypeOK
        <3> QED
            BY <1>1, <1>2, <1>4, <3>1 DEF ReaderInv, Good
    <2>3. CASE LookupHit(t)
        <3>1. pc'[t] = "copy" /\ cur'[t] = cur[t] /\ cur[t] \in Nodes
            BY <2>3 DEF LookupHit, Valid, Goto, walkVars, TypeInv, TypeOK
        <3> QED
            BY <1>1, <1>2, <1>4, <3>1 DEF ReaderInv
    <2> QED
        BY <2>1, <2>2, <2>3 DEF Lookup
<1> QED
    BY <1>1, <1>5, ReadersStep

LEMMA TraverseReaders ==
    ASSUME TypeInv, MutexInv, HeapInv, ReadersInv, ReaderAlone', NEW t \in Threads, Traverse(t)
    PROVE  ReadersInv'
<1>1. /\ pc[t] = "traverse" /\ call' = call /\ \A u \in Threads : u # t => pc'[u] = pc[u]
    BY DEF Traverse, Visit, PrintEnd, TerminateEnd, Goto, TypeInv, TypeOK
<1>2. CASE PrintEnd(t) \/ TerminateEnd(t)
    <2>1. pc'[t] = "return"
        BY <1>2 DEF PrintEnd, TerminateEnd, Goto, TypeInv, TypeOK
    <2>2. call[t].op \in Reads => tree = "up" /\ tree' = tree
        BY <1>2 DEF PrintEnd, TerminateEnd, treeVars, Reads, ReadersInv, ReaderInv
    <2>3. ReaderInv(t)'
        BY <1>1, <2>1, <2>2 DEF ReaderInv
    <2> QED
        BY <1>1, <2>3, ReadersStep
<1>3. CASE Visit(t) /\ call[t].op = "terminate"
    <2>1. pc'[t] = "traverse"
        BY <1>1, <1>3 DEF Visit
    <2>2. ReaderInv(t)'
        BY <1>1, <1>3, <2>1 DEF ReaderInv, Reads
    <2> QED
        BY <1>1, <2>2, ReadersStep
<1>4. CASE Visit(t) /\ call[t].op # "terminate"
    <2> DEFINE st == stack[t]
               f == Head(st)
               n == f.node
    <2>1. /\ call[t].op = "print_info" /\ tree = "up" /\ st \in Seq(GoodFrame)
          /\ \A u \in Threads : u # t => pc[u] = "idle"
        BY <1>1, <1>4 DEF ReadersInv, ReaderInv, ReaderAlone, Reads
    <2>2. /\ n \in Nodes /\ st # <<>> /\ pc' = pc /\ UNCHANGED <<tree, root, block>>
          /\ \/ stack'[t] = Frames(child[n]["left"]) \o <<[f EXCEPT !.at = "in"]>> \o Tail(st)
             \/ stack'[t] = Frames(child[n]["right"]) \o <<[f EXCEPT !.at = "post"]>> \o Tail(st)
             \/ stack'[t] = Tail(st)
        BY <1>4 DEF Visit, Valid, treeVars, heapVars, TypeInv, TypeOK
    <2>3. \A s \in Side : child[n][s] \in Nodes \cup {NULL}
        BY <1>1, <2>1, <2>2, ReaderTree DEF Inside
    <2>4. Tail(st) \in Seq(GoodFrame) /\ f \in GoodFrame
        <3>1. st \in Seq(GoodFrame) /\ st # <<>>
            BY <2>1, <2>2
        <3> HIDE DEF st
        <3>2. Tail(st) \in Seq(GoodFrame)
            BY <3>1, RestOf
        <3>3. Head(st) \in GoodFrame
            BY <3>1, HeadTailProperties
        <3> QED
            BY <3>2, <3>3
    <2>5. [f EXCEPT !.at = "in"] \in GoodFrame /\ [f EXCEPT !.at = "post"] \in GoodFrame
        <3> HIDE DEF f
        <3> QED
            BY <2>4 DEF GoodFrame, Frame, Good
    <2>6. \A s \in Side : Frames(child[n][s]) \in Seq(GoodFrame)
        BY <2>3, GoodFrames DEF Good
    <2>7. stack'[t] \in Seq(GoodFrame)
        <3>1. ASSUME NEW v \in Seq(GoodFrame), NEW h \in GoodFrame
              PROVE  v \o <<h>> \o Tail(st) \in Seq(GoodFrame)
            <4>1. <<h>> \in Seq(GoodFrame)
                OBVIOUS
            <4> HIDE DEF st
            <4> QED
                BY <2>4, <4>1, ConcatProperties
        <3> HIDE DEF st, f, n
        <3> QED
            BY <2>2, <2>4, <2>5, <2>6, <3>1 DEF Side
    <2>8. GoodFrame' = GoodFrame
        BY <2>2 DEF GoodFrame, Good, Nodes
    <2>9. ReaderInv(t)'
        BY <1>1, <2>1, <2>2, <2>7, <2>8 DEF ReaderInv
    <2> QED
        BY <1>1, <2>9, ReadersStep
<1> QED
    BY <1>2, <1>3, <1>4 DEF Traverse

LEMMA StillReaders ==
    ASSUME ReadersInv, UNCHANGED <<tree, root, block, pc, call, cur, stack>>
    PROVE  ReadersInv'
<1>1. GoodFrame' = GoodFrame /\ Nodes' = Nodes /\ \A p : Good(p)' <=> Good(p)
    BY DEF GoodFrame, Good, Nodes
<1> QED
    BY <1>1 DEF ReadersInv, ReaderAlone, ReaderInv

LEMMA ReadersNext ==
    TypeInv /\ MutexInv /\ HeapInv /\ ReadersInv /\ [Next /\ ReaderAlone']_vars => ReadersInv'
<1> SUFFICES ASSUME TypeInv, MutexInv, HeapInv, ReadersInv, [Next /\ ReaderAlone']_vars
             PROVE  ReadersInv'
    OBVIOUS
<1>1. CASE UNCHANGED vars
    BY <1>1, StillReaders DEF vars, treeVars, heapVars, walkVars, frameVars
<1>2. ASSUME NEW t \in Threads, Run(t), ReaderAlone' PROVE ReadersInv'
    <2>1. CASE Return(t)
        <3>1. /\ pc[t] = "return" /\ pc'[t] = "idle" /\ call'[t].op = "none"
              /\ \A u \in Threads : u # t => pc'[u] = pc[u] /\ call'[u] = call[u]
            BY <2>1 DEF Return, Goto, NoCall, TypeInv, TypeOK
        <3>2. ReaderInv(t)'
            BY <3>1 DEF ReaderInv, Reads
        <3> QED
            BY <1>2, <3>1, <3>2, ReadersStep
    <2>2. CASE Fault(t)
        BY <2>2, StillReaders DEF Fault, treeVars, heapVars, walkVars, frameVars
    <2> QED
        BY <1>2, <2>1, <2>2, WriterReaders, LookupReaders, TraverseReaders DEF Run
<1> QED
    BY <1>1, <1>2, StartReaders DEF Next

-----------------------------------------------------------------------------
\* Only a Fault sets fault.
LEMMA FaultStep ==
    ASSUME Next, fault' # "none"
    PROVE  fault = "none" /\ \E t \in Threads : Fault(t)
<1>1. fault = "none" /\ \E t \in Threads : Start(t) \/ Run(t)
    BY DEF Next
<1>2. ASSUME NEW t \in Threads, Start(t) PROVE fault' = fault
    BY <1>2 DEF Start, Initialize, Invoke, Refuse, Terminate
<1>3. ASSUME NEW t \in Threads, Add(t) \/ Del(t) PROVE fault' = fault
    <2>1. CASE Add(t)
        BY <2>1 DEF Add, AddRoot, AddNoMemory, AddDuplicate, AddDescend, AddLeaf, AddInit, Descend, Fail
    <2>2. CASE Del(t)
        BY <2>2 DEF Del, DelDescend, DelMissing, DelFound, DelUnlink, DelBottom, DelGraft, DelFree,
                    Descend, Fail
    <2> QED
        BY <1>3, <2>1, <2>2
<1>4. ASSUME NEW t \in Threads, Lookup(t) \/ Traverse(t) PROVE fault' = fault
    BY <1>4 DEF Lookup, LookupMiss, LookupDescend, LookupHit, LookupCopy, LookupEnd, Descend,
                Traverse, Visit, PrintEnd, TerminateEnd
<1>5. ASSUME NEW t \in Threads, Lock(t) \/ Unlock(t) \/ Return(t) PROVE fault' = fault
    BY <1>5 DEF Lock, Unlock, Return
<1> QED
    BY <1>1, <1>2, <1>3, <1>4, <1>5 DEF Run

\* Where add or del follows a pointer that leads to no node.
LEMMA WriterFault ==
    ASSUME TypeInv, MutexInv, HeapInv, NEW t \in Threads, pc[t] \in {"add", "del", "bottom"},
           Follows(t), ~Valid(Pending(t))
    PROVE  \/ FaultAt(Pending(t)) = "null" /\ root = NULL /\ lock = t /\ call[t].op = "del"
           \/ FaultAt(Pending(t)) = "wild" /\ root = Wild /\ count = 0
<1>1. pc[t] # "bottom"
    BY DEF Pending, Valid, HeapInv, HolderInv
<1>2. /\ root # Wild => Forest(child, Roots, Nodes)
      /\ root = Wild => Nodes = {}
      /\ count = Cardinality(Nodes)
    BY <1>1, WholeHere DEF Inside, Amid
<1>3. lock = t /\ Hangs(t) /\ Pending(t) = cur[t] /\ cur[t] \notin Nodes
      /\ (pc[t] = "add" => cur[t] # NULL) /\ (pc[t] = "del" => call[t].op = "del")
    BY <1>1 DEF MutexInv, MutexHeldInside, HeapInv, HolderInv, Pending, Follows, Valid
<1>4. cur[t] = root /\ root \in {NULL, Wild}
    <2>1. CASE par[t] = RootSlot
        BY <1>2, <1>3, <2>1 DEF Hangs, Forest, Roots
    <2>2. CASE par[t] # RootSlot
        <3>1. par[t][1] \in Nodes /\ par[t][2] \in Side
            BY <1>3, <2>2, SlotType DEF Hangs
        <3>2. cur[t] \in Nodes
            BY <1>2, <1>3, <2>2, <3>1 DEF Hangs, Forest
        <3> QED
            BY <1>3, <3>2
    <2> QED
        BY <2>1, <2>2
<1>5. root = Wild => count = 0
    BY <1>2, FS_EmptySet
<1> QED
    BY <1>1, <1>3, <1>4, <1>5, ConstantsAssumption DEF FaultAt

\* A reader that runs alone follows only the root that initialize left.
LEMMA ReaderFault ==
    ASSUME TypeInv, MutexInv, HeapInv, ReadersInv, NEW t \in Threads,
           pc[t] \in {"lookup", "copy", "traverse"}, Follows(t), ~Valid(Pending(t))
    PROVE  FaultAt(Pending(t)) = "wild" /\ root = Wild /\ count = 0
<1>1. CASE Ending(t)
    <2>1. /\ Forest(Ahead(t), OnStack(t), Nodes) /\ stack[t] # <<>> /\ stack[t] \in Seq(Frame)
        BY <1>1 DEF HeapInv, ClosingInv, Ending, Follows, TypeInv, TypeOK
    <2>2. 1 \in DOMAIN stack[t] /\ Head(stack[t]) = stack[t][1]
        BY <2>1
    <2>3. Head(stack[t]).node \in OnStack(t)
        BY <2>2 DEF OnStack
    <2> QED
        BY <1>1, <2>1, <2>3 DEF Forest, Ending, Pending, Valid
<1>2. CASE ~Ending(t)
    <2>1. call[t].op \in Reads /\ tree = "up"
        BY <1>2 DEF ReadersInv, ReaderInv, Ending, Reads
    <2>2. \A u \in Threads : u # t => pc[u] = "idle"
        BY <2>1 DEF ReadersInv, ReaderAlone, Reads
    <2>3. Good(Pending(t))
        <3>1. CASE pc[t] \in {"lookup", "copy"}
            BY <3>1 DEF ReadersInv, ReaderInv, Pending, Follows, Good
        <3>2. CASE pc[t] = "traverse"
            <4>1. stack[t] \in Seq(GoodFrame) /\ stack[t] # <<>>
                BY <1>2, <3>2 DEF ReadersInv, ReaderInv, Ending, Follows
            <4>2. Head(stack[t]) \in GoodFrame
                BY <4>1
            <4> QED
                BY <3>2, <4>1, <4>2 DEF Pending, GoodFrame
        <3> QED
            BY <3>1, <3>2
    <2>4. Pending(t) = Wild /\ root = Wild
        BY <2>3 DEF Good, Valid
    <2>5. Nodes = {}
        BY <2>1, <2>4 DEF HeapInv, EmptyInv
    <2>6. count = 0
        BY <2>1, <2>2, <2>5, FS_EmptySet DEF HeapInv, CountInv
    <2> QED
        BY <2>4, <2>6, ConstantsAssumption DEF FaultAt
<1> QED
    BY <1>1, <1>2

\* As long as no reader runs beside a writer, the tree meets undefined
\* behaviour at two places only, whatever the threads add and delete: del of an
\* empty tree, and the first call after initialize.
THEOREM FaultsKnown == AloneSpec => []OnlyKnownFaults
<1> DEFINE I == TypeInv /\ MutexInv /\ HeapInv /\ ReadersInv /\ OnlyKnownFaults
<1>1. Init => I
    <2>1. Init => ReadersInv
        <3> SUFFICES ASSUME Init PROVE ReadersInv
            OBVIOUS
        <3>1. \A t \in Threads : pc[t] = "idle" /\ call[t].op = "none"
            BY DEF Init, NoCall
        <3> QED
            BY <3>1 DEF ReadersInv, ReaderAlone, ReaderInv, Reads
    <2>2. Init => OnlyKnownFaults
        BY DEF Init, OnlyKnownFaults
    <2> QED
        BY <2>1, <2>2, TypeInit, MutexInit, HeapInit
<1>2. I /\ [Next /\ ReaderAlone']_vars => I'
    <2> SUFFICES ASSUME I, [Next /\ ReaderAlone']_vars PROVE I'
        OBVIOUS
    <2>1. TypeInv' /\ MutexInv' /\ HeapInv' /\ ReadersInv'
        BY TypeNext, MutexNext, HeapNext, ReadersNext
    <2>2. OnlyKnownFaults'
        <3>1. CASE UNCHANGED vars
            BY <3>1 DEF vars, treeVars, OnlyKnownFaults
        <3>2. CASE Next
            <4> SUFFICES ASSUME fault' # "none" PROVE OnlyKnownFaults'
                BY DEF OnlyKnownFaults
            <4>1. PICK t \in Threads : Fault(t)
                BY <3>2, FaultStep
            <4>2. /\ fault' = FaultAt(Pending(t)) /\ Follows(t) /\ ~Valid(Pending(t))
                  /\ UNCHANGED <<root, count, lock, call>>
                BY <4>1 DEF Fault, treeVars
            <4>3. pc[t] \in {"add", "del", "bottom", "lookup", "copy", "traverse"}
                BY <4>2 DEF Follows
            <4>4. \/ fault' = "null" /\ root = NULL /\ lock = t /\ call[t].op = "del"
                  \/ fault' = "wild" /\ root = Wild /\ count = 0
                BY <4>2, <4>3, WriterFault, ReaderFault
            <4>5. t # NULL
                BY ConstantsAssumption DEF Threads
            <4> QED
                BY <4>2, <4>4, <4>5 DEF OnlyKnownFaults
        <3> QED
            BY <3>1, <3>2
    <2> QED
        BY <2>1, <2>2
<1>3. I => OnlyKnownFaults
    OBVIOUS
<1> QED
    BY <1>1, <1>2, <1>3, PTL DEF AloneSpec

-----------------------------------------------------------------------------
(* Searches find what there is.  With arguments that a node can hold whole   *)
(* (LongKeys is empty), each key is in one node, and a search whose key is   *)
(* in the tree has its node before it.                                       *)

Distinct == \A a, b \in Nodes : key[a] = key[b] => a = b

\* Whatever node has the key that t looks for is under p.
OnlyUnder(t, p) == \A x \in Nodes : key[x] = call[t].key => x \in Under(child, p)

FindAt(t) ==
    /\ call[t].op \in {"add", "del"} \cup Reads => call[t] \in Calls(t)
    /\ pc[t] \in {"add", "del", "lookup"} => OnlyUnder(t, cur[t])
    /\ pc[t] = "init" => \A x \in Nodes : key[x] # call[t].key
    /\ pc[t] \in {"unlink", "bottom", "free", "copy"} => key[cur[t]] = call[t].key

FindInv == Distinct /\ \A t \in Threads : FindAt(t)

LEMMA KeyOfCall ==
    ASSUME LongKeys = {}, FindInv, NEW t \in Threads, call[t].op \in {"add", "del", "lookup"}
    PROVE  call[t].key \in Keys /\ call[t].key \in Int /\ ~call[t].long
<1>1. call[t] \in Calls(t)
    BY DEF FindInv, FindAt, Reads
<1>2. \A a \in Args : a.key \in Keys /\ ~a.long
    BY DEF Args
<1>3. call[t].op # "print_info"
    OBVIOUS
<1>4. call[t] # [NoCall EXCEPT !.op = "print_info"]
    BY <1>3 DEF NoCall
<1>5. PICK a \in Args, op \in {"add", "del", "lookup"}, v \in Values \cup {NULL} : call[t] = Call(op, a, v)
    BY <1>1, <1>4 DEF Calls
<1>6. call[t].key = a.key /\ call[t].long = a.long
    BY <1>5 DEF Call
<1> QED
    BY <1>2, <1>6, ConstantsAssumption

\* A node that has the key, and is not c, is on the side of c that the search takes.
LEMMA OneWay ==
    ASSUME LongKeys = {}, TypeInv, OrderInv, FindInv, Sorted(Nodes), NEW t \in Threads,
           call[t].op \in {"add", "del", "lookup"}, NEW c \in Nodes, OnlyUnder(t, c),
           NEW s \in Side, Toward(call[t], key[c]) = s,
           NEW x \in Nodes, key[x] = call[t].key
    PROVE  child[c][s] # NULL /\ x \in Under(child, child[c][s])
<1>1. call[t].key \in Int /\ ~call[t].long /\ key[c] \in Int
    BY KeyOfCall, NodeKey
<1>2. /\ s = "left" => call[t].key < key[c]
      /\ s = "right" => call[t].key > key[c]
    <2>1. CASE s = "left"
        BY <1>1, <2>1 DEF Toward
    <2>2. CASE s = "right"
        BY <1>1, <2>2 DEF Toward
    <2> QED
        BY <2>1, <2>2
<1>3. x # c
    BY <1>1, <1>2 DEF Side
<1>4. x \in Under(child, c) /\ c \in Addr /\ child \in Fun
    BY ChildFun DEF OnlyUnder, Nodes
<1>5. PICK q \in Side : child[c][q] # NULL /\ x \in Under(child, child[c][q])
    BY <1>3, <1>4, UnderSplit
<1>6. Ordered(q, key[x], key[c])
    BY <1>5 DEF Sorted
<1>7. q = s
    BY <1>1, <1>2, <1>6 DEF Ordered, Side
<1> QED
    BY <1>5, <1>7

LEMMA HereIsKey ==
    ASSUME LongKeys = {}, OrderInv, FindInv, NEW t \in Threads,
           call[t].op \in {"add", "del", "lookup"}, NEW c \in Nodes,
           Toward(call[t], key[c]) = "here"
    PROVE  key[c] = call[t].key
<1>1. call[t].key \in Int /\ ~call[t].long /\ key[c] \in Int
    BY KeyOfCall, NodeKey
<1> QED
    BY <1>1 DEF Toward

\* From the root everything is in reach of a search.
LEMMA AllUnderRoot ==
    ASSUME TypeInv, root # Wild => Forest(child, Roots, Nodes), root = Wild => Nodes = {},
           NEW t \in Threads
    PROVE  OnlyUnder(t, root)
<1>1. CASE root = Wild
    BY <1>1 DEF OnlyUnder
<1>2. CASE root # Wild
    <2>1. root \in Ptr /\ child \in Fun
        BY <1>2, ChildFun DEF TypeInv, TypeOK
    <2>2. Under(child, root) = Nodes
        BY <1>2, <2>1, ForestBelow DEF Roots
    <2> QED
        BY <2>2 DEF OnlyUnder
<1> QED
    BY <1>1, <1>2

\* A step that leaves the heap alone moves one search.
LEMMA FindAside ==
    ASSUME FindInv, NEW t \in Threads, UNCHANGED <<block, child, key>>, FindAt(t)',
           \A u \in Threads : u # t => pc'[u] = pc[u] /\ call'[u] = call[u] /\ cur'[u] = cur[u]
    PROVE  FindInv'
<1>1. Nodes' = Nodes /\ Distinct'
    BY DEF Nodes, FindInv, Distinct
<1>2. ASSUME NEW u \in Threads, u # t PROVE FindAt(u)'
    <2>1. FindAt(u) /\ pc'[u] = pc[u] /\ call'[u] = call[u] /\ cur'[u] = cur[u]
        BY <1>2 DEF FindInv
    <2>2. Calls(u)' = Calls(u)
        BY DEF Calls, Args
    <2> QED
        BY <1>1, <2>1, <2>2 DEF FindAt, OnlyUnder
<1> QED
    BY <1>1, <1>2 DEF FindInv

\* A step that changes it is made inside the mutex, while nobody else searches.
LEMMA FindInside ==
    ASSUME FindInv, ReadersInv, MutexInv, NEW t \in Threads, pc[t] \in Inside, UNCHANGED call,
           \A u \in Threads : u # t => pc'[u] = pc[u], Distinct', FindAt(t)'
    PROVE  FindInv'
<1>1. ASSUME NEW u \in Threads, u # t PROVE FindAt(u)'
    <2>1. pc[u] \notin Inside
        BY <1>1, HolderAlone
    <2>2. pc[u] \notin {"lookup", "copy"}
        BY <1>1 DEF ReadersInv, ReaderInv, ReaderAlone, Inside
    <2>3. pc'[u] \notin {"add", "del", "lookup", "init", "unlink", "bottom", "free", "copy"}
        BY <1>1, <2>1, <2>2 DEF Inside
    <2>4. call'[u].op \in {"add", "del"} \cup Reads => call'[u] \in Calls(u)'
        BY DEF FindInv, FindAt, Calls, Args
    <2> QED
        BY <2>3, <2>4 DEF FindAt
<1> QED
    BY <1>1 DEF FindInv

LEMMA LockFind ==
    ASSUME TypeInv, MutexInv, HeapInv, FindInv, NEW t \in Threads, Lock(t)
    PROVE  FindInv'
<1>1. /\ pc[t] = "lock" /\ cur' = [cur EXCEPT ![t] = root] /\ pc' = [pc EXCEPT ![t] = call[t].op]
      /\ call[t].op \in {"add", "del"} /\ lock = NULL
      /\ UNCHANGED <<tree, root, block, child, key, call>>
    BY DEF Lock, Goto, MutexFree, TypeInv, CallInv, heapVars
<1>2. pc'[t] \in {"add", "del"} /\ cur'[t] = root
      /\ \A u \in Threads : u # t => pc'[u] = pc[u] /\ cur'[u] = cur[u]
    BY <1>1 DEF TypeInv, TypeOK
<1>3. tree = "up" /\ \A u \in Threads : pc[u] \notin Inside
    BY <1>1, ConstantsAssumption DEF MutexInv, MutexHeldInside, Inside, Threads
<1>4. (root # Wild => Forest(child, Roots, Nodes)) /\ (root = Wild => Nodes = {})
    BY <1>3 DEF HeapInv, WholeInv, EmptyInv, Amid, Inside
<1>5. OnlyUnder(t, root)
    BY <1>4, AllUnderRoot
<1>6. FindAt(t)'
    BY <1>1, <1>2, <1>5 DEF FindInv, FindAt, OnlyUnder, Nodes, Calls, Args
<1> QED
    BY <1>1, <1>2, <1>6, FindAside

LEMMA DescendFind ==
    ASSUME LongKeys = {}, TypeInv, MutexInv, HeapInv, OrderInv, FindInv, NEW t \in Threads,
           AddDescend(t) \/ DelDescend(t)
    PROVE  FindInv'
<1> DEFINE c == cur[t]
<1>1. PICK s \in Side : Toward(call[t], key[c]) = s /\ Descend(t, s)
    BY DEF AddDescend, DelDescend
<1>2. /\ pc[t] \in {"add", "del"} /\ c \in Nodes /\ cur' = [cur EXCEPT ![t] = child[c][s]]
      /\ UNCHANGED <<block, child, key, pc, call>>
    BY <1>1 DEF AddDescend, DelDescend, Valid, Descend, heapVars
<1>3. cur'[t] = child[c][s] /\ \A u \in Threads : u # t => cur'[u] = cur[u]
    BY <1>2 DEF TypeInv, TypeOK
<1>4. Sorted(Nodes) /\ call[t].op \in {"add", "del"} /\ OnlyUnder(t, c)
    BY <1>2, SortedHere DEF Inside, HeapInv, HolderInv, FindInv, FindAt
<1>5. OnlyUnder(t, child[c][s])
    <2> SUFFICES ASSUME NEW x \in Nodes, key[x] = call[t].key PROVE x \in Under(child, child[c][s])
        BY DEF OnlyUnder
    <2> HIDE DEF c
    <2> QED
        BY <1>1, <1>2, <1>4, OneWay
<1>6. FindAt(t)'
    BY <1>2, <1>3, <1>5 DEF FindInv, FindAt, OnlyUnder, Nodes, Calls, Args
<1> QED
    BY <1>2, <1>3, <1>6, FindAside

\* The walk ends, or has found its node: the heap stays as it is.
LEMMA SettledFind ==
    ASSUME LongKeys = {}, TypeInv, HeapInv, OrderInv, FindInv, NEW t \in Threads,
           AddNoMemory(t) \/ AddDuplicate(t) \/ DelMissing(t) \/ DelFound(t) \/ Unlock(t)
    PROVE  FindInv'
<1>1. UNCHANGED <<block, child, key, call, cur>>
    BY DEF AddNoMemory, AddDuplicate, DelMissing, DelFound, Unlock, Fail, heapVars, walkVars
<1>2. /\ \A u \in Threads : u # t => pc'[u] = pc[u]
      /\ pc'[t] \in {"unlock", "return"} \/ (pc'[t] = "unlink" /\ DelFound(t))
    BY DEF AddNoMemory, AddDuplicate, DelMissing, DelFound, Unlock, Fail, Goto, TypeInv, TypeOK
<1>3. FindAt(t)'
    <2>1. CASE pc'[t] \in {"unlock", "return"}
        BY <1>1, <2>1 DEF FindInv, FindAt, Calls, Args
    <2>2. CASE pc'[t] = "unlink" /\ DelFound(t)
        <3>1. pc[t] = "del" /\ cur[t] \in Nodes /\ Toward(call[t], key[cur[t]]) = "here"
            BY <2>2 DEF DelFound, Valid
        <3>2. key[cur[t]] = call[t].key
            BY <3>1, HereIsKey DEF HeapInv, HolderInv
        <3> QED
            BY <1>1, <2>2, <3>2 DEF FindInv, FindAt, Calls, Args
    <2> QED
        BY <1>2, <2>1, <2>2
<1> QED
    BY <1>1, <1>2, <1>3, FindAside

LEMMA AddRootFind ==
    ASSUME TypeInv, MutexInv, HeapInv, ReadersInv, FindInv, NEW t \in Threads, AddRoot(t)
    PROVE  FindInv' /\ Nodes = {}
<1>1. PICK a \in Free : InitNode(t, a)
    BY DEF AddRoot
<1>2. /\ pc[t] = "add" /\ cur[t] = NULL /\ pc'[t] = "unlock" /\ call' = call
      /\ \A u \in Threads : u # t => pc'[u] = pc[u]
    BY DEF AddRoot, Goto, TypeInv, TypeOK
<1>3. root = NULL
    BY <1>2 DEF HeapInv, HolderInv, Hangs
<1>4. Nodes = {}
    <2>1. Forest(child, Roots, Nodes)
        BY <1>2, <1>3, ConstantsAssumption, WholeHere DEF Inside, Amid
    <2> QED
        BY <1>3, <2>1, ForestNone DEF Roots
<1>5. \A b \in Nodes' : b = a
    BY <1>1, <1>4 DEF InitNode, Nodes, TypeInv, TypeOK
<1>6. Distinct' /\ FindAt(t)'
    BY <1>2, <1>5 DEF Distinct, FindInv, FindAt, Calls, Args
<1> QED
    BY <1>2, <1>4, <1>6, FindInside DEF Inside

\* Where a leaf is to go there is no node with its key: nor is there anywhere else.
LEMMA AddLeafFind ==
    ASSUME LongKeys = {}, TypeInv, MutexInv, HeapInv, OrderInv, ReadersInv, FindInv,
           NEW t \in Threads, AddLeaf(t)
    PROVE  FindInv'
<1> DEFINE c == cur[t]
<1>1. PICK s \in Side, a \in Free : /\ Toward(call[t], key[c]) = s /\ child[c][s] = NULL
                                    /\ block' = [block EXCEPT ![a] = "raw"]
    BY DEF AddLeaf
<1>2. /\ pc[t] = "add" /\ c \in Nodes /\ pc'[t] = "init" /\ call' = call /\ key' = key
      /\ \A u \in Threads : u # t => pc'[u] = pc[u]
    BY DEF AddLeaf, Valid, Goto, TypeInv, TypeOK
<1>3. Nodes' = Nodes
    BY <1>1 DEF Nodes, Free, TypeInv, TypeOK
<1>4. Sorted(Nodes) /\ call[t].op = "add" /\ OnlyUnder(t, c)
    BY <1>2, SortedHere DEF Inside, HeapInv, HolderInv, FindInv, FindAt
<1>5. \A x \in Nodes : key[x] # call[t].key
    <2> HIDE DEF c
    <2> QED
        BY <1>1, <1>2, <1>4, OneWay
<1>6. Distinct' /\ FindAt(t)'
    BY <1>2, <1>3, <1>5 DEF Distinct, FindInv, FindAt, Calls, Args
<1> QED
    BY <1>2, <1>6, FindInside DEF Inside

LEMMA AddInitFind ==
    ASSUME TypeInv, MutexInv, HeapInv, ReadersInv, FindInv, NEW t \in Threads, AddInit(t)
    PROVE  FindInv'
<1> DEFINE a == tmp[t]
<1>1. /\ pc[t] = "init" /\ a \in Addr /\ block' = [block EXCEPT ![a] = "node"]
      /\ key' = [key EXCEPT ![a] = call[t].key] /\ call' = call /\ pc'[t] = "unlock"
      /\ \A u \in Threads : u # t => pc'[u] = pc[u]
    BY DEF AddInit, InitNode, Goto, TypeInv, TypeOK, CallInv
<1>2. block[a] = "raw"
    BY <1>1 DEF HeapInv, HolderInv
<1>3. /\ Nodes' = Nodes \cup {a} /\ a \notin Nodes /\ key'[a] = call[t].key
      /\ \A b \in Nodes : key'[b] = key[b] /\ key[b] # call[t].key
    BY <1>1, <1>2 DEF Nodes, TypeInv, TypeOK, FindInv, FindAt
<1>4. Distinct' /\ FindAt(t)'
    BY <1>1, <1>3 DEF Distinct, FindInv, FindAt, Calls, Args
<1> QED
    BY <1>1, <1>4, FindInside DEF Inside

LEMMA DelFind ==
    ASSUME TypeInv, MutexInv, HeapInv, ReadersInv, FindInv, NEW t \in Threads,
           DelUnlink(t) \/ DelBottom(t) \/ DelGraft(t)
    PROVE  FindInv'
<1>1. /\ pc[t] \in {"unlink", "bottom"} /\ pc'[t] \in {"bottom", "free"}
      /\ UNCHANGED <<block, key, call, cur>> /\ \A u \in Threads : u # t => pc'[u] = pc[u]
    BY DEF DelUnlink, DelBottom, DelGraft, Goto, heapVars, walkVars, TypeInv, TypeOK
<1>2. Distinct' /\ FindAt(t)'
    BY <1>1 DEF Distinct, FindInv, FindAt, Nodes, Calls, Args
<1> QED
    BY <1>1, <1>2, FindInside DEF Inside

\* The one node of the key goes.
LEMMA DelFreeFind ==
    ASSUME TypeInv, MutexInv, HeapInv, ReadersInv, FindInv, NEW t \in Threads, DelFree(t)
    PROVE  /\ FindInv' /\ cur[t] \in Nodes /\ key[cur[t]] = call[t].key
           /\ Nodes' = {a \in Nodes : key[a] # call[t].key}
           /\ \A a \in Nodes' : key'[a] = key[a] /\ value'[a] = value[a]
<1> DEFINE c == cur[t]
<1>1. /\ pc[t] = "free" /\ block' = [block EXCEPT ![c] = "free"] /\ key' = [key EXCEPT ![c] = NULL]
      /\ value' = [value EXCEPT ![c] = NULL] /\ pc'[t] = "unlock" /\ call' = call
      /\ \A u \in Threads : u # t => pc'[u] = pc[u]
    BY DEF DelFree, Release, Goto, TypeInv, TypeOK
<1>2. c \in Nodes /\ key[c] = call[t].key
    BY <1>1 DEF HeapInv, HolderInv, FindInv, FindAt
<1>3. Nodes' = Nodes \ {c} /\ \A a \in Nodes' : key'[a] = key[a] /\ value'[a] = value[a]
    BY <1>1, <1>2 DEF Nodes, TypeInv, TypeOK
<1>4. Distinct' /\ FindAt(t)'
    BY <1>1, <1>3 DEF Distinct, FindInv, FindAt, Calls, Args
<1>5. Nodes' = {a \in Nodes : key[a] # call[t].key}
    BY <1>2, <1>3 DEF FindInv, Distinct
<1> QED
    BY <1>1, <1>2, <1>3, <1>4, <1>5, FindInside DEF Inside

LEMMA SortedAlone ==
    ASSUME OrderInv, NEW t \in Threads, tree = "up", pc[t] # "free",
           \A u \in Threads : u # t => pc[u] = "idle"
    PROVE  Sorted(Nodes)
BY DEF OrderInv, SortedInv

\* A search without the mutex, while nobody else is in a call.
LEMMA LookupFind ==
    ASSUME LongKeys = {}, TypeInv, MutexInv, HeapInv, OrderInv, ReadersInv, FindInv,
           NEW t \in Threads, Lookup(t)
    PROVE  FindInv'
<1> DEFINE c == cur[t]
<1>1. /\ pc[t] \in {"lookup", "copy"} /\ UNCHANGED <<block, child, key, call>>
      /\ \A u \in Threads : u # t => pc'[u] = pc[u] /\ cur'[u] = cur[u]
    BY DEF Lookup, LookupMiss, LookupDescend, LookupHit, LookupCopy, LookupEnd, Goto,
           heapVars, walkVars, TypeInv, TypeOK
<1>2. call[t].op = "lookup" /\ tree = "up" /\ \A u \in Threads : u # t => pc[u] = "idle"
    BY <1>1 DEF ReadersInv, ReaderInv, ReaderAlone, Reads
<1>3. Sorted(Nodes)
    BY <1>1, <1>2, SortedAlone
<1>4. FindAt(t)'
    <2>1. CASE LookupMiss(t) \/ LookupCopy(t)
        <3>1. pc'[t] = "return"
            BY <2>1 DEF LookupMiss, LookupCopy, LookupEnd, Goto, TypeInv, TypeOK
        <3> QED
            BY <1>1, <3>1 DEF FindInv, FindAt, Calls, Args
    <2>2. CASE LookupDescend(t)
        <3>1. PICK s \in Side : Toward(call[t], key[c]) = s /\ cur' = [cur EXCEPT ![t] = child[c][s]]
            BY <2>2 DEF LookupDescend
        <3>2. pc[t] = "lookup" /\ pc' = pc /\ c \in Nodes /\ cur'[t] = child[c][s]
            BY <2>2, <3>1 DEF LookupDescend, Valid, TypeInv, TypeOK
        <3>3. OnlyUnder(t, c)
            BY <3>2 DEF FindInv, FindAt
        <3>4. OnlyUnder(t, child[c][s])
            <4> SUFFICES ASSUME NEW x \in Nodes, key[x] = call[t].key PROVE x \in Under(child, child[c][s])
                BY DEF OnlyUnder
            <4> HIDE DEF c
            <4> QED
                BY <1>2, <1>3, <3>1, <3>2, <3>3, OneWay
        <3> QED
            BY <1>1, <3>2, <3>4 DEF FindInv, FindAt, OnlyUnder, Nodes, Calls, Args
    <2>3. CASE LookupHit(t)
        <3>1. pc'[t] = "copy" /\ cur' = cur /\ c \in Nodes /\ Toward(call[t], key[c]) = "here"
            BY <2>3 DEF LookupHit, Valid, Goto, walkVars, TypeInv, TypeOK
        <3>2. key[c] = call[t].key
            BY <1>2, <3>1, HereIsKey
        <3> QED
            BY <1>1, <3>1, <3>2 DEF FindInv, FindAt, Calls, Args
    <2> QED
        BY <2>1, <2>2, <2>3 DEF Lookup
<1> QED
    BY <1>1, <1>4, FindAside

LEMMA InvokeFind ==
    ASSUME TypeInv, MutexInv, HeapInv, FindInv, ReadersInv, ReaderAlone', NEW t \in Threads, Invoke(t)
    PROVE  FindInv'
<1>1. PICK c \in Calls(t) :
        /\ call' = [call EXCEPT ![t] = c]
        /\ pc' = [pc EXCEPT ![t] = CASE c.op \in {"add", "del"} -> "lock"
                                     [] c.op = "lookup"         -> "lookup"
                                     [] c.op = "print_info"     -> "traverse"]
        /\ cur' = [cur EXCEPT ![t] = IF c.op = "lookup" THEN root ELSE NULL]
    BY DEF Invoke, Goto
<1>2. c.op \in {"add", "del", "lookup", "print_info"}
    BY CallsType
<1>3. pc[t] = "idle" /\ tree = "up" /\ UNCHANGED <<block, child, key>>
    BY DEF Invoke, heapVars
<1>4. /\ call'[t] = c /\ cur'[t] = (IF c.op = "lookup" THEN root ELSE NULL)
      /\ pc'[t] = CASE c.op \in {"add", "del"} -> "lock"
                    [] c.op = "lookup"         -> "lookup"
                    [] c.op = "print_info"     -> "traverse"
      /\ \A u \in Threads : u # t => pc'[u] = pc[u] /\ call'[u] = call[u] /\ cur'[u] = cur[u]
    BY <1>1 DEF TypeInv, TypeOK
<1>5. pc'[t] \in {"lock", "lookup", "traverse"} /\ (pc'[t] = "lookup" => c.op = "lookup")
    BY <1>2, <1>4
<1>6. call'[t] \in Calls(t)'
    <2>1. Calls(t)' = Calls(t)
        BY DEF Calls, Args
    <2> QED
        BY <1>4, <2>1
<1>7. FindAt(t)'
    <2>1. CASE pc'[t] # "lookup"
        BY <1>5, <1>6, <2>1 DEF FindAt
    <2>2. CASE pc'[t] = "lookup"
        <3>1. \A u \in Threads : u # t => pc[u] = "idle"
            BY <1>4, <1>5, <2>2 DEF ReaderAlone
        <3>2. (root # Wild => Forest(child, Roots, Nodes)) /\ (root = Wild => Nodes = {})
            BY <1>3, <3>1, ReaderTree DEF Inside
        <3>3. \A x \in Nodes : x \in Under(child, root)
            <4>1. CASE root = Wild
                BY <3>2, <4>1
            <4>2. CASE root # Wild
                BY <3>2, <4>2, ForestBelow, ChildFun DEF Roots, TypeInv, TypeOK
            <4> QED
                BY <4>1, <4>2
        <3> QED
            BY <1>3, <1>4, <1>5, <1>6, <2>2, <3>3 DEF FindAt, OnlyUnder, Nodes
    <2> QED
        BY <2>1, <2>2
<1> QED
    BY <1>3, <1>4, <1>7, FindAside

\* What is done to the tree as a whole, and between the calls.
LEMMA OutsideFind ==
    ASSUME TypeInv, MutexInv, FindInv, NEW t \in Threads,
           Initialize(t) \/ Refuse(t) \/ Return(t) \/ PrintEnd(t) \/ Terminate(t) \/ TerminateEnd(t)
    PROVE  FindInv'
<1>1. UNCHANGED <<block, child, key>>
    BY DEF Initialize, Refuse, Return, PrintEnd, Terminate, TerminateEnd, heapVars
<1>2. \A u \in Threads : u # t => pc'[u] = pc[u] /\ call'[u] = call[u] /\ cur'[u] = cur[u]
    BY DEF Initialize, Refuse, Return, PrintEnd, Terminate, TerminateEnd, Goto, walkVars, TypeInv, TypeOK
<1>3. pc'[t] \in {"idle", "return", "traverse"}
    BY DEF Initialize, Refuse, Return, PrintEnd, Terminate, TerminateEnd, Goto, TypeInv, TypeOK
<1>4. call'[t] = call[t] \/ call'[t].op \in {"none", "refused", "terminate"}
    BY DEF Initialize, Refuse, Return, PrintEnd, Terminate, TerminateEnd, NoCall, TypeInv, TypeOK
<1>5. FindAt(t)'
    BY <1>3, <1>4 DEF FindInv, FindAt, Reads, Calls, Args
<1> QED
    BY <1>1, <1>2, <1>5, FindAside

\* The nodes that terminate frees take their keys with them.
LEMMA VisitFind ==
    ASSUME TypeInv, MutexInv, FindInv, NEW t \in Threads, Visit(t)
    PROVE  FindInv'
<1>1. pc[t] = "traverse" /\ UNCHANGED <<pc, call, cur>>
    BY DEF Visit, walkVars
<1>2. CASE call[t].op # "terminate"
    <2>1. UNCHANGED <<block, child, key>>
        BY <1>2 DEF Visit, heapVars
    <2>2. FindAt(t)'
        BY <1>1 DEF FindInv, FindAt, Calls, Args
    <2> QED
        BY <1>1, <2>1, <2>2, FindAside
<1>3. CASE call[t].op = "terminate"
    <2>1. \A u \in Threads : u # t => pc[u] = "idle"
        BY <1>1, <1>3 DEF MutexInv, Ending
    <2>2. UNCHANGED <<block, key>> \/ Release(Head(stack[t]).node)
        BY DEF Visit, heapVars
    <2>3. \A a \in Nodes' : a \in Nodes /\ key'[a] = key[a]
        BY <2>2 DEF Release, Nodes, TypeInv, TypeOK
    <2>4. Distinct'
        BY <2>3 DEF FindInv, Distinct
    <2>5. ASSUME NEW u \in Threads PROVE FindAt(u)'
        <3>1. pc'[u] \in {"idle", "traverse"}
            BY <1>1, <2>1
        <3> QED
            BY <1>1, <3>1 DEF FindInv, FindAt, Calls, Args
    <2> QED
        BY <2>4, <2>5 DEF FindInv
<1> QED
    BY <1>2, <1>3

LEMMA StutterFind ==
    ASSUME FindInv, UNCHANGED <<block, child, key, pc, call, cur>>
    PROVE  FindInv'
BY DEF FindInv, Distinct, FindAt, OnlyUnder, Nodes, Calls, Args

LEMMA FindInit == Init => FindInv
<1> SUFFICES ASSUME Init PROVE FindInv
    OBVIOUS
<1>1. Nodes = {} /\ \A t \in Threads : pc[t] = "idle" /\ call[t].op = "none"
    BY DEF Init, Nodes, NoCall
<1> QED
    BY <1>1 DEF FindInv, Distinct, FindAt, Reads

LEMMA FindNext ==
    ASSUME LongKeys = {}, TypeInv, MutexInv, HeapInv, OrderInv, ReadersInv, FindInv,
           [Next /\ ReaderAlone']_vars
    PROVE  FindInv'
<1>1. CASE UNCHANGED vars
    BY <1>1, StutterFind DEF vars, heapVars, walkVars
<1>2. ASSUME NEW t \in Threads, Start(t), ReaderAlone' PROVE FindInv'
    BY <1>2, InvokeFind, OutsideFind DEF Start
<1>3. ASSUME NEW t \in Threads, Run(t) PROVE FindInv'
    <2>1. CASE Lock(t) \/ Unlock(t) \/ Return(t)
        BY <2>1, LockFind, SettledFind, OutsideFind
    <2>2. CASE Add(t)
        BY <2>2, AddRootFind, SettledFind, DescendFind, AddLeafFind, AddInitFind DEF Add
    <2>3. CASE Del(t)
        BY <2>3, DescendFind, SettledFind, DelFind, DelFreeFind DEF Del
    <2>4. CASE Lookup(t)
        BY <2>4, LookupFind
    <2>5. CASE Traverse(t)
        BY <2>5, VisitFind, OutsideFind DEF Traverse
    <2>6. CASE Fault(t)
        BY <2>6, StutterFind DEF Fault, heapVars, walkVars
    <2> QED
        BY <1>3, <2>1, <2>2, <2>3, <2>4, <2>5, <2>6 DEF Run
<1> QED
    BY <1>1, <1>2, <1>3 DEF Next

-----------------------------------------------------------------------------
(* A thread has its answer from the step that gives it until it returns.     *)

AnswerAt(t) ==
    /\ pc[t] \in {"unlock", "return"} <=> ret[t] # NULL
    /\ pc[t] = "idle" => call[t] = NoCall
    /\ call[t].op \notin Reads \/ pc[t] \in {"lookup", "copy"} => out[t] = <<>>

AnswerInv == \A t \in Threads : AnswerAt(t)

LEMMA AnswerStep ==
    ASSUME AnswerInv, NEW t \in Threads, AnswerAt(t)',
           \A u \in Threads : u # t => /\ pc'[u] = pc[u] /\ ret'[u] = ret[u]
                                       /\ call'[u] = call[u] /\ out'[u] = out[u]
    PROVE  AnswerInv'
BY DEF AnswerInv, AnswerAt

LEMMA Answered == 0 # NULL /\ -1 # NULL
BY ConstantsAssumption

LEMMA StartAnswer ==
    ASSUME TypeInv, AnswerInv, NEW t \in Threads, Start(t)
    PROVE  AnswerInv'
<1>1. pc[t] = "idle" /\ ret[t] = NULL /\ call[t] = NoCall /\ out[t] = <<>>
    <2>1. pc[t] = "idle"
        BY DEF Start, Initialize, Invoke, Refuse, Terminate
    <2>2. ret[t] = NULL /\ call[t] = NoCall
        BY <2>1 DEF AnswerInv, AnswerAt
    <2>3. call[t].op \notin Reads
        BY <2>2 DEF NoCall, Reads
    <2> QED
        BY <2>1, <2>2, <2>3 DEF AnswerInv, AnswerAt
<1>2. CASE Initialize(t)
    BY <1>2 DEF Initialize, AnswerInv, AnswerAt, frameVars
<1>3. CASE Refuse(t)
    <2>1. /\ pc'[t] = "return" /\ ret'[t] = -1 /\ call'[t].op = "refused" /\ out' = out
          /\ \A u \in Threads : u # t => pc'[u] = pc[u] /\ ret'[u] = ret[u] /\ call'[u] = call[u]
        BY <1>3 DEF Refuse, Goto, Answer, NoCall, frameVars, TypeInv, TypeOK
    <2>2. AnswerAt(t)'
        BY <1>1, <2>1, Answered DEF AnswerAt
    <2> QED
        BY <2>1, <2>2, AnswerStep
<1>4. CASE Terminate(t)
    <2>1. /\ pc'[t] = "traverse" /\ ret' = ret /\ call'[t].op = "terminate" /\ out' = out
          /\ \A u \in Threads : u # t => pc'[u] = pc[u] /\ call'[u] = call[u]
        BY <1>4 DEF Terminate, Goto, NoCall, TypeInv, TypeOK
    <2>2. AnswerAt(t)'
        BY <1>1, <2>1 DEF AnswerAt
    <2> QED
        BY <2>1, <2>2, AnswerStep
<1>5. CASE Invoke(t)
    <2>1. PICK c \in Calls(t) :
            /\ call' = [call EXCEPT ![t] = c]
            /\ pc' = [pc EXCEPT ![t] = CASE c.op \in {"add", "del"} -> "lock"
                                         [] c.op = "lookup"         -> "lookup"
                                         [] c.op = "print_info"     -> "traverse"]
        BY <1>5 DEF Invoke, Goto
    <2>2. c.op \in {"add", "del", "lookup", "print_info"}
        BY CallsType
    <2>3. /\ ret' = ret /\ out' = out
          /\ pc'[t] = CASE c.op \in {"add", "del"} -> "lock"
                        [] c.op = "lookup"         -> "lookup"
                        [] c.op = "print_info"     -> "traverse"
          /\ \A u \in Threads : u # t => pc'[u] = pc[u] /\ call'[u] = call[u]
        BY <1>5, <2>1 DEF Invoke, TypeInv, TypeOK
    <2>4. pc'[t] \in {"lock", "lookup", "traverse"}
        BY <2>2, <2>3
    <2>5. AnswerAt(t)'
        BY <1>1, <2>3, <2>4 DEF AnswerAt
    <2> QED
        BY <2>3, <2>5, AnswerStep
<1> QED
    BY <1>2, <1>3, <1>4, <1>5 DEF Start

LEMMA WriterAnswer ==
    ASSUME TypeInv, ReadersInv, AnswerInv, NEW t \in Threads, Lock(t) \/ Unlock(t) \/ Add(t) \/ Del(t)
    PROVE  AnswerInv'
<1>1. pc[t] \in Inside \cup {"lock"} /\ UNCHANGED <<call, out>>
    BY DEF Lock, Unlock, Add, AddRoot, AddNoMemory, AddDuplicate, AddDescend, AddLeaf, AddInit,
           Del, DelDescend, DelMissing, DelFound, DelUnlink, DelBottom, DelGraft, DelFree,
           Descend, Fail, Inside, frameVars
<1>2. \A u \in Threads : u # t => pc'[u] = pc[u] /\ ret'[u] = ret[u]
    BY DEF Lock, Unlock, Add, AddRoot, AddNoMemory, AddDuplicate, AddDescend, AddLeaf, AddInit,
           Del, DelDescend, DelMissing, DelFound, DelUnlink, DelBottom, DelGraft, DelFree,
           Descend, Fail, Goto, Answer, TypeInv, TypeOK
<1>3. /\ pc'[t] \in Inside \cup {"return"}
      /\ \/ pc[t] # "unlock" /\ pc'[t] # "unlock" /\ pc'[t] # "return" /\ ret'[t] = ret[t]
         \/ pc[t] # "unlock" /\ pc'[t] = "unlock" /\ ret'[t] \in {0, -1}
         \/ pc[t] = "unlock" /\ pc'[t] = "return" /\ ret'[t] = ret[t]
    <2>1. CASE Lock(t)
        BY <2>1 DEF Lock, Goto, TypeInv, TypeOK, CallInv, Inside
    <2>2. CASE Unlock(t)
        BY <2>2 DEF Unlock, Goto, TypeInv, TypeOK
    <2>3. CASE Add(t)
        BY <2>3 DEF Add, AddRoot, AddNoMemory, AddDuplicate, AddDescend, AddLeaf, AddInit,
                    Descend, Fail, Goto, Answer, Inside, TypeInv, TypeOK
    <2>4. CASE Del(t)
        BY <2>4 DEF Del, DelDescend, DelMissing, DelFound, DelUnlink, DelBottom, DelGraft, DelFree,
                    Descend, Fail, Goto, Answer, Inside, TypeInv, TypeOK
    <2> QED
        BY <2>1, <2>2, <2>3, <2>4
<1>4. call[t].op \notin Reads
    BY <1>1 DEF ReadersInv, ReaderInv, Inside
<1>5. AnswerAt(t)'
    BY <1>1, <1>3, <1>4, Answered DEF AnswerInv, AnswerAt, Inside
<1> QED
    BY <1>1, <1>2, <1>5, AnswerStep

LEMMA ReaderAnswer ==
    ASSUME TypeInv, ReadersInv, AnswerInv, NEW t \in Threads, Lookup(t) \/ Traverse(t) \/ Return(t)
    PROVE  AnswerInv'
<1>1. \A u \in Threads : u # t => /\ pc'[u] = pc[u] /\ ret'[u] = ret[u]
                                  /\ call'[u] = call[u] /\ out'[u] = out[u]
    <2>1. CASE Lookup(t)
        BY <2>1 DEF Lookup, LookupMiss, LookupDescend, LookupHit, LookupCopy, LookupEnd, Goto, Answer,
                    frameVars, TypeInv, TypeOK
    <2>2. CASE Traverse(t) \/ Return(t)
        BY <2>2 DEF Traverse, Visit, PrintEnd, TerminateEnd, Return, Goto, Answer,
                    frameVars, TypeInv, TypeOK
    <2> QED
        BY <2>1, <2>2
<1>2. AnswerAt(t)'
    <2>1. CASE LookupMiss(t) \/ LookupCopy(t)
        <3>1. pc[t] \in {"lookup", "copy"} /\ pc'[t] = "return" /\ ret'[t] = 0 /\ call' = call
            BY <2>1 DEF LookupMiss, LookupCopy, LookupEnd, Goto, Answer, TypeInv, TypeOK
        <3>2. call[t].op \in Reads
            BY <3>1 DEF ReadersInv, ReaderInv, Reads
        <3> QED
            BY <3>1, <3>2, Answered DEF AnswerAt
    <2>2. CASE LookupDescend(t) \/ LookupHit(t)
        <3>1. pc[t] = "lookup" /\ pc'[t] \in {"lookup", "copy"} /\ UNCHANGED <<ret, call, out>>
            BY <2>2 DEF LookupDescend, LookupHit, Goto, frameVars, TypeInv, TypeOK
        <3> QED
            BY <3>1 DEF AnswerInv, AnswerAt
    <2>3. CASE Visit(t)
        <3>1. pc[t] = "traverse" /\ UNCHANGED <<pc, ret, call>>
              /\ (call[t].op # "print_info" => out' = out)
            BY <2>3 DEF Visit
        <3>2. call[t].op = "print_info" \/ call[t].op \notin Reads
            BY <3>1 DEF ReadersInv, ReaderInv, Reads
        <3> QED
            BY <3>1, <3>2 DEF AnswerInv, AnswerAt, Reads
    <2>4. CASE PrintEnd(t) \/ TerminateEnd(t)
        <3>1. pc[t] = "traverse" /\ pc'[t] = "return" /\ ret'[t] = 0 /\ UNCHANGED <<call, out>>
            BY <2>4 DEF PrintEnd, TerminateEnd, Goto, Answer, frameVars, TypeInv, TypeOK
        <3> QED
            BY <3>1, Answered DEF AnswerInv, AnswerAt
    <2>5. CASE Return(t)
        <3>1. pc'[t] = "idle" /\ ret'[t] = NULL /\ call'[t] = NoCall /\ out'[t] = <<>>
            BY <2>5 DEF Return, Goto, Answer, TypeInv, TypeOK
        <3> QED
            BY <3>1 DEF AnswerAt
    <2> QED
        BY <2>1, <2>2, <2>3, <2>4, <2>5 DEF Lookup, Traverse
<1> QED
    BY <1>1, <1>2, AnswerStep

LEMMA AnswerInit == Init => AnswerInv
BY DEF Init, AnswerInv, AnswerAt

LEMMA AnswerNext ==
    ASSUME TypeInv, ReadersInv, AnswerInv, [Next]_vars
    PROVE  AnswerInv'
<1>1. CASE UNCHANGED vars
    BY <1>1 DEF vars, frameVars, AnswerInv, AnswerAt
<1>2. ASSUME NEW t \in Threads, Fault(t) PROVE AnswerInv'
    BY <1>2 DEF Fault, frameVars, AnswerInv, AnswerAt
<1> QED
    BY <1>1, <1>2, StartAnswer, WriterAnswer, ReaderAnswer DEF Next, Run

-----------------------------------------------------------------------------
(* print_info in a program whose readers run alone: the recursion prints     *)
(* the keys in ascending order and passes over none.                         *)

\* The nodes that a frame of the recursion has still to print.
ToPrint(f) ==
    CASE f.at = "pre"  -> Under(child, f.node) \cap Nodes
      [] f.at = "in"   -> ({f.node} \cup Under(child, child[f.node]["right"])) \cap Nodes
      [] f.at = "post" -> {}

Waiting(st) == UNION {ToPrint(st[i]) : i \in DOMAIN st}

Rising(o)     == \A i, j \in DOMAIN o : i < j => o[i] < o[j]
KeysPrinted(o) == \A i \in DOMAIN o : \E x \in Nodes : o[i] = key[x]
AllSeen(o, st) == \A x \in Nodes : x \in Waiting(st) \/ \E i \in DOMAIN o : o[i] = key[x]
Behind(o, st) == \A i \in DOMAIN o, x \in Waiting(st) : o[i] < key[x]
InLine(st)    == \A i, j \in DOMAIN st : i < j =>
                     \A x \in ToPrint(st[i]), y \in ToPrint(st[j]) : key[x] < key[y]

Printed(o, st) == Rising(o) /\ KeysPrinted(o) /\ AllSeen(o, st) /\ Behind(o, st) /\ InLine(st)

Printing(t) == pc[t] = "traverse" /\ call[t].op = "print_info"
PrintInv == \A t \in Threads : Printing(t) => Printed(out[t], stack[t])

\* Each frame of st2 has a part of the work of a frame of st, in its order.
Shared(st, st2, m) ==
    /\ m \in [DOMAIN st2 -> DOMAIN st]
    /\ \A i \in DOMAIN st2 : ToPrint(st2[i]) \subseteq ToPrint(st[m[i]])
    /\ \A i, j \in DOMAIN st2 : i < j =>
          \/ m[i] < m[j]
          \/ m[i] = m[j] /\ \A x \in ToPrint(st2[i]), y \in ToPrint(st2[j]) : key[x] < key[y]

LEMMA SharedLine ==
    ASSUME NEW st, NEW st2, NEW m, Shared(st, st2, m), InLine(st)
    PROVE  InLine(st2) /\ Waiting(st2) \subseteq Waiting(st)
<1>1. Waiting(st2) \subseteq Waiting(st)
    BY DEF Shared, Waiting
<1>2. ASSUME NEW i \in DOMAIN st2, NEW j \in DOMAIN st2, i < j,
             NEW x \in ToPrint(st2[i]), NEW y \in ToPrint(st2[j])
      PROVE  key[x] < key[y]
    <2>1. x \in ToPrint(st[m[i]]) /\ y \in ToPrint(st[m[j]]) /\ m[i] \in DOMAIN st /\ m[j] \in DOMAIN st
        BY DEF Shared
    <2>2. m[i] < m[j] \/ key[x] < key[y]
        BY <1>2 DEF Shared
    <2> QED
        BY <2>1, <2>2 DEF InLine
<1> QED
    BY <1>1, <1>2 DEF InLine

\* A step of the recursion that prints nothing.
LEMMA PrintNone ==
    ASSUME NEW o, NEW st, NEW st2, NEW m, Printed(o, st), Shared(st, st2, m),
           Waiting(st) \subseteq Waiting(st2)
    PROVE  Printed(o, st2)
<1>1. InLine(st2) /\ Waiting(st2) \subseteq Waiting(st)
    BY SharedLine DEF Printed
<1>2. Behind(o, st2)
    BY <1>1 DEF Printed, Behind
<1>3. AllSeen(o, st2)
    BY DEF Printed, AllSeen
<1> QED
    BY <1>1, <1>2, <1>3 DEF Printed

\* A step that prints the first of the nodes that are waiting.
LEMMA PrintOne ==
    ASSUME OrderInv, NEW S, NEW o \in Seq(S), NEW st, NEW st2, NEW m, Printed(o, st),
           Shared(st, st2, m), NEW n \in Nodes, key[n] \in S, n \in Waiting(st),
           Waiting(st) \subseteq Waiting(st2) \cup {n}, \A x \in Waiting(st2) : key[n] < key[x]
    PROVE  Printed(Append(o, key[n]), st2)
<1> DEFINE o2 == Append(o, key[n])
<1>1. InLine(st2) /\ Waiting(st2) \subseteq Waiting(st)
    BY SharedLine DEF Printed
<1>2. /\ Len(o) \in Nat /\ DOMAIN o = 1..Len(o) /\ DOMAIN o2 = 1..(Len(o) + 1)
      /\ \A i \in 1..Len(o) : o2[i] = o[i]
      /\ o2[Len(o) + 1] = key[n]
    BY AppendProperties, LenProperties
<1> HIDE DEF o2
<1>3. ASSUME NEW i \in DOMAIN o2
      PROVE  (i \in DOMAIN o /\ o2[i] = o[i]) \/ (i = Len(o) + 1 /\ o2[i] = key[n])
    <2>1. i \in 1..Len(o) \/ i = Len(o) + 1
        BY <1>2
    <2> QED
        BY <1>2, <2>1
<1>4. \A i \in DOMAIN o : o[i] < key[n]
    BY DEF Printed, Behind
<1>5. Rising(o2)
    <2> SUFFICES ASSUME NEW i \in DOMAIN o2, NEW j \in DOMAIN o2, i < j PROVE o2[i] < o2[j]
        BY DEF Rising
    <2>1. i \in DOMAIN o /\ o2[i] = o[i]
        BY <1>2, <1>3
    <2>2. CASE j \in DOMAIN o
        <3>1. o[i] < o[j]
            BY <2>1, <2>2 DEF Printed, Rising
        <3> QED
            BY <1>2, <2>1, <2>2, <3>1
    <2>3. CASE j \notin DOMAIN o
        BY <1>3, <1>4, <2>1, <2>3
    <2> QED
        BY <2>2, <2>3
<1>6. KeysPrinted(o2)
    BY <1>3 DEF Printed, KeysPrinted
<1>7. AllSeen(o2, st2)
    <2> SUFFICES ASSUME NEW x \in Nodes, x \notin Waiting(st2)
                 PROVE  \E i \in DOMAIN o2 : o2[i] = key[x]
        BY DEF AllSeen
    <2>1. CASE x = n
        BY <1>2, <2>1
    <2>2. CASE x # n
        <3>1. PICK i \in DOMAIN o : o[i] = key[x]
            BY <2>2 DEF Printed, AllSeen
        <3> QED
            BY <1>2, <3>1
    <2> QED
        BY <2>1, <2>2
<1>8. Behind(o2, st2)
    <2> SUFFICES ASSUME NEW i \in DOMAIN o2, NEW x \in Waiting(st2) PROVE o2[i] < key[x]
        BY DEF Behind
    <2>1. CASE i \in DOMAIN o /\ o2[i] = o[i]
        BY <1>1, <2>1 DEF Printed, Behind
    <2>2. CASE o2[i] = key[n]
        BY <2>2
    <2> QED
        BY <1>3, <2>1, <2>2
<1>9. Printed(o2, st2)
    BY <1>1, <1>5, <1>6, <1>7, <1>8 DEF Printed
<1> QED
    BY <1>9 DEF o2

\* In a forest nothing is below itself.
LEMMA NotBelow ==
    ASSUME NEW f \in Fun, NEW R, NEW N, Forest(f, R, N), NEW a \in N, NEW s \in Side
    PROVE  a \notin Under(f, f[a][s])
<1> SUFFICES ASSUME a \in Under(f, f[a][s]) PROVE FALSE
    OBVIOUS
<1> DEFINE c == f[a][s]
           S == N \ Under(f, a)
<1>1. c # NULL /\ c \in N \ R /\ a \in Addr
    BY UnderNull DEF Forest
<1>2. c \in Under(f, a) /\ Under(f, a) \in SUBSET Addr
    BY <1>1, UnderSelf, UnderClosed DEF Closed
<1>3. ASSUME NEW b \in S, NEW q \in Side, f[b][q] # NULL
      PROVE  f[b][q] \in S
    <2>1. f[b][q] \in N
        BY <1>3 DEF Forest
    <2>2. CASE f[b][q] = c
        <3>1. b = a
            BY <1>1, <1>3, <2>2 DEF Forest
        <3> QED
            BY <1>1, <1>3, <3>1, UnderSelf
    <2>3. CASE f[b][q] = a /\ f[b][q] # c
        <3>1. PICK d \in Under(f, c), r \in Side : f[d][r] = a
            BY <1>1, <2>3, UnderParent DEF Ptr, Forest
        <3>2. d \in Under(f, a) /\ d \in N
            <4>1. Under(f, c) \subseteq Under(f, a)
                BY <1>2, UnderDeeper
            <4>2. Under(f, c) \subseteq N
                BY <1>1, UnderForest
            <4> QED
                BY <3>1, <4>1, <4>2
        <3>3. d = b
            BY <1>3, <2>3, <3>1, <3>2 DEF Forest
        <3> QED
            BY <1>3, <3>2, <3>3
    <2>4. CASE f[b][q] # a
        <3>1. f[b][q] \notin Under(f, a)
            BY <1>3, <2>4, UnderOneParent
        <3> QED
            BY <2>1, <3>1
    <2> QED
        BY <2>2, <2>3, <2>4
<1>4. S \in SUBSET Addr /\ Closed(f, S)
    BY <1>3 DEF Closed, Forest
<1>5. R \subseteq S
    <2> SUFFICES ASSUME NEW r \in R, r \in Under(f, a) PROVE FALSE
        BY DEF Forest
    <2>1. r \in Under(f, f[a][s])
        BY UnderDeeper
    <2> QED
        BY <2>1, UnderNoRoot
<1>6. a \in S
    BY <1>4, <1>5 DEF Forest, Reached
<1> QED
    BY <1>1, <1>6, UnderSelf

\* What is on the right of a node has greater keys.
LEMMA SortedRight ==
    ASSUME TypeInv, OrderInv, FindInv, Sorted(Nodes), NEW n \in Nodes,
           NEW x \in Under(child, child[n]["right"]) \cap Nodes, x # n
    PROVE  key[n] < key[x]
<1>1. key[x] >= key[n]
    BY DEF Sorted, Ordered, Side
<1>2. key[x] # key[n]
    BY DEF FindInv, Distinct
<1>3. key[x] \in Int /\ key[n] \in Int
    BY NodeKey
<1> QED
    BY <1>1, <1>2, <1>3

\* What waits below the frame on top.
Rest(st) == UNION {ToPrint(st[i]) : i \in DOMAIN st \ {1}}

LEMMA WaitingTop ==
    ASSUME NEW st \in Seq(Frame), st # <<>>
    PROVE  Waiting(st) = ToPrint(st[1]) \cup Rest(st)
<1>1. 1 \in DOMAIN st
    BY LenProperties, EmptySeq
<1> QED
    BY <1>1 DEF Waiting, Rest

\* A frame that has nothing left to print goes.
LEMMA TopGone ==
    ASSUME NEW st \in Seq(Frame), st # <<>>
    PROVE  /\ \E m : Shared(st, Tail(st), m)
           /\ Waiting(Tail(st)) = Rest(st)
<1> DEFINE w == Tail(st)
           m == [i \in DOMAIN w |-> i + 1]
<1>1. /\ w \in Seq(Frame) /\ Len(w) = Len(st) - 1 /\ Len(st) \in Nat \ {0}
      /\ \A i \in 1..(Len(st) - 1) : w[i] = st[i + 1]
    BY RestOf
<1> HIDE DEF w
<1>2. DOMAIN w = 1..(Len(st) - 1) /\ DOMAIN st = 1..Len(st)
    BY <1>1, LenProperties
<1>3. \A i \in DOMAIN w : m[i] = i + 1 /\ m[i] \in DOMAIN st /\ m[i] # 1 /\ w[i] = st[m[i]]
    BY <1>1, <1>2
<1>4. m \in [DOMAIN w -> DOMAIN st]
    BY <1>3
<1>5. \A i, j \in DOMAIN w : i < j => m[i] < m[j]
    BY <1>2, <1>3
<1> HIDE DEF m
<1>6. Shared(st, w, m)
    BY <1>3, <1>4, <1>5 DEF Shared
<1>7. Waiting(w) \subseteq Rest(st)
    BY <1>3 DEF Waiting, Rest
<1>8. Rest(st) \subseteq Waiting(w)
    <2> SUFFICES ASSUME NEW i \in DOMAIN st \ {1} PROVE ToPrint(st[i]) \subseteq Waiting(w)
        BY DEF Rest
    <2>1. i - 1 \in DOMAIN w /\ (i - 1) + 1 = i
        BY <1>1, <1>2
    <2>2. w[i - 1] = st[i]
        BY <1>1, <1>2, <2>1
    <2> QED
        BY <2>1, <2>2 DEF Waiting
<1>9. Waiting(w) = Rest(st) /\ \E mm : Shared(st, w, mm)
    BY <1>6, <1>7, <1>8
<1> QED
    BY <1>9 DEF w

\* A frame on top is replaced by one that prints a part of what it had left,
\* preceded by the subtree under p.
LEMMA TopReplaced ==
    ASSUME TypeInv, NEW st \in Seq(Frame), st # <<>>, NEW h \in Frame, NEW p \in Ptr,
           Under(child, p) \subseteq Nodes,
           Under(child, p) \cup ToPrint(h) \subseteq ToPrint(st[1]),
           \A x \in Under(child, p), y \in ToPrint(h) : key[x] < key[y]
    PROVE  LET st2 == Frames(p) \o <<h>> \o Tail(st)
           IN  /\ \E m : Shared(st, st2, m)
               /\ Waiting(st2) = Under(child, p) \cup ToPrint(h) \cup Rest(st)
<1> DEFINE st2 == Frames(p) \o <<h>> \o Tail(st)
<1>1. DOMAIN st = 1..Len(st) /\ Len(st) \in Nat \ {0}
    BY LenProperties, EmptySeq
<1>2. CASE p = NULL
    <2> DEFINE m == [i \in DOMAIN st2 |-> i]
    <2>1. Under(child, p) = {}
        BY <1>2, UnderNull
    <2>2. DOMAIN st2 = DOMAIN st /\ \A i \in DOMAIN st2 : st2[i] = IF i = 1 THEN h ELSE st[i]
        BY <1>2, NoPush DEF Frames
    <2> HIDE DEF st2
    <2>3. \A i \in DOMAIN st2 : ToPrint(st2[i]) \subseteq ToPrint(st[i])
        BY <1>1, <2>2
    <2>4. Shared(st, st2, m)
        BY <1>1, <2>2, <2>3 DEF Shared
    <2>5. Waiting(st2) = ToPrint(h) \cup Rest(st)
        <3>1. 1 \in DOMAIN st2
            BY <1>1, <2>2
        <3>2. Waiting(st2) \subseteq ToPrint(h) \cup Rest(st)
            BY <2>2 DEF Waiting, Rest
        <3>3. ToPrint(h) \cup Rest(st) \subseteq Waiting(st2)
            BY <2>2, <3>1 DEF Waiting, Rest
        <3> QED
            BY <3>2, <3>3
    <2> HIDE DEF m
    <2> QED
        BY <2>1, <2>4, <2>5 DEF st2
<1>3. CASE p # NULL
    <2> DEFINE g == [node |-> p, at |-> "pre"]
               m == [i \in DOMAIN st2 |-> IF i \in {1, 2} THEN 1 ELSE i - 1]
    <2>1. g \in Frame /\ ToPrint(g) = Under(child, p)
        BY <1>3 DEF Frame, Ptr, ToPrint
    <2>2. Frames(p) = <<g>>
        BY <1>3 DEF Frames
    <2> HIDE DEF g
    <2>3. /\ DOMAIN st2 = 1..(Len(st) + 1)
          /\ \A i \in DOMAIN st2 : st2[i] = IF i = 1 THEN g ELSE IF i = 2 THEN h ELSE st[i - 1]
        BY <2>1, <2>2, Push
    <2> HIDE DEF st2
    <2>4. ASSUME NEW i \in DOMAIN st2
          PROVE  m[i] \in DOMAIN st /\ ToPrint(st2[i]) \subseteq ToPrint(st[m[i]])
        <3>1. CASE i \in {1, 2}
            BY <1>1, <2>1, <2>3, <3>1
        <3>2. CASE i \notin {1, 2}
            <4>1. i - 1 \in 1..Len(st) /\ m[i] = i - 1
                BY <1>1, <2>3, <3>2
            <4> QED
                BY <1>1, <2>3, <3>2, <4>1
        <3> QED
            BY <3>1, <3>2
    <2>5. ASSUME NEW i \in DOMAIN st2, NEW j \in DOMAIN st2, i < j
          PROVE  \/ m[i] < m[j]
                 \/ m[i] = m[j] /\ \A x \in ToPrint(st2[i]), y \in ToPrint(st2[j]) : key[x] < key[y]
        <3>1. CASE j = 2
            <4>1. i = 1
                BY <1>1, <2>3, <2>5, <3>1
            <4>2. m[i] = 1 /\ m[j] = 1 /\ st2[i] = g /\ st2[j] = h
                BY <2>3, <3>1, <4>1
            <4> QED
                BY <2>1, <4>2
        <3>2. CASE j # 2
            <4>1. j > 2
                BY <1>1, <2>3, <2>5, <3>2
            <4>2. m[j] = j - 1 /\ m[i] = (IF i \in {1, 2} THEN 1 ELSE i - 1)
                BY <4>1
            <4> QED
                BY <1>1, <2>3, <2>5, <4>1, <4>2
        <3> QED
            BY <3>1, <3>2
    <2>6. m \in [DOMAIN st2 -> DOMAIN st]
        BY <2>4
    <2> HIDE DEF m
    <2>7. Shared(st, st2, m)
        BY <2>4, <2>5, <2>6 DEF Shared
    <2>8. Waiting(st2) \subseteq Under(child, p) \cup ToPrint(h) \cup Rest(st)
        <3> SUFFICES ASSUME NEW i \in DOMAIN st2
                     PROVE  ToPrint(st2[i]) \subseteq Under(child, p) \cup ToPrint(h) \cup Rest(st)
            BY DEF Waiting
        <3>1. CASE i \in {1, 2}
            BY <2>1, <2>3, <3>1
        <3>2. CASE i \notin {1, 2}
            <4>1. i - 1 \in DOMAIN st \ {1} /\ st2[i] = st[i - 1]
                BY <1>1, <2>3, <3>2
            <4> QED
                BY <4>1 DEF Rest
        <3> QED
            BY <3>1, <3>2
    <2>9. Under(child, p) \cup ToPrint(h) \subseteq Waiting(st2)
        <3>1. 1 \in DOMAIN st2 /\ st2[1] = g /\ 2 \in DOMAIN st2 /\ st2[2] = h
            BY <1>1, <2>3
        <3> QED
            BY <2>1, <3>1 DEF Waiting
    <2>10. Rest(st) \subseteq Waiting(st2)
        <3> SUFFICES ASSUME NEW i \in DOMAIN st \ {1} PROVE ToPrint(st[i]) \subseteq Waiting(st2)
            BY DEF Rest
        <3>1. i + 1 \in DOMAIN st2 /\ i + 1 \notin {1, 2} /\ (i + 1) - 1 = i
            BY <1>1, <2>3
        <3>2. st2[i + 1] = st[i]
            BY <2>3, <3>1
        <3> QED
            BY <3>1, <3>2 DEF Waiting
    <2>11. Waiting(st2) = Under(child, p) \cup ToPrint(h) \cup Rest(st)
        BY <2>8, <2>9, <2>10
    <2> QED
        BY <2>7, <2>11 DEF st2
<1> QED
    BY <1>2, <1>3

LEMMA PrintedSame ==
    ASSUME NEW t \in Threads, Printed(out[t], stack[t]), UNCHANGED <<block, child, key>>,
           out'[t] = out[t], stack'[t] = stack[t]
    PROVE  Printed(out[t], stack[t])'
<1>1. Nodes' = Nodes /\ \A f : ToPrint(f)' = ToPrint(f)
    BY DEF Nodes, ToPrint
<1>2. Waiting(stack[t])' = Waiting(stack[t])
    BY <1>1 DEF Waiting
<1>3. AllSeen(out[t], stack[t])' /\ Behind(out[t], stack[t])'
    BY <1>1, <1>2 DEF Printed, AllSeen, Behind
<1>4. InLine(stack[t])'
    BY <1>1 DEF Printed, InLine
<1> QED
    BY <1>1, <1>3, <1>4 DEF Printed, Rising, KeysPrinted

LEMMA StartPrint ==
    ASSUME TypeInv, MutexInv, HeapInv, NEW t \in Threads, tree = "up", pc[t] \notin Inside,
           \A u \in Threads : u # t => pc[u] = "idle"
    PROVE  Printed(<<>>, Frames(root))
<1>1. (root # Wild => Forest(child, Roots, Nodes)) /\ (root = Wild => Nodes = {})
    BY ReaderTree
<1> DEFINE st == Frames(root)
           f  == [node |-> root, at |-> "pre"]
<1>2. (root = NULL => st = <<>>) /\ (root # NULL => st = <<f>>)
    BY DEF Frames
<1>3. ToPrint(f) = Under(child, root) \cap Nodes
    BY DEF ToPrint
<1>4. Nodes \subseteq Waiting(st)
    <2>1. CASE root = Wild
        BY <1>1, <2>1
    <2>2. CASE root # Wild
        <3>1. Under(child, root) = Nodes
            BY <1>1, <2>2, ForestBelow, ChildFun DEF Roots, TypeInv, TypeOK
        <3>2. CASE root = NULL
            BY <3>1, <3>2, UnderNull
        <3>3. CASE root # NULL
            <4>1. 1 \in DOMAIN st /\ st[1] = f
                BY <1>2, <3>3
            <4> HIDE DEF st, f
            <4> QED
                BY <1>3, <3>1, <4>1 DEF Waiting
        <3> QED
            BY <3>2, <3>3
    <2> QED
        BY <2>1, <2>2
<1>5. \A i, j \in DOMAIN st : i = j
    BY <1>2
<1>6. \A i, j \in DOMAIN st : i < j => FALSE
    <2>1. DOMAIN st = {} \/ DOMAIN st = {1}
        BY <1>2
    <2> HIDE DEF st
    <2> QED
        BY <2>1
<1>7. DOMAIN <<>> = {}
    OBVIOUS
<1> HIDE DEF st
<1>8. Printed(<<>>, st)
    BY <1>4, <1>6, <1>7 DEF Printed, Rising, KeysPrinted, AllSeen, Behind, InLine
<1> QED
    BY <1>8 DEF st

LEMMA VisitPrint ==
    ASSUME TypeInv, MutexInv, HeapInv, OrderInv, ReadersInv, FindInv, PrintInv,
           NEW t \in Threads, Visit(t), call[t].op = "print_info"
    PROVE  Printed(out[t], stack[t])'
<1> DEFINE st == stack[t]
           o  == out[t]
           f  == Head(st)
           n  == f.node
           L  == Under(child, child[n]["left"])
           R  == Under(child, child[n]["right"])
<1>1. /\ pc[t] = "traverse" /\ st # <<>> /\ n \in Nodes /\ Printed(o, st)
      /\ tree = "up" /\ \A u \in Threads : u # t => pc[u] = "idle"
    BY DEF Visit, Valid, PrintInv, Printing, ReadersInv, ReaderInv, ReaderAlone, Reads
<1>2. /\ st \in Seq(Frame) /\ f = st[1] /\ f \in Frame /\ child \in Fun /\ root # Wild
      /\ n \in Addr /\ Forest(child, Roots, Nodes)
    <2>1. st \in Seq(Frame) /\ child \in Fun /\ n \in Addr
        BY <1>1, ChildFun DEF TypeInv, TypeOK, Nodes
    <2>2. f = st[1] /\ f \in Frame
        BY <1>1, <2>1, HeadTailProperties
    <2>3. root # Wild /\ Forest(child, Roots, Nodes)
        BY <1>1, ReaderTree DEF Inside
    <2> QED
        BY <2>1, <2>2, <2>3
<1>3. Sorted(Nodes)
    BY <1>1, SortedAlone
<1>4. \A s \in Side : /\ child[n][s] \in Ptr
                      /\ Under(child, child[n][s]) \subseteq Nodes
                      /\ Under(child, child[n][s]) \subseteq Under(child, n)
                      /\ n \notin Under(child, child[n][s])
    <2> SUFFICES ASSUME NEW s \in Side
                 PROVE  /\ child[n][s] \in Ptr
                        /\ Under(child, child[n][s]) \subseteq Nodes
                        /\ Under(child, child[n][s]) \subseteq Under(child, n)
                        /\ n \notin Under(child, child[n][s])
        OBVIOUS
    <2> HIDE DEF n
    <2>1. child[n][s] \in Ptr /\ child[n][s] \in Nodes \cup {NULL}
        BY <1>1, <1>2 DEF Fun, Forest
    <2>2. n \in Under(child, n) /\ Closed(child, Under(child, n))
        BY <1>2, UnderSelf, UnderClosed
    <2>3. Under(child, child[n][s]) \subseteq Under(child, n)
        <3>1. CASE child[n][s] = NULL
            BY <3>1, UnderNull
        <3>2. CASE child[n][s] # NULL
            BY <1>2, <2>2, <3>2, UnderDeeper DEF Closed
        <3> QED
            BY <3>1, <3>2
    <2> QED
        BY <1>1, <1>2, <2>1, <2>3, UnderForest, NotBelow
<1>5. Under(child, n) \cap Nodes = L \cup {n} \cup R
    <2> HIDE DEF n
    <2>1. n \in Under(child, n)
        BY <1>2, UnderSelf
    <2>2. Under(child, n) \subseteq L \cup {n} \cup R
        BY <1>2, UnderSplit DEF Side
    <2> QED
        BY <1>1, <1>4, <2>1, <2>2 DEF Side
<1>6. (\A x \in L : key[x] < key[n]) /\ \A x \in R : key[n] < key[x]
    <2> HIDE DEF n
    <2>1. ASSUME NEW x \in L PROVE key[x] < key[n]
        BY <1>1, <1>3, <1>4 DEF Sorted, Ordered, Side
    <2>2. ASSUME NEW x \in R PROVE key[n] < key[x]
        BY <1>1, <1>3, <1>4, SortedRight DEF Side
    <2> QED
        BY <2>1, <2>2
<1>7. \A x \in Nodes : key[x] \in Int
    BY NodeKey
<1>8. Waiting(st) = ToPrint(f) \cup Rest(st)
    BY <1>1, <1>2, WaitingTop
<1>9. UNCHANGED <<block, child, key>>
    BY DEF Visit, heapVars
<1>10. \A p, q : Printed(p, q)' <=> Printed(p, q)
    <2>1. Nodes' = Nodes /\ \A g : ToPrint(g)' = ToPrint(g)
        BY <1>9 DEF Nodes, ToPrint
    <2>2. \A q : Waiting(q)' = Waiting(q)
        BY <2>1 DEF Waiting
    <2> QED
        BY <1>9, <2>1, <2>2 DEF Printed, Rising, KeysPrinted, AllSeen, Behind, InLine
<1>11. CASE f.at = "pre"
    <2> DEFINE h == [f EXCEPT !.at = "in"]
               st2 == Frames(child[n]["left"]) \o <<h>> \o Tail(st)
    <2>1. stack'[t] = st2 /\ out'[t] = o
        BY <1>11 DEF Visit, TypeInv, TypeOK
    <2>2. h \in Frame /\ h.node = n /\ h.at = "in"
        <3> HIDE DEF st
        <3> QED
            BY <1>2 DEF Frame
    <2>3. ToPrint(f) = L \cup {n} \cup R
        BY <1>5, <1>11 DEF ToPrint
    <2> HIDE DEF h
    <2>4. ToPrint(h) = {n} \cup R
        BY <1>1, <1>4, <2>2 DEF ToPrint, Side
    <2>5. \A x \in L, y \in ToPrint(h) : key[x] < key[y]
        BY <1>1, <1>4, <1>6, <1>7, <2>4 DEF Side
    <2>6. (\E m : Shared(st, st2, m)) /\ Waiting(st2) = L \cup ToPrint(h) \cup Rest(st)
        <3>1. child[n]["left"] \in Ptr /\ L \subseteq Nodes
            BY <1>4 DEF Side
        <3>2. L \cup ToPrint(h) \subseteq ToPrint(st[1])
            BY <1>2, <2>3, <2>4
        <3> HIDE DEF st, n
        <3> QED
            BY <1>1, <1>2, <2>2, <2>5, <3>1, <3>2, TopReplaced
    <2>7. Waiting(st) \subseteq Waiting(st2)
        BY <1>8, <2>3, <2>4, <2>6
    <2> HIDE DEF st, st2, o
    <2>8. Printed(o, st2)
        BY <1>1, <2>6, <2>7, PrintNone
    <2> QED
        BY <1>10, <2>1, <2>8
<1>12. CASE f.at = "in"
    <2> DEFINE h == [f EXCEPT !.at = "post"]
               st2 == Frames(child[n]["right"]) \o <<h>> \o Tail(st)
    <2>1. stack'[t] = st2 /\ out'[t] = Append(o, key[n])
        BY <1>12 DEF Visit, TypeInv, TypeOK
    <2>2. h \in Frame /\ h.node = n /\ h.at = "post"
        <3> HIDE DEF st
        <3> QED
            BY <1>2 DEF Frame
    <2>3. ToPrint(f) = {n} \cup R
        BY <1>1, <1>4, <1>12 DEF ToPrint, Side
    <2> HIDE DEF h
    <2>4. ToPrint(h) = {}
        BY <2>2 DEF ToPrint
    <2>5. (\E m : Shared(st, st2, m)) /\ Waiting(st2) = R \cup ToPrint(h) \cup Rest(st)
        <3>1. child[n]["right"] \in Ptr /\ R \subseteq Nodes
            BY <1>4 DEF Side
        <3>2. R \cup ToPrint(h) \subseteq ToPrint(st[1])
            BY <1>2, <2>3, <2>4
        <3>3. \A x \in R, y \in ToPrint(h) : key[x] < key[y]
            BY <2>4
        <3> HIDE DEF st, n
        <3> QED
            BY <1>1, <1>2, <2>2, <3>1, <3>2, <3>3, TopReplaced
    <2>6. n \in Waiting(st) /\ Waiting(st) \subseteq Waiting(st2) \cup {n}
        BY <1>8, <2>3, <2>4, <2>5
    <2>7. \A x \in Waiting(st2) : key[n] < key[x]
        <3> SUFFICES ASSUME NEW x \in Rest(st) PROVE key[n] < key[x]
            BY <1>6, <2>4, <2>5
        <3>1. PICK i \in DOMAIN st \ {1} : x \in ToPrint(st[i])
            BY DEF Rest
        <3>2. 1 \in DOMAIN st /\ 1 < i
            BY <1>1, <1>2, <3>1, LenProperties, EmptySeq
        <3>3. n \in ToPrint(st[1])
            BY <1>2, <2>3
        <3> HIDE DEF st, n
        <3> QED
            BY <1>1, <3>1, <3>2, <3>3 DEF Printed, InLine
    <2>8. o \in Seq(Keys \cup Values \cup {NULL}) /\ key[n] \in Keys \cup Values \cup {NULL}
        BY <1>1, NodeKey DEF TypeInv, TypeOK
    <2> HIDE DEF st, st2, o, n
    <2>9. Printed(Append(o, key[n]), st2)
        BY <1>1, <2>5, <2>6, <2>7, <2>8, PrintOne
    <2> QED
        BY <1>10, <2>1, <2>9
<1>13. CASE f.at = "post"
    <2>1. stack'[t] = Tail(st) /\ out'[t] = o
        BY <1>13 DEF Visit, TypeInv, TypeOK
    <2>2. ToPrint(f) = {}
        BY <1>13 DEF ToPrint
    <2> HIDE DEF st, o
    <2>3. (\E m : Shared(st, Tail(st), m)) /\ Waiting(Tail(st)) = Rest(st)
        BY <1>1, <1>2, TopGone
    <2>4. Printed(o, Tail(st))
        BY <1>1, <1>8, <2>2, <2>3, PrintNone
    <2> QED
        BY <1>10, <2>1, <2>4
<1>14. f.at \in {"pre", "in", "post"}
    <2> HIDE DEF f
    <2> QED
        BY <1>2 DEF Frame
<1> QED
    BY <1>11, <1>12, <1>13, <1>14

\* A step moves one thread, and one that is idle begins a call.
LEMMA OthersStay ==
    ASSUME TypeInv, NEW t \in Threads, Start(t) \/ Run(t)
    PROVE  /\ \A u \in Threads : u # t => pc'[u] = pc[u] /\ call'[u] = call[u]
           /\ pc[t] = "idle" => tree = "none" \/ pc'[t] # "idle"
<1>1. \A u \in Threads : u # t => pc'[u] = pc[u] /\ call'[u] = call[u]
    <2>1. CASE Start(t)
        BY <2>1 DEF Start, Initialize, Invoke, Refuse, Terminate, Goto, TypeInv, TypeOK
    <2>2. CASE Lock(t) \/ Unlock(t) \/ Return(t) \/ Fault(t) \/ Traverse(t) \/ Lookup(t)
        BY <2>2 DEF Lock, Unlock, Return, Fault, Traverse, Visit, PrintEnd, TerminateEnd, Lookup,
                    LookupMiss, LookupDescend, LookupHit, LookupCopy, LookupEnd, Goto, TypeInv, TypeOK
    <2>3. CASE Add(t) \/ Del(t)
        BY <2>3 DEF Add, AddRoot, AddNoMemory, AddDuplicate, AddDescend, AddLeaf, AddInit,
                    Del, DelDescend, DelMissing, DelFound, DelUnlink, DelBottom, DelGraft, DelFree,
                    Descend, Fail, Goto, TypeInv, TypeOK
    <2> QED
        BY <2>1, <2>2, <2>3 DEF Run
<1>2. ASSUME pc[t] = "idle", tree # "none" PROVE pc'[t] # "idle"
    <2>1. Invoke(t) \/ Refuse(t) \/ Terminate(t)
        BY <1>2 DEF Start, Initialize, Run, Lock, Unlock, Return, Fault, Follows, Traverse, Visit,
                    PrintEnd, TerminateEnd, Lookup, LookupMiss, LookupDescend, LookupHit, LookupCopy,
                    Add, AddRoot, AddNoMemory, AddDuplicate, AddDescend, AddLeaf, AddInit,
                    Del, DelDescend, DelMissing, DelFound, DelUnlink, DelBottom, DelGraft, DelFree
    <2>2. CASE Refuse(t) \/ Terminate(t)
        BY <2>2 DEF Refuse, Terminate, Goto, TypeInv, TypeOK
    <2>3. CASE Invoke(t)
        <3>1. PICK c \in Calls(t) :
                pc' = [pc EXCEPT ![t] = CASE c.op \in {"add", "del"} -> "lock"
                                          [] c.op = "lookup"         -> "lookup"
                                          [] c.op = "print_info"     -> "traverse"]
            BY <2>3 DEF Invoke, Goto
        <3>2. c.op \in {"add", "del", "lookup", "print_info"}
            BY CallsType
        <3>3. pc'[t] = CASE c.op \in {"add", "del"} -> "lock"
                         [] c.op = "lookup"         -> "lookup"
                         [] c.op = "print_info"     -> "traverse"
            BY <3>1 DEF TypeInv, TypeOK
        <3> QED
            BY <3>2, <3>3
    <2> QED
        BY <2>1, <2>2, <2>3
<1> QED
    BY <1>1, <1>2

LEMMA PrintInit == Init => PrintInv
BY DEF Init, PrintInv, Printing

LEMMA PrintNext ==
    ASSUME TypeInv, MutexInv, HeapInv, OrderInv, ReadersInv, FindInv, AnswerInv, PrintInv,
           [Next /\ ReaderAlone']_vars
    PROVE  PrintInv'
<1>1. CASE UNCHANGED vars
    BY <1>1, PrintedSame DEF vars, heapVars, frameVars, PrintInv, Printing
<1>2. ASSUME NEW t \in Threads, Start(t) \/ Run(t), ReaderAlone' PROVE PrintInv'
    <2> SUFFICES ASSUME NEW u \in Threads, Printing(u)' PROVE Printed(out[u], stack[u])'
        BY DEF PrintInv
    <2>1. \A v \in Threads : v # u => pc'[v] = "idle"
        BY <1>2 DEF Printing, ReaderAlone
    <2>2. u = t
        <3> SUFFICES ASSUME u # t PROVE FALSE
            OBVIOUS
        <3>1. pc[u] = "traverse" /\ call[u].op = "print_info"
            BY <1>2, OthersStay DEF Printing
        <3>2. tree = "up" /\ pc[t] = "idle"
            BY <3>1 DEF ReadersInv, ReaderInv, ReaderAlone, Reads
        <3> QED
            BY <1>2, <2>1, <3>2, OthersStay
    <2>3. CASE Invoke(t)
        <3>1. pc[t] = "idle" /\ tree = "up" /\ UNCHANGED <<block, child, key, out>>
            BY <2>3 DEF Invoke, heapVars
        <3>2. \A v \in Threads : v # t => pc[v] = "idle"
            BY <1>2, <2>1, <2>2, OthersStay
        <3>3. Printed(<<>>, Frames(root))
            BY <3>1, <3>2, StartPrint DEF Inside
        <3>4. out[t] = <<>>
            BY <3>1 DEF AnswerInv, AnswerAt, NoCall, Reads
        <3>5. stack'[t] = Frames(root)
            BY <2>2, <2>3 DEF Invoke, Printing, TypeInv, TypeOK
        <3>6. \A p, q : Printed(p, q)' <=> Printed(p, q)
            <4>1. Nodes' = Nodes /\ \A g : ToPrint(g)' = ToPrint(g)
                BY <3>1 DEF Nodes, ToPrint
            <4>2. \A q : Waiting(q)' = Waiting(q)
                BY <4>1 DEF Waiting
            <4> QED
                BY <3>1, <4>1, <4>2 DEF Printed, Rising, KeysPrinted, AllSeen, Behind, InLine
        <3> QED
            BY <2>2, <3>1, <3>3, <3>4, <3>5, <3>6
    <2>4. CASE Visit(t)
        <3>1. call[t].op = "print_info"
            BY <2>2, <2>4 DEF Visit, Printing
        <3> QED
            BY <2>2, <2>4, <3>1, VisitPrint
    <2>5. CASE Fault(t)
        <3>1. Printing(t) /\ UNCHANGED <<block, child, key, out, stack>>
            BY <2>2, <2>5 DEF Fault, Printing, heapVars, frameVars
        <3> QED
            BY <2>2, <3>1, PrintedSame DEF PrintInv
    <2>6. CASE Initialize(t) \/ Refuse(t) \/ Terminate(t) \/ Return(t) \/ PrintEnd(t) \/ TerminateEnd(t)
        <3>1. pc'[t] # "traverse" \/ call'[t].op = "terminate"
            BY <2>6 DEF Initialize, Refuse, Terminate, Return, PrintEnd, TerminateEnd, Goto, NoCall,
                        TypeInv, TypeOK
        <3> QED
            BY <2>2, <3>1 DEF Printing
    <2>7. CASE Lock(t) \/ Unlock(t)
        <3>1. pc'[t] # "traverse"
            BY <2>7 DEF Lock, Unlock, Goto, TypeInv, TypeOK, CallInv
        <3> QED
            BY <2>2, <3>1 DEF Printing
    <2>8. CASE Add(t) \/ Del(t)
        <3>1. pc'[t] # "traverse"
            BY <2>8 DEF Add, AddRoot, AddNoMemory, AddDuplicate, AddDescend, AddLeaf, AddInit,
                        Del, DelDescend, DelMissing, DelFound, DelUnlink, DelBottom, DelGraft, DelFree,
                        Descend, Fail, Goto, TypeInv, TypeOK
        <3> QED
            BY <2>2, <3>1 DEF Printing
    <2>9. CASE Lookup(t)
        <3>1. pc'[t] # "traverse"
            BY <2>9 DEF Lookup, LookupMiss, LookupDescend, LookupHit, LookupCopy, LookupEnd, Goto,
                        TypeInv, TypeOK
        <3> QED
            BY <2>2, <3>1 DEF Printing
    <2> QED
        BY <1>2, <2>3, <2>4, <2>5, <2>6, <2>7, <2>8, <2>9 DEF Start, Run, Traverse
<1> QED
    BY <1>1, <1>2 DEF Next

-----------------------------------------------------------------------------
(* The tree implements the Dictionary.  The three variables of the           *)
(* dictionary, as the state of the tree gives them:                          *)

Entries == IF tree = "up" THEN {<<key[a], value[a]>> : a \in Nodes} ELSE {}
Asking(c) == [op |-> c.op, key |-> c.key, value |-> c.value]
Asked == [t \in Threads |-> Asking(call[t])]
Reply(r, o) == [ret |-> r, out |-> o]
Replied == [t \in Threads |-> IF ret[t] = NULL THEN Reply(NULL, <<>>) ELSE Reply(ret[t], out[t])]

LEMMA DictVars == Dict!vars = <<Entries, Asked, Replied>>
BY DEF Dict!vars, Entries, Asked, Asking, Replied, Reply

\* A step of t that leaves the answers of the others alone.
LEMMA ReplyStep ==
    ASSUME NEW t \in Threads, NEW r, ret' = [ret EXCEPT ![t] = r], TypeOK,
           \A u \in Threads : u # t => out'[u] = out[u]
    PROVE  Replied' = [Replied EXCEPT ![t] = IF r = NULL THEN Reply(NULL, <<>>) ELSE Reply(r, out'[t])]
<1>1. ret'[t] = r /\ \A u \in Threads : u # t => ret'[u] = ret[u]
    BY DEF TypeOK
<1> DEFINE new == IF r = NULL THEN Reply(NULL, <<>>) ELSE Reply(r, out'[t])
<1>2. Replied'[t] = new /\ \A u \in Threads : u # t => Replied'[u] = Replied[u]
    BY <1>1 DEF Replied
<1>3. Replied' = [u \in Threads |-> Replied'[u]] /\ Replied = [u \in Threads |-> Replied[u]]
    BY DEF Replied
<1> HIDE DEF new
<1>4. Replied' = [Replied EXCEPT ![t] = new]
    BY <1>2, <1>3
<1> QED
    BY <1>4 DEF new

\* An output grows unseen until the answer is given.
LEMMA ReplySame ==
    ASSUME ret' = ret, \A u \in Threads : ret[u] # NULL => out'[u] = out[u]
    PROVE  Replied' = Replied
BY DEF Replied

LEMMA AskStep ==
    ASSUME NEW t \in Threads, NEW c, call' = [call EXCEPT ![t] = c], TypeOK
    PROVE  Asked' = [Asked EXCEPT ![t] = Asking(c)]
<1>1. call'[t] = c /\ \A u \in Threads : u # t => call'[u] = call[u]
    BY DEF TypeOK
<1>2. Asked'[t] = Asking(c) /\ \A u \in Threads : u # t => Asked'[u] = Asked[u]
    BY <1>1 DEF Asked
<1>3. Asked' = [u \in Threads |-> Asked'[u]] /\ Asked = [u \in Threads |-> Asked[u]]
    BY DEF Asked
<1> QED
    BY <1>2, <1>3

LEMMA AskSame == call' = call => Asked' = Asked
BY DEF Asked

LEMMA EntriesSame ==
    ASSUME tree' = tree, tree = "up" => /\ Nodes' = Nodes
                                        /\ \A a \in Nodes : key'[a] = key[a] /\ value'[a] = value[a]
    PROVE  Entries' = Entries
<1>1. CASE tree = "up"
    BY <1>1 DEF Entries
<1>2. CASE tree # "up"
    BY <1>2 DEF Entries
<1> QED
    BY <1>1, <1>2

\* What a thread that has not answered yet shows.
LEMMA Unanswered ==
    ASSUME AnswerInv, NEW t \in Threads, pc[t] \notin {"unlock", "return"}
    PROVE  Replied[t] = Reply(NULL, <<>>) /\ ret[t] = NULL
BY DEF AnswerInv, AnswerAt, Replied

LEMMA DictStored == Dict!Stored = {e[1] : e \in Entries}
BY DEF Dict!Stored, Entries

LEMMA StoredKeys ==
    ASSUME tree = "up"
    PROVE  \A k : k \in Dict!Stored <=> \E x \in Nodes : key[x] = k
<1>1. Entries = {<<key[a], value[a]>> : a \in Nodes}
    BY DEF Entries
<1>2. \A a : <<key[a], value[a]>>[1] = key[a]
    OBVIOUS
<1>3. ASSUME NEW k, k \in Dict!Stored PROVE \E x \in Nodes : key[x] = k
    <2>1. PICK e \in Entries : e[1] = k
        BY <1>3, DictStored
    <2>2. PICK a \in Nodes : e = <<key[a], value[a]>>
        BY <1>1
    <2> QED
        BY <1>2, <2>1, <2>2
<1>4. ASSUME NEW x \in Nodes PROVE key[x] \in Dict!Stored
    <2>1. <<key[x], value[x]>> \in Entries
        BY <1>1
    <2> QED
        BY <1>2, <2>1, DictStored
<1> QED
    BY <1>3, <1>4

\* The steps of the dictionary, over these three.
LEMMA DictInvoke ==
    ASSUME NEW t \in Threads, Asked[t] = Asking(NoCall), NEW c \in Dict!Requests,
           Asked' = [Asked EXCEPT ![t] = c], Entries' = Entries, Replied' = Replied
    PROVE  Dict!Next
<1>1. Dict!Invoke(t)
    BY DEF Dict!Invoke, Dict!NoCall, Asked, Entries, Replied, Asking, NoCall, Reply
<1> QED
    BY <1>1 DEF Dict!Next

LEMMA DictRefuse ==
    ASSUME NEW t \in Threads, Asked[t] = Asking(NoCall),
           Asked' = [Asked EXCEPT ![t] = Asking([NoCall EXCEPT !.op = "refused"])],
           Replied' = [Replied EXCEPT ![t] = Reply(-1, <<>>)], Entries' = Entries
    PROVE  Dict!Next
<1>1. Dict!Refuse(t)
    BY DEF Dict!Refuse, Dict!NoCall, Dict!Answer, Asked, Entries, Replied, Asking, NoCall, Reply
<1> QED
    BY <1>1 DEF Dict!Next

LEMMA DictTerminate ==
    ASSUME NEW t \in Threads, \A u \in Threads : Asked[u] = Asking(NoCall), Entries' = {},
           Asked' = [Asked EXCEPT ![t] = Asking([NoCall EXCEPT !.op = "terminate"])],
           Replied' = Replied
    PROVE  Dict!Next
<1>1. Dict!Terminate(t)
    BY DEF Dict!Terminate, Dict!NoCall, Asked, Entries, Replied, Asking, NoCall, Reply
<1> QED
    BY <1>1 DEF Dict!Next

LEMMA DictReturn ==
    ASSUME NEW t \in Threads, Replied[t] # Reply(NULL, <<>>), Entries' = Entries,
           Asked' = [Asked EXCEPT ![t] = Asking(NoCall)],
           Replied' = [Replied EXCEPT ![t] = Reply(NULL, <<>>)]
    PROVE  Dict!Next
<1>1. Dict!Return(t)
    BY DEF Dict!Return, Dict!NoCall, Dict!Pending, Asked, Entries, Replied, Asking, NoCall, Reply
<1> QED
    BY <1>1 DEF Dict!Next

LEMMA DictFail ==
    ASSUME NEW t \in Threads, Replied[t] = Reply(NULL, <<>>), Entries' = Entries, Asked' = Asked,
           Replied' = [Replied EXCEPT ![t] = Reply(-1, <<>>)],
           \/ call[t].op = "add"
           \/ call[t].op = "del" /\ call[t].key \notin Dict!Stored
    PROVE  Dict!Next
<1>1. CASE call[t].op = "add"
    <2>1. Dict!Add(t)
        BY <1>1 DEF Dict!Add, Dict!In, Dict!Pending, Dict!Answer, Asked, Entries, Replied, Asking, Reply
    <2> QED
        BY <2>1 DEF Dict!Next
<1>2. CASE call[t].op = "del" /\ call[t].key \notin Dict!Stored
    <2>1. {e \in Entries : e[1] # call[t].key} = Entries
        BY <1>2, DictStored
    <2>2. Dict!Del(t)
        BY <1>2, <2>1 DEF Dict!Del, Dict!In, Dict!Pending, Dict!Answer, Asked, Entries, Replied, Asking, Reply
    <2> QED
        BY <2>2 DEF Dict!Next
<1> QED
    BY <1>1, <1>2

LEMMA DictAdd ==
    ASSUME NEW t \in Threads, Replied[t] = Reply(NULL, <<>>), Asked' = Asked, call[t].op = "add",
           call[t].key \notin Dict!Stored, Entries' = Entries \cup {<<call[t].key, call[t].value>>},
           Replied' = [Replied EXCEPT ![t] = Reply(0, <<>>)]
    PROVE  Dict!Next
<1>1. Dict!Add(t)
    BY DEF Dict!Add, Dict!In, Dict!Pending, Dict!Answer, Asked, Entries, Replied, Asking, Reply
<1> QED
    BY <1>1 DEF Dict!Next

LEMMA DictDel ==
    ASSUME NEW t \in Threads, Replied[t] = Reply(NULL, <<>>), Asked' = Asked, call[t].op = "del",
           call[t].key \in Dict!Stored, Entries' = {e \in Entries : e[1] # call[t].key},
           Replied' = [Replied EXCEPT ![t] = Reply(0, <<>>)]
    PROVE  Dict!Next
<1>1. Dict!Del(t)
    BY DEF Dict!Del, Dict!In, Dict!Pending, Dict!Answer, Asked, Entries, Replied, Asking, Reply
<1> QED
    BY <1>1 DEF Dict!Next

LEMMA DictLookup ==
    ASSUME NEW t \in Threads, Replied[t] = Reply(NULL, <<>>), Asked' = Asked, Entries' = Entries,
           call[t].op = "lookup", NEW o, Replied' = [Replied EXCEPT ![t] = Reply(0, o)],
           \/ \E e \in Entries : e[1] = call[t].key /\ o = <<e[2]>>
           \/ call[t].key \notin Dict!Stored /\ o = <<>>
    PROVE  Dict!Next
<1>1. Dict!Lookup(t)
    BY DEF Dict!Lookup, Dict!In, Dict!Pending, Dict!Answer, Asked, Entries, Replied, Asking, Reply
<1> QED
    BY <1>1 DEF Dict!Next

LEMMA DictPrint ==
    ASSUME NEW t \in Threads, Replied[t] = Reply(NULL, <<>>), Asked' = Asked, Entries' = Entries,
           call[t].op = "print_info", NEW q \in [1..Cardinality(Dict!Stored) -> Dict!Stored],
           \A i, j \in DOMAIN q : i < j => q[i] < q[j],
           Replied' = [Replied EXCEPT ![t] = Reply(0, q)]
    PROVE  Dict!Next
<1>1. Dict!In(t, "print_info")
    BY DEF Dict!In, Dict!Pending, Asked, Replied, Asking, Reply
<1>2. Dict!Answer(t, 0, q)
    BY DEF Dict!Answer, Replied, Reply
<1>3. \E p \in [1..Cardinality(Dict!Stored) -> Dict!Stored] :
            (\A i, j \in DOMAIN p : i < j => p[i] < p[j]) /\ Dict!Answer(t, 0, p)
    BY <1>2
<1>4. Cardinality(Dict!Stored) = Dict!Cardinality(Dict!Stored)
    BY DEF Cardinality, Dict!Cardinality
<1>5. Dict!PrintInfo(t)
    BY <1>1, <1>3, <1>4 DEF Dict!PrintInfo, Asked, Asking, Entries
<1> QED
    BY <1>5 DEF Dict!Next

LEMMA DictTerminated ==
    ASSUME NEW t \in Threads, Replied[t] = Reply(NULL, <<>>), Asked' = Asked, Entries' = Entries,
           call[t].op = "terminate", Replied' = [Replied EXCEPT ![t] = Reply(0, <<>>)]
    PROVE  Dict!Next
<1>1. Dict!Terminated(t)
    BY DEF Dict!Terminated, Dict!In, Dict!Pending, Dict!Answer, Asked, Entries, Replied, Asking, Reply
<1> QED
    BY <1>1 DEF Dict!Next

LEMMA Unseen ==
    ASSUME Entries' = Entries, Asked' = Asked, Replied' = Replied
    PROVE  UNCHANGED Dict!vars
BY DEF Dict!vars, Entries, Asked, Asking, Replied, Reply

\* At the end of the recursion the output is every key once.
LEMMA PrintedAll ==
    ASSUME TypeInv, OrderInv, tree = "up", NEW t \in Threads, Printed(out[t], <<>>)
    PROVE  /\ out[t] \in [1..Cardinality(Dict!Stored) -> Dict!Stored]
           /\ \A i, j \in DOMAIN out[t] : i < j => out[t][i] < out[t][j]
<1> DEFINE o == out[t]
           n == Len(o)
<1>1. n \in Nat /\ DOMAIN o = 1..n /\ o = [i \in 1..n |-> o[i]]
    <2>1. o \in Seq(Keys \cup Values \cup {NULL})
        BY DEF TypeInv, TypeOK
    <2> HIDE DEF o
    <2> QED
        BY <2>1, LenProperties
<1> HIDE DEF o
<1>2. \A x \in Nodes : \E i \in DOMAIN o : o[i] = key[x]
    <2>1. Waiting(<<>>) = {}
        BY DEF Waiting
    <2> QED
        BY <2>1 DEF Printed, AllSeen, o
<1>3. /\ \A i, j \in DOMAIN o : i < j => o[i] < o[j]
      /\ \A i \in DOMAIN o : \E x \in Nodes : o[i] = key[x]
    BY DEF Printed, Rising, KeysPrinted, o
<1>4. \A i \in DOMAIN o : o[i] \in Int
    BY <1>3, NodeKey
<1>5. \A i \in DOMAIN o : o[i] \in Dict!Stored
    BY <1>3, StoredKeys
<1>6. \A k \in Dict!Stored : \E i \in DOMAIN o : o[i] = k
    BY <1>2, StoredKeys
<1> HIDE DEF n
<1>7. o \in [1..n -> Dict!Stored]
    BY <1>1, <1>5
<1>8. ASSUME NEW i \in 1..n, NEW j \in 1..n, o[i] = o[j] PROVE i = j
    <2>1. ~(i < j) /\ ~(j < i)
        BY <1>1, <1>3, <1>4, <1>8
    <2> QED
        BY <2>1
<1>9. o \in Bijection(1..n, Dict!Stored)
    BY <1>1, <1>6, <1>7, <1>8 DEF Bijection, Injection, IsInjective, Surjection
<1>10. Cardinality(Dict!Stored) = n
    BY <1>1, <1>9, FS_CountingElements DEF ExistsBijection
<1>11. /\ o \in [1..Cardinality(Dict!Stored) -> Dict!Stored]
       /\ \A i, j \in DOMAIN o : i < j => o[i] < o[j]
    BY <1>3, <1>7, <1>10
<1> QED
    BY <1>11 DEF o

\* Where a search ends without a node there is no node with its key.
LEMMA NotStored ==
    ASSUME LongKeys = {}, TypeInv, OrderInv, FindInv, tree = "up", Sorted(Nodes),
           NEW t \in Threads, call[t].op \in {"del", "lookup"}, OnlyUnder(t, cur[t]),
           \/ cur[t] = NULL
           \/ /\ cur[t] \in Nodes
              /\ LET s == Toward(call[t], key[cur[t]]) IN s # "here" /\ child[cur[t]][s] = NULL
    PROVE  call[t].key \notin Dict!Stored
<1> SUFFICES ASSUME NEW x \in Nodes, key[x] = call[t].key PROVE FALSE
    BY StoredKeys
<1>1. CASE cur[t] = NULL
    BY <1>1, UnderNull DEF OnlyUnder
<1>2. CASE cur[t] # NULL
    <2> DEFINE c == cur[t]
               s == Toward(call[t], key[c])
    <2>1. c \in Nodes /\ s # "here" /\ child[c][s] = NULL /\ OnlyUnder(t, c)
        BY <1>2
    <2>2. s \in Side
        BY <2>1 DEF Toward, Side
    <2> HIDE DEF c
    <2> QED
        BY <2>1, <2>2, OneWay
<1> QED
    BY <1>1, <1>2

\* Calls begin.
LEMMA StartMaps ==
    ASSUME LongKeys = {}, TypeInv, MutexInv, HeapInv, AnswerInv, NEW t \in Threads, Start(t)
    PROVE  Dict!Next \/ UNCHANGED Dict!vars
<1>1. pc[t] = "idle" /\ call[t] = NoCall /\ out[t] = <<>> /\ Asked[t] = Asking(NoCall)
    <2>1. pc[t] = "idle" /\ call[t] = NoCall
        BY DEF Start, Initialize, Invoke, Refuse, Terminate, AnswerInv, AnswerAt
    <2>2. out[t] = <<>>
        BY <2>1 DEF AnswerInv, AnswerAt, NoCall, Reads
    <2> QED
        BY <2>1, <2>2 DEF Asked
<1>2. CASE Initialize(t)
    <2>1. /\ tree = "none" /\ UNCHANGED <<block, key, value, call, ret, out>>
        BY <1>2 DEF Initialize, heapVars, frameVars
    <2>2. Nodes = {} /\ Nodes' = {}
        BY <2>1 DEF HeapInv, EmptyInv, Nodes
    <2>3. Entries = {} /\ Entries' = {}
        BY <2>1, <2>2 DEF Entries
    <2> QED
        BY <2>1, <2>3, AskSame, ReplySame, Unseen
<1>3. CASE Invoke(t)
    <2>1. PICK c \in Calls(t) : call' = [call EXCEPT ![t] = c]
        BY <1>3 DEF Invoke
    <2>2. UNCHANGED <<tree, block, key, value, ret, out>>
        BY <1>3 DEF Invoke, treeVars, heapVars
    <2>3. Entries' = Entries
        BY <2>2, EntriesSame DEF Nodes
    <2>4. Asking(c) \in Dict!Requests
        <3>1. CASE c = [NoCall EXCEPT !.op = "print_info"]
            BY <3>1 DEF Asking, NoCall, Dict!Requests
        <3>2. CASE \E a \in Args, v \in Values : c = Call("add", a, v)
            BY <3>2 DEF Asking, Call, Args, Dict!Requests
        <3>3. CASE \E a \in Args : c = Call("del", a, NULL) \/ c = Call("lookup", a, NULL)
            BY <3>3 DEF Asking, Call, Args, Dict!Requests
        <3> QED
            BY <3>1, <3>2, <3>3 DEF Calls
    <2>5. Asked' = [Asked EXCEPT ![t] = Asking(c)]
        BY <2>1, AskStep DEF TypeInv
    <2>6. Replied' = Replied
        BY <2>2, ReplySame
    <2> QED
        BY <1>1, <2>3, <2>4, <2>5, <2>6, DictInvoke
<1>4. CASE Refuse(t)
    <2>1. /\ UNCHANGED <<tree, block, key, value, out>> /\ ret' = [ret EXCEPT ![t] = -1]
          /\ call' = [call EXCEPT ![t] = [NoCall EXCEPT !.op = "refused"]]
        BY <1>4 DEF Refuse, Answer, treeVars, heapVars, frameVars
    <2>2. Entries' = Entries
        BY <2>1, EntriesSame DEF Nodes
    <2>3. Asked' = [Asked EXCEPT ![t] = Asking([NoCall EXCEPT !.op = "refused"])]
        BY <2>1, AskStep DEF TypeInv
    <2>4. Replied' = [Replied EXCEPT ![t] = Reply(-1, <<>>)]
        BY <1>1, <2>1, ReplyStep, Answered DEF TypeInv
    <2> QED
        BY <1>1, <2>2, <2>3, <2>4, DictRefuse
<1>5. CASE Terminate(t)
    <2>1. /\ tree' = "closing" /\ ret' = ret /\ out' = out /\ \A u \in Threads : pc[u] = "idle"
          /\ call' = [call EXCEPT ![t] = [NoCall EXCEPT !.op = "terminate"]]
        BY <1>5 DEF Terminate
    <2>2. Entries' = {}
        BY <2>1 DEF Entries
    <2>3. Asked' = [Asked EXCEPT ![t] = Asking([NoCall EXCEPT !.op = "terminate"])]
        BY <2>1, AskStep DEF TypeInv
    <2>4. \A u \in Threads : Asked[u] = Asking(NoCall)
        BY <2>1 DEF AnswerInv, AnswerAt, Asked
    <2>5. Replied' = Replied
        BY <2>1, ReplySame
    <2> QED
        BY <2>2, <2>3, <2>4, <2>5, DictTerminate
<1> QED
    BY <1>2, <1>3, <1>4, <1>5 DEF Start

\* The walks, and the work on pointers that no dictionary knows of.
LEMMA HiddenMaps ==
    ASSUME TypeInv, MutexInv, HeapInv, AnswerInv, NEW t \in Threads,
           \/ Lock(t) \/ Unlock(t) \/ Fault(t) \/ AddDescend(t) \/ AddLeaf(t)
           \/ DelDescend(t) \/ DelFound(t) \/ DelUnlink(t) \/ DelBottom(t) \/ DelGraft(t)
           \/ LookupDescend(t) \/ LookupHit(t) \/ Visit(t)
    PROVE  UNCHANGED Dict!vars
<1>1. call' = call /\ ret' = ret /\ tree' = tree
    BY DEF Lock, Unlock, Fault, AddDescend, AddLeaf, DelDescend, DelFound, DelUnlink, DelBottom,
           DelGraft, LookupDescend, LookupHit, Visit, Descend, treeVars
<1>2. Replied' = Replied
    <2>1. CASE Visit(t)
        <3>1. pc[t] = "traverse" /\ \A u \in Threads : u # t => out'[u] = out[u]
            BY <2>1 DEF Visit, TypeInv, TypeOK
        <3>2. ret[t] = NULL
            BY <3>1, Unanswered
        <3> QED
            BY <1>1, <3>1, <3>2, ReplySame
    <2>2. CASE ~Visit(t)
        <3>1. out' = out
            BY <2>2 DEF Lock, Unlock, Fault, AddDescend, AddLeaf, DelDescend, DelFound, DelUnlink,
                        DelBottom, DelGraft, LookupDescend, LookupHit, Descend, frameVars
        <3> QED
            BY <1>1, <3>1, ReplySame
    <2> QED
        BY <2>1, <2>2
<1>3. Entries' = Entries
    <2>1. CASE Visit(t)
        <3>1. CASE call[t].op = "terminate"
            <4>1. tree # "up"
                BY <2>1, <3>1 DEF Visit, MutexInv, Ending
            <4> QED
                BY <1>1, <4>1, EntriesSame
        <3>2. CASE call[t].op # "terminate"
            <4>1. UNCHANGED <<block, key, value>>
                BY <2>1, <3>2 DEF Visit, heapVars
            <4> QED
                BY <1>1, <4>1, EntriesSame DEF Nodes
        <3> QED
            BY <3>1, <3>2
    <2>2. CASE AddLeaf(t)
        <3>1. UNCHANGED <<key, value>> /\ \E a \in Free : block' = [block EXCEPT ![a] = "raw"]
            BY <2>2 DEF AddLeaf
        <3>2. Nodes' = Nodes
            BY <3>1 DEF Nodes, Free, TypeInv, TypeOK
        <3> QED
            BY <1>1, <3>1, <3>2, EntriesSame
    <2>3. CASE ~Visit(t) /\ ~AddLeaf(t)
        <3>1. UNCHANGED <<block, key, value>>
            BY <2>3 DEF Lock, Unlock, Fault, AddDescend, DelDescend, DelFound, DelUnlink,
                        DelBottom, DelGraft, LookupDescend, LookupHit, Descend, heapVars
        <3> QED
            BY <1>1, <3>1, EntriesSame DEF Nodes
    <2> QED
        BY <2>1, <2>2, <2>3
<1> QED
    BY <1>1, <1>2, <1>3, AskSame, Unseen

\* add and del answer under the mutex, where they take effect.
LEMMA AddMaps ==
    ASSUME LongKeys = {}, TypeInv, MutexInv, HeapInv, ReadersInv, FindInv, AnswerInv, NEW t \in Threads,
           AddRoot(t) \/ AddInit(t) \/ AddNoMemory(t) \/ AddDuplicate(t)
    PROVE  Dict!Next
<1>1. pc[t] \in {"add", "init"} /\ UNCHANGED <<tree, call, out>>
    BY DEF AddRoot, AddInit, AddNoMemory, AddDuplicate, Fail, treeVars, frameVars
<1>2. tree = "up" /\ call[t].op = "add"
    BY <1>1 DEF MutexInv, Inside, HeapInv, HolderInv
<1>3. Replied[t] = Reply(NULL, <<>>) /\ out[t] = <<>> /\ Asked' = Asked
    BY <1>1, <1>2, Unanswered, AskSame DEF AnswerInv, AnswerAt, Reads
<1>4. CASE AddNoMemory(t) \/ AddDuplicate(t)
    <2>1. UNCHANGED <<block, key, value>> /\ ret' = [ret EXCEPT ![t] = -1]
        BY <1>4 DEF AddNoMemory, AddDuplicate, Fail, Answer, heapVars
    <2>2. Entries' = Entries
        BY <1>1, <2>1, EntriesSame DEF Nodes
    <2>3. Replied' = [Replied EXCEPT ![t] = Reply(-1, <<>>)]
        BY <1>1, <1>3, <2>1, ReplyStep, Answered DEF TypeInv
    <2> QED
        BY <1>2, <1>3, <2>2, <2>3, DictFail
<1>5. CASE AddRoot(t) \/ AddInit(t)
    <2>1. ret' = [ret EXCEPT ![t] = 0]
        BY <1>5 DEF AddRoot, AddInit, Answer
    <2>2. Replied' = [Replied EXCEPT ![t] = Reply(0, <<>>)]
        BY <1>1, <1>3, <2>1, ReplyStep, Answered DEF TypeInv
    <2>3. PICK a \in Addr :
            /\ Nodes' = Nodes \cup {a} /\ key'[a] = call[t].key /\ value'[a] = call[t].value
            /\ \A b \in Nodes : key[b] # call[t].key /\ key'[b] = key[b] /\ value'[b] = value[b]
        <3>1. CASE AddRoot(t)
            <4>1. PICK a \in Free : InitNode(t, a)
                BY <3>1 DEF AddRoot
            <4>2. Nodes = {}
                BY <3>1, AddRootFind
            <4>3. Nodes' = {a} /\ key'[a] = call[t].key /\ value'[a] = call[t].value /\ a \in Addr
                BY <4>1, <4>2 DEF InitNode, Nodes, Free, TypeInv, TypeOK
            <4> QED
                BY <4>2, <4>3
        <3>2. CASE AddInit(t)
            <4> DEFINE a == tmp[t]
            <4>1. pc[t] = "init" /\ InitNode(t, a) /\ a \in Addr
                BY <3>2 DEF AddInit, TypeInv, CallInv
            <4>2. block[a] = "raw"
                BY <4>1 DEF HeapInv, HolderInv
            <4>3. \A b \in Nodes : key[b] # call[t].key
                BY <4>1 DEF FindInv, FindAt
            <4> HIDE DEF a
            <4>4. Nodes' = Nodes \cup {a} /\ key'[a] = call[t].key /\ value'[a] = call[t].value
                BY <4>1 DEF InitNode, Nodes, TypeInv, TypeOK
            <4>5. \A b \in Nodes : key'[b] = key[b] /\ value'[b] = value[b]
                BY <4>1, <4>2 DEF InitNode, Nodes, TypeInv, TypeOK
            <4> QED
                BY <4>1, <4>3, <4>4, <4>5
        <3> QED
            BY <1>5, <3>1, <3>2
    <2>4. Entries' = Entries \cup {<<call[t].key, call[t].value>>}
        <3>1. Entries = {<<key[b], value[b]>> : b \in Nodes}
              /\ Entries' = {<<key'[b], value'[b]>> : b \in Nodes'}
            BY <1>1, <1>2 DEF Entries
        <3> QED
            BY <2>3, <3>1
    <2>5. call[t].key \notin Dict!Stored
        BY <1>2, <2>3, StoredKeys
    <2> QED
        BY <1>2, <1>3, <2>2, <2>4, <2>5, DictAdd
<1> QED
    BY <1>4, <1>5

LEMMA DelMaps ==
    ASSUME LongKeys = {}, TypeInv, MutexInv, HeapInv, OrderInv, ReadersInv, FindInv, AnswerInv,
           NEW t \in Threads, DelMissing(t) \/ DelFree(t)
    PROVE  Dict!Next
<1>1. pc[t] \in {"del", "free"} /\ UNCHANGED <<tree, call, out>>
    BY DEF DelMissing, DelFree, Fail, treeVars, frameVars
<1>2. tree = "up" /\ call[t].op = "del"
    BY <1>1 DEF MutexInv, Inside, HeapInv, HolderInv
<1>3. Replied[t] = Reply(NULL, <<>>) /\ out[t] = <<>> /\ Asked' = Asked
    BY <1>1, <1>2, Unanswered, AskSame DEF AnswerInv, AnswerAt, Reads
<1>4. CASE DelMissing(t)
    <2>1. /\ pc[t] = "del" /\ UNCHANGED <<block, key, value>> /\ ret' = [ret EXCEPT ![t] = -1]
        BY <1>4 DEF DelMissing, Fail, Answer, heapVars
    <2>2. Entries' = Entries
        BY <1>1, <2>1, EntriesSame DEF Nodes
    <2>3. Replied' = [Replied EXCEPT ![t] = Reply(-1, <<>>)]
        BY <1>1, <1>3, <2>1, ReplyStep, Answered DEF TypeInv
    <2>4. Sorted(Nodes)
        BY <2>1, SortedHere DEF Inside
    <2>5. OnlyUnder(t, cur[t])
        BY <2>1 DEF FindInv, FindAt
    <2>6. cur[t] \in Nodes /\ LET s == Toward(call[t], key[cur[t]])
                               IN s # "here" /\ child[cur[t]][s] = NULL
        BY <1>4 DEF DelMissing, Valid
    <2>7. call[t].key \notin Dict!Stored
        BY <1>2, <2>4, <2>5, <2>6, NotStored
    <2> QED
        BY <1>2, <1>3, <2>2, <2>3, <2>7, DictFail
<1>5. CASE DelFree(t)
    <2>1. ret' = [ret EXCEPT ![t] = 0]
        BY <1>5 DEF DelFree, Answer
    <2>2. Replied' = [Replied EXCEPT ![t] = Reply(0, <<>>)]
        BY <1>1, <1>3, <2>1, ReplyStep, Answered DEF TypeInv
    <2>3. /\ cur[t] \in Nodes /\ key[cur[t]] = call[t].key
          /\ Nodes' = {a \in Nodes : key[a] # call[t].key}
          /\ \A a \in Nodes' : key'[a] = key[a] /\ value'[a] = value[a]
        BY <1>5, DelFreeFind
    <2>4. Entries' = {e \in Entries : e[1] # call[t].key}
        <3>1. Entries = {<<key[b], value[b]>> : b \in Nodes}
              /\ Entries' = {<<key'[b], value'[b]>> : b \in Nodes'}
            BY <1>1, <1>2 DEF Entries
        <3>2. Entries' = {<<key[b], value[b]>> : b \in Nodes'}
            BY <2>3, <3>1
        <3>3. \A a, b : <<a, b>>[1] = a
            OBVIOUS
        <3> QED
            BY <2>3, <3>1, <3>2, <3>3
    <2>5. call[t].key \in Dict!Stored
        BY <1>2, <2>3, StoredKeys
    <2> QED
        BY <1>2, <1>3, <2>2, <2>4, <2>5, DictDel
<1> QED
    BY <1>4, <1>5

\* The readers answer where they end.
LEMMA ReadMaps ==
    ASSUME LongKeys = {}, TypeInv, MutexInv, HeapInv, OrderInv, ReadersInv, FindInv, AnswerInv, PrintInv,
           NEW t \in Threads, LookupMiss(t) \/ LookupCopy(t) \/ PrintEnd(t)
    PROVE  Dict!Next
<1>1. /\ pc[t] \in {"lookup", "copy", "traverse"} /\ UNCHANGED <<tree, block, key, value, call>>
      /\ ret' = [ret EXCEPT ![t] = 0] /\ \A u \in Threads : u # t => out'[u] = out[u]
    BY DEF LookupMiss, LookupCopy, LookupEnd, PrintEnd, Answer, treeVars, heapVars, frameVars,
           TypeInv, TypeOK
<1>2. /\ call[t].op \in Reads /\ tree = "up" /\ \A u \in Threads : u # t => pc[u] = "idle"
      /\ (PrintEnd(t) <=> call[t].op = "print_info")
    BY <1>1 DEF LookupMiss, LookupCopy, PrintEnd, ReadersInv, ReaderInv, ReaderAlone, Reads
<1>3. Replied[t] = Reply(NULL, <<>>) /\ Asked' = Asked /\ Entries' = Entries
    BY <1>1, Unanswered, AskSame, EntriesSame DEF Nodes
<1>4. Replied' = [Replied EXCEPT ![t] = Reply(0, out'[t])]
    BY <1>1, ReplyStep, Answered DEF TypeInv
<1>5. CASE LookupMiss(t)
    <2>1. /\ pc[t] = "lookup" /\ call[t].op = "lookup" /\ out' = out
          /\ \/ cur[t] = NULL
             \/ /\ cur[t] \in Nodes
                /\ LET s == Toward(call[t], key[cur[t]]) IN s # "here" /\ child[cur[t]][s] = NULL
        BY <1>5 DEF LookupMiss, Valid, ReadersInv, ReaderInv
    <2>2. Sorted(Nodes) /\ OnlyUnder(t, cur[t])
        BY <1>2, <2>1, SortedAlone DEF FindInv, FindAt
    <2>3. call[t].key \notin Dict!Stored
        BY <1>2, <2>1, <2>2, NotStored
    <2>4. out'[t] = <<>>
        BY <2>1 DEF AnswerInv, AnswerAt
    <2> QED
        BY <1>3, <1>4, <2>1, <2>3, <2>4, DictLookup
<1>6. CASE LookupCopy(t)
    <2> DEFINE c == cur[t]
               e == <<key[c], value[c]>>
    <2>1. pc[t] = "copy" /\ call[t].op = "lookup" /\ c \in Nodes
        BY <1>6 DEF LookupCopy, Valid, ReadersInv, ReaderInv
    <2>2. out'[t] = <<value[c]>>
        BY <1>6 DEF LookupCopy, TypeInv, TypeOK
    <2>3. key[c] = call[t].key
        BY <2>1 DEF FindInv, FindAt
    <2>4. e \in Entries /\ e[1] = call[t].key /\ out'[t] = <<e[2]>>
        BY <1>2, <2>1, <2>2, <2>3 DEF Entries
    <2> HIDE DEF e
    <2> QED
        BY <1>3, <1>4, <2>1, <2>4, DictLookup
<1>7. CASE PrintEnd(t)
    <2>1. pc[t] = "traverse" /\ stack[t] = <<>> /\ call[t].op = "print_info" /\ out' = out
        BY <1>7 DEF PrintEnd, frameVars
    <2>2. Printed(out[t], <<>>)
        BY <2>1 DEF PrintInv, Printing
    <2>3. /\ out[t] \in [1..Cardinality(Dict!Stored) -> Dict!Stored]
          /\ \A i, j \in DOMAIN out[t] : i < j => out[t][i] < out[t][j]
        BY <1>2, <2>2, PrintedAll
    <2>4. Replied' = [Replied EXCEPT ![t] = Reply(0, out[t])]
        BY <1>4, <2>1
    <2> QED
        BY <1>3, <2>1, <2>3, <2>4, DictPrint
<1> QED
    BY <1>5, <1>6, <1>7

LEMMA EndMaps ==
    ASSUME TypeInv, MutexInv, AnswerInv, NEW t \in Threads, TerminateEnd(t) \/ Return(t)
    PROVE  Dict!Next
<1>1. CASE TerminateEnd(t)
    <2>1. /\ Ending(t) /\ tree' = "none" /\ ret' = [ret EXCEPT ![t] = 0] /\ UNCHANGED <<call, out>>
        BY <1>1 DEF TerminateEnd, Ending, Answer, frameVars
    <2>2. Entries = {} /\ Entries' = {}
        BY <2>1 DEF Entries, MutexInv
    <2>3. Replied[t] = Reply(NULL, <<>>) /\ out[t] = <<>> /\ call[t].op = "terminate"
        BY <2>1, Unanswered DEF Ending, AnswerInv, AnswerAt, Reads
    <2>4. Replied' = [Replied EXCEPT ![t] = Reply(0, <<>>)]
        BY <2>1, <2>3, ReplyStep, Answered DEF TypeInv
    <2> QED
        BY <2>1, <2>2, <2>3, <2>4, AskSame, DictTerminated
<1>2. CASE Return(t)
    <2>1. /\ pc[t] = "return" /\ UNCHANGED <<tree, block, key, value>>
          /\ call' = [call EXCEPT ![t] = NoCall] /\ ret' = [ret EXCEPT ![t] = NULL]
          /\ \A u \in Threads : u # t => out'[u] = out[u]
        BY <1>2 DEF Return, Answer, treeVars, heapVars, TypeInv, TypeOK
    <2>2. Entries' = Entries
        BY <2>1, EntriesSame DEF Nodes
    <2>3. Asked' = [Asked EXCEPT ![t] = Asking(NoCall)]
        BY <2>1, AskStep DEF TypeInv
    <2>4. Replied' = [Replied EXCEPT ![t] = Reply(NULL, <<>>)]
        BY <2>1, ReplyStep DEF TypeInv
    <2>5. Replied[t] # Reply(NULL, <<>>)
        <3>1. ret[t] # NULL
            BY <2>1 DEF AnswerInv, AnswerAt
        <3> QED
            BY <3>1 DEF Replied, Reply
    <2> QED
        BY <2>2, <2>3, <2>4, <2>5, DictReturn
<1> QED
    BY <1>1, <1>2

LEMMA StepMaps ==
    ASSUME LongKeys = {}, TypeInv, MutexInv, HeapInv, OrderInv, ReadersInv, FindInv, AnswerInv, PrintInv,
           [Next]_vars
    PROVE  [Dict!Next]_Dict!vars
<1>1. CASE UNCHANGED vars
    <2>1. UNCHANGED <<tree, block, key, value, call, ret, out>>
        BY <1>1 DEF vars, treeVars, heapVars, frameVars
    <2>2. Entries' = Entries
        BY <2>1, EntriesSame DEF Nodes
    <2> QED
        BY <2>1, <2>2, AskSame, ReplySame, Unseen
<1>2. ASSUME NEW t \in Threads, Run(t) PROVE Dict!Next \/ UNCHANGED Dict!vars
    <2>1. CASE Lock(t) \/ Unlock(t) \/ Fault(t)
        BY <2>1, HiddenMaps
    <2>2. CASE Add(t)
        BY <2>2, HiddenMaps, AddMaps DEF Add
    <2>3. CASE Del(t)
        BY <2>3, HiddenMaps, DelMaps DEF Del
    <2>4. CASE Lookup(t)
        BY <2>4, HiddenMaps, ReadMaps DEF Lookup
    <2>5. CASE Traverse(t)
        BY <2>5, HiddenMaps, ReadMaps, EndMaps DEF Traverse
    <2>6. CASE Return(t)
        BY <2>6, EndMaps
    <2> QED
        BY <1>2, <2>1, <2>2, <2>3, <2>4, <2>5, <2>6 DEF Run
<1> QED
    BY <1>1, <1>2, StartMaps DEF Next

\* The tree is the dictionary that binary-tree.h promises, whatever the threads
\* add and delete and wherever they are interleaved, as long as the readers run
\* alone and no key is longer than init_node keeps.
THEOREM TreeIsDictionary ==
    ASSUME LongKeys = {}
    PROVE  AloneSpec => Linearizable
<1> DEFINE I == TypeInv /\ MutexInv /\ HeapInv /\ OrderInv /\ ReadersInv /\ FindInv /\ AnswerInv /\ PrintInv
<1>1. Init => I
    <2>1. Init => ReadersInv
        <3> SUFFICES ASSUME Init PROVE ReadersInv
            OBVIOUS
        <3>1. \A t \in Threads : pc[t] = "idle" /\ call[t].op = "none"
            BY DEF Init, NoCall
        <3> QED
            BY <3>1 DEF ReadersInv, ReaderAlone, ReaderInv, Reads
    <2> QED
        BY <2>1, TypeInit, MutexInit, HeapInit, OrderInit, FindInit, AnswerInit, PrintInit
<1>2. I /\ [Next /\ ReaderAlone']_vars => I'
    <2> SUFFICES ASSUME I, [Next /\ ReaderAlone']_vars PROVE I'
        OBVIOUS
    <2>1. [Next]_vars
        OBVIOUS
    <2>2. TypeInv' /\ MutexInv' /\ HeapInv' /\ OrderInv'
        BY <2>1, TypeNext, MutexNext, HeapNext, OrderNext
    <2> QED
        BY <2>1, <2>2, ReadersNext, FindNext, AnswerNext, PrintNext
<1>3. Init => Dict!Init
    <2> SUFFICES ASSUME Init PROVE Dict!Init
        OBVIOUS
    <2>1. Nodes = {} /\ \A t \in Threads : call[t] = NoCall /\ ret[t] = NULL
        BY DEF Init, Nodes
    <2> QED
        BY <2>1 DEF Dict!Init, Dict!NoCall, Dict!Pending, NoCall
<1>4. I /\ [Next /\ ReaderAlone']_vars => [Dict!Next]_Dict!vars
    BY StepMaps
<1> HIDE DEF I
<1> QED
    BY <1>1, <1>2, <1>3, <1>4, PTL DEF AloneSpec, Linearizable, Dict!Spec
=============================================================================
