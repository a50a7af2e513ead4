----------------------------- MODULE MCBinaryTree -----------------------------
(* Small instances of BinaryTree for TLC. *)
EXTENDS BinaryTreeProperties, TLC

CONSTANTS t1, t2

One  == {t1}
Two  == {t1, t2}
TheOther == {t2}
Nobody == {}
NoKeys == {}
OneLong == {3}
Empty == {NULL}
Garbage == {NULL, Wild}

AddrSymmetry == Permutations(Addr)
===============================================================================
