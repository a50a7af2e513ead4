------------------------- MODULE MCBinaryTreeReader -------------------------
(* One writer beside one reader. *)
EXTENDS BinaryTreeReader

CONSTANTS t1, t2

One == {t1}
TheOther == {t2}
NoKeys == {}
Empty == {NULL}
=============================================================================
