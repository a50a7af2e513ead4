------------------------- MODULE MCIterativeServer -------------------------
(* Two clients of the iterative server: one that types enough to fill both  *)
(* sockets with a line in hand, and one that waits in the backlog.          *)
EXTENDS IterativeServerProperties, TLC

CONSTANTS c1, c2

MCLines == c1 :> 5 @@ c2 :> 1
=============================================================================
