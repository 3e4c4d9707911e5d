--------------------------- MODULE MCBoundedQueue ---------------------------
(* TLC instances of BoundedQueue. *)
EXTENDS BoundedQueue

CONSTANTS p1, p2, c1, c2

Blocking == {"Block"}
=============================================================================
