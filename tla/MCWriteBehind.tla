---------------------------- MODULE MCWriteBehind ---------------------------
(* TLC instances of WriteBehind. *)
EXTENDS WriteBehind
=============================================================================
