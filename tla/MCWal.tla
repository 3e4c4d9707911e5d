-------------------------------- MODULE MCWal -------------------------------
(* TLC instances of Wal. *)
EXTENDS Wal
=============================================================================
