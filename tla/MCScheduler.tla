----------------------------- MODULE MCScheduler -----------------------------
(* TLC instance of Scheduler. *)
EXTENDS Scheduler

CONSTANTS w1, w2, x1, x2
=============================================================================
