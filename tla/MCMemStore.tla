----------------------------- MODULE MCMemStore -----------------------------
(* TLC instance of MemStore. *)
EXTENDS MemStore

CONSTANTS a, b

\* Keys are interchangeable.
KeySymmetry == Permutations(Keys)
=============================================================================
