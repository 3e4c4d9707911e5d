------------------------------ MODULE MCServer ------------------------------
(* TLC instance of Server. *)
EXTENDS Server, TLC

CONSTANTS s1, p1, p2, k1, k2

\* Handlers are interchangeable.
PublisherSymmetry == Permutations(Publishers)
=============================================================================
