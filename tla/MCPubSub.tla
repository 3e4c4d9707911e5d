------------------------------ MODULE MCPubSub ------------------------------
(* TLC instance of PubSub. *)
EXTENDS PubSub

CONSTANTS w1, w2, s1, s2
=============================================================================
