--------------------------- MODULE MCSubscriptions ---------------------------
(* TLC instance of Subscriptions. *)
EXTENDS Subscriptions

CONSTANTS s1, s2, s3, p1, p2
=============================================================================
