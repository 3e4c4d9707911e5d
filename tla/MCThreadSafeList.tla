------------------------- MODULE MCThreadSafeList ---------------------------
(* TLC instance of ThreadSafeList. *)
EXTENDS ThreadSafeList

CONSTANTS t1, t2, n1, n2, n3

\* A caller looks for one node, as by a subscriber's id, or for all but one.
OneOrMost == {{n} : n \in Nodes} \cup {Nodes \ {n2}}
=============================================================================
