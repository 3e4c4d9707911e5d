------------------------------- MODULE MCRpc -------------------------------
\* A call and a second one with the same objects.
EXTENDS Rpc
=============================================================================
