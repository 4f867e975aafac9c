------------------------------ MODULE MCVirtualKeys ------------------------------
(* Small instances of VirtualKeys for TLC: the values of its constants.    *)
EXTENDS VirtualKeys

CONSTANTS k1, k2, k3, v1, v2, a1, a2

\* The key that is used and revoked; the others are created meanwhile.
KeyFor == [c \in Revocations \cup Requests |-> k1]
===============================================================================
