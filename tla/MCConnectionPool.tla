---------------------------- MODULE MCConnectionPool ----------------------------
(* Small instances of ConnectionPool for TLC: the values of its constants. *)
EXTENDS ConnectionPool

CONSTANTS t1, t2, release, q1

EndpointOf == [e \in Edits |-> "release"]

\* Topped up after a hard stop and not released yet: one deduction above its
\* warning threshold, two above its hard stop.
ToppedUp == [balance |-> 5, warning |-> 4, hardStop |-> 2, status |-> "hard_stop", warned |-> FALSE]
===============================================================================
