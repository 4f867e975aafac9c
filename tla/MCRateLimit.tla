------------------------------ MODULE MCRateLimit ------------------------------
(* Small instances of RateLimit for TLC: the values of its constants. *)
EXTENDS RateLimit, TLC

CONSTANTS r1, r2, r3, other, k1, k2

\* Three requests of one key and one of another.
Owner == [r \in Requests |-> IF r = other THEN k2 ELSE k1]
\* The requests of one key are interchangeable.
Symmetry == Permutations({r1, r2, r3})
===============================================================================
