--------------------------- MODULE MCProviderBalance ---------------------------
(* Small instances of ProviderBalance for TLC: the values of its constants. *)
EXTENDS ProviderBalance

CONSTANTS t1, t2, t3, balance, thresholds, release, q1

\* One edit of each kind, named after its endpoint.
EndpointOf == [e \in Edits |->
    CASE e = balance -> "balance" [] e = thresholds -> "thresholds" [] OTHER -> "release"]

\* One or two deductions above its thresholds.
Healthy == [balance |-> 5, warning |-> 4, hardStop |-> 2, status |-> "normal", warned |-> FALSE]

\* In hard stop although its balance has been topped up: an administrator has
\* entered a new balance and not released the provider yet.
Stopped == [balance |-> 4, warning |-> 4, hardStop |-> 2, status |-> "hard_stop", warned |-> FALSE]
===============================================================================
