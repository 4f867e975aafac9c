----------------------------- MODULE MCAdminConfig -----------------------------
(* Small instances of AdminConfig for TLC: the names of its rows and requests. *)
EXTENDS AdminConfig

CONSTANTS m1, bomb, fraud, e1, e2, q1
===============================================================================
