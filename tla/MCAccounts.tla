------------------------------- MODULE MCAccounts -------------------------------
(* Small instances of Accounts for TLC: the names of its requests.          *)
EXTENDS Accounts

CONSTANTS s1, s2, g1, g2, l1, l2, l3
===============================================================================
