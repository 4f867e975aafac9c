---------------------------- MODULE PrepaidAccount ----------------------------
(***************************************************************************)
(* What the credit service promises its callers, without saying how: a     *)
(* prepaid account from which a request first reserves its estimated cost  *)
(* and later either pays its actual cost or gets the reservation back,     *)
(* each as one indivisible step.  There are no locks, no cache and no      *)
(* transactions here; CreditHold shows that the code's row locks, Redis    *)
(* keys and database transactions implement exactly this.                  *)
(***************************************************************************)
EXTENDS Integers

CONSTANTS
    Users,      \* the account holders
    Requests,   \* the gateway requests
    UserOf,     \* the user a request is billed to
    Opening,    \* the credit an account is opened with
    Estimates,  \* the amounts a request may reserve
    Costs,      \* the amounts a request may turn out to cost
    TopUps      \* the amounts a payment may add

VARIABLES
    balance,    \* the credit a user can still spend
    ledger,     \* the sum of the transactions booked for a user
    phase,      \* how far a request has got
    reserved    \* what a request has taken out of the balance so far

vars == <<balance, ledger, phase, reserved>>

Init ==
    /\ balance  = [u \in Users |-> Opening]
    /\ ledger   = [u \in Users |-> Opening]
    /\ phase    = [r \in Requests |-> "idle"]
    /\ reserved = [r \in Requests |-> 0]

Move(f, u, amount) == [f EXCEPT ![u] = @ + amount]

\* A reservation is granted only out of credit that is there.
Reserve(r, estimate) ==
    /\ phase[r] = "idle"
    /\ estimate <= balance[UserOf[r]]
    /\ balance'  = Move(balance, UserOf[r], -estimate)
    /\ reserved' = [reserved EXCEPT ![r] = estimate]
    /\ phase'    = [phase EXCEPT ![r] = "reserved"]
    /\ UNCHANGED ledger

\* A served request pays what it cost, neither more nor less.
Pay(r, cost) ==
    /\ phase[r] = "reserved"
    /\ balance'  = Move(balance, UserOf[r], reserved[r] - cost)
    /\ ledger'   = Move(ledger, UserOf[r], -cost)
    /\ reserved' = [reserved EXCEPT ![r] = cost]
    /\ phase'    = [phase EXCEPT ![r] = "paid"]

\* A request that was not served gets all of its reservation back.
GiveBack(r) ==
    /\ phase[r] = "reserved"
    /\ balance'  = Move(balance, UserOf[r], reserved[r])
    /\ reserved' = [reserved EXCEPT ![r] = 0]
    /\ phase'    = [phase EXCEPT ![r] = "given_back"]
    /\ UNCHANGED ledger

Deposit(u, amount) ==
    /\ balance' = Move(balance, u, amount)
    /\ ledger'  = Move(ledger, u, amount)
    /\ UNCHANGED <<phase, reserved>>

Next ==
    \/ \E r \in Requests :
          \/ \E estimate \in Estimates : Reserve(r, estimate)
          \/ \E cost \in Costs : Pay(r, cost)
          \/ GiveBack(r)
    \/ \E u \in Users, amount \in TopUps : Deposit(u, amount)

Spec == Init /\ [][Next]_vars
===============================================================================
