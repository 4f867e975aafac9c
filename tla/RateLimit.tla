-------------------------------- MODULE RateLimit --------------------------------
(***************************************************************************)
(* The requests per minute of a virtual key: middleware/rate_limit.py.     *)
(*                                                                         *)
(* A request reads the clock, increments the counter of its key and minute *)
(* in Redis and, if it was the first, gives the counter a time to live.    *)
(* These are three steps: requests of one key, of several minutes, may be  *)
(* between them at the same time, and each of the two commands may fail,   *)
(* which lets the request pass.                                            *)
(***************************************************************************)
EXTENDS Integers, FiniteSets

CONSTANTS
    Requests,       \* requests to the gateway
    Keys,           \* virtual keys
    KeyOf,          \* the key of a request
    Limits,         \* values of rate_limit_rpm
    Window,         \* WINDOW_SECONDS
    Lag,            \* seconds from reading the clock to the last command
    Horizon,        \* the last second a request arrives in (bound of the model)
    Faults,         \* what may go wrong in this instance
    None            \* no limit, no time to live

FaultKinds ==
    { "redis",      \* a Redis command raises, carried out or not
      "crash" }     \* the backend process dies

\* A coroutine that stalls for more than a minute between the clock and the
\* INCR is out of reach of the limiter.
ASSUME WindowAssumption ==
    /\ Window \in Nat \ {0}
    /\ Lag \in 0..Window
    /\ Horizon \in Nat

ASSUME RequestAssumption ==
    /\ IsFiniteSet(Requests)
    /\ KeyOf \in [Requests -> Keys]
    /\ Limits \subseteq Nat \cup {None}
    /\ None \notin Nat
    /\ Faults \subseteq FaultKinds

\* Mutant of TTL: the counter of a minute lives for the minute.
TTLOfWindow == Window \div 2

\* RATE_LIMIT_TTL: the current and the previous window.
TTL == 2 * Window

\* Mutant of WindowOf: the counter is kept for its whole TTL.
WindowOfTTL(t) == t \div (2 * Window)

\* minute_window.
WindowOf(t) == t \div Window

Windows == 0..WindowOf(Horizon)
Slots   == Keys \X Windows

-------------------------------------------------------------------------------
VARIABLES
    now,        \* the clock of the server
    limit,      \* rate_limit_rpm of every key
    count,      \* the counters in Redis, 0 for a key that does not exist
    expiry,     \* when a counter ends, None for a key without a TTL
    pc,         \* how far a request has got
    stamp,      \* the clock as the request read it
    ticket      \* what INCR returned, 0 if it was not carried out

redis == <<count, expiry>>
vars  == <<now, limit, redis, pc, stamp, ticket>>

Init ==
    /\ now    = 0
    /\ limit  \in [Keys -> Limits]
    /\ count  = [s \in Slots |-> 0]
    /\ expiry = [s \in Slots |-> None]
    /\ pc     = [r \in Requests |-> "idle"]
    /\ stamp  = [r \in Requests |-> 0]
    /\ ticket = [r \in Requests |-> 0]

\* The Redis key of a request.
Slot(r)  == <<KeyOf[r], WindowOf(stamp[r])>>
Quota(r) == limit[KeyOf[r]]

InFlight == { r \in Requests : pc[r] \in {"stamped", "first"} }

-------------------------------------------------------------------------------
GoTo(r, state) == pc' = [pc EXCEPT ![r] = state]

\* enforce_rate_limit.
Arrive(r) ==
    /\ pc[r] = "idle"
    /\ now <= Horizon
    /\ IF Quota(r) = None
       THEN GoTo(r, "unlimited") /\ UNCHANGED stamp
       ELSE GoTo(r, "stamped") /\ stamp' = [stamp EXCEPT ![r] = now]
    /\ UNCHANGED <<now, limit, redis, ticket>>

\* Mutant of Verdict: one request more than the limit.
VerdictOffByOne(r, n) == IF n > Quota(r) + 1 THEN "rejected" ELSE "admitted"

Verdict(r, n) == IF n > Quota(r) THEN "rejected" ELSE "admitted"

Increment(r) ==
    /\ count'  = [count EXCEPT ![Slot(r)] = @ + 1]
    /\ ticket' = [ticket EXCEPT ![r] = count[Slot(r)] + 1]
    /\ UNCHANGED expiry

\* A key that has expired meanwhile gets no TTL.
SetTTL(r) ==
    /\ expiry' = [expiry EXCEPT ![Slot(r)] = IF count[Slot(r)] > 0 THEN now + TTL ELSE None]
    /\ UNCHANGED <<count, ticket>>

\* Mutant of Incr: no TTL for the first request of a window.
IncrOnly(r) ==
    /\ pc[r] = "stamped"
    /\ Increment(r)
    /\ GoTo(r, Verdict(r, ticket'[r]))
    /\ UNCHANGED <<now, limit, stamp>>

Incr(r) ==
    /\ pc[r] = "stamped"
    /\ Increment(r)
    /\ GoTo(r, IF ticket'[r] = 1 THEN "first" ELSE Verdict(r, ticket'[r]))
    /\ UNCHANGED <<now, limit, stamp>>

Expire(r) ==
    /\ pc[r] = "first"
    /\ SetTTL(r)
    /\ GoTo(r, Verdict(r, ticket[r]))
    /\ UNCHANGED <<now, limit, stamp>>

\* The limiter fails open.
RedisFails(r) ==
    /\ "redis" \in Faults
    /\ \/ pc[r] = "stamped" /\ (Increment(r) \/ UNCHANGED <<redis, ticket>>)
       \/ pc[r] = "first" /\ (SetTTL(r) \/ UNCHANGED <<redis, ticket>>)
    /\ GoTo(r, "open")
    /\ UNCHANGED <<now, limit, stamp>>

Crash ==
    /\ "crash" \in Faults
    /\ InFlight # {}
    /\ pc' = [r \in Requests |-> IF r \in InFlight THEN "lost" ELSE pc[r]]
    /\ UNCHANGED <<now, limit, redis, stamp, ticket>>

Expired(s) == expiry[s] # None /\ expiry[s] <= now + 1

\* A second passes; Redis drops what has expired.
Tick ==
    /\ now < Horizon + Lag + TTL
    /\ \A r \in InFlight : now < stamp[r] + Lag
    /\ now'    = now + 1
    /\ count'  = [s \in Slots |-> IF Expired(s) THEN 0 ELSE count[s]]
    /\ expiry' = [s \in Slots |-> IF Expired(s) THEN None ELSE expiry[s]]
    /\ UNCHANGED <<limit, pc, stamp, ticket>>

-------------------------------------------------------------------------------
RequestStep(r) == Arrive(r) \/ Incr(r) \/ Expire(r)

Next ==
    \/ \E r \in Requests : RequestStep(r) \/ RedisFails(r)
    \/ Tick \/ Crash

Spec == Init /\ [][Next]_vars

-------------------------------------------------------------------------------
(* What must hold.                                                         *)

\* The types of the variables.
TypeOK ==
    /\ now    \in Nat
    /\ limit  \in [Keys -> Limits]
    /\ count  \in [Slots -> Nat]
    /\ expiry \in [Slots -> Nat \cup {None}]
    /\ pc     \in [Requests -> {"idle", "unlimited", "stamped", "first", "open",
                                "admitted", "rejected", "lost"}]
    /\ stamp  \in [Requests -> 0..Horizon]
    /\ ticket \in [Requests -> Nat]

\* The requests of a key admitted by their count that read the clock between
\* two times.
AdmittedBetween(k, from, to) ==
    { r \in Requests : pc[r] = "admitted" /\ KeyOf[r] = k /\ stamp[r] \in from..to }

\* No minute admits more requests than the limit, however late their commands
\* reach Redis: the counter outlives every request of its window.
WindowsKeepLimit ==
    \A k \in Keys, w \in Windows :
        limit[k] # None =>
            Cardinality(AdmittedBetween(k, w * Window, w * Window + Window - 1)) <= limit[k]

\* Sixty seconds that straddle two windows admit twice the limit at most.
BurstIsBounded ==
    \A k \in Keys, t \in 0..Horizon :
        limit[k] # None =>
            Cardinality(AdmittedBetween(k, t, t + Window - 1)) <= 2 * limit[k]

\* A request is rejected only if its key has used up its quota in the same
\* window: other keys and earlier windows count for nothing.
RejectedOnlyAtLimit ==
    \A r \in Requests :
        pc[r] = "rejected" =>
            Cardinality({ s \in Requests :
                /\ KeyOf[s] = KeyOf[r]
                /\ stamp[s] \div Window = stamp[r] \div Window
                /\ ticket[s] > 0 }) > Quota(r)

\* Every counter is going to end: it has a TTL or its first request is about to
\* set it.  Only if that failed or died in between the counter stays for good,
\* as no later request sets a TTL.
CountersEnd ==
    \A s \in Slots : count[s] > 0 /\ expiry[s] = None =>
        \E r \in Requests : Slot(r) = s /\ ticket[r] = 1 /\ pc[r] \in {"first", "open", "lost"}
===============================================================================
