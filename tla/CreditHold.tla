------------------------------ MODULE CreditHold ------------------------------
(***************************************************************************)
(* The credit side of a gateway request: services/credit.py, its callers   *)
(* in api/gateway.py and services/post_process.py, and the Stripe webhook  *)
(* of api/billing.py.                                                      *)
(*                                                                         *)
(* A request takes its estimated cost out of credit_accounts.balance_usd   *)
(* under SELECT ... FOR UPDATE, commits, calls LiteLLM, and later settles  *)
(* or releases the hold in another transaction.  The amount held is known  *)
(* only to the Redis key credit_hold:{request_id}, which lives 60 seconds. *)
(* Requests of a user and payments by that user interleave at every await. *)
(*                                                                         *)
(* Money is counted in an arbitrary whole unit.                            *)
(***************************************************************************)
EXTENDS Integers, FiniteSets, Functions

CONSTANTS
    Users,          \* the users with a credit account
    Requests,       \* the chat completions and embeddings sent to the gateway
    Payments,       \* Stripe payment intents that succeeded
    UserOf,         \* the account each request or payment belongs to
    TopUp,          \* the amount of a payment
    FreeCredit,     \* the credit an account is opened with
    Models,         \* the active models
    InputPrice,     \* price of an input token of a model
    OutputPrice,    \* price of an output token of a model
    Markup,         \* 1 + the markup rate resolved for a model
    Routes,         \* the models a request for a model may be routed to
    TokenLimits,    \* the max_tokens a body may name, or the default of 2048
    Usages,         \* the token usages LiteLLM may report for a body
    MaxDeliveries,  \* bound: how often Stripe delivers one event
    Faults,         \* what may go wrong in this instance
    None            \* no lock, no Redis key, no charge

Txns == Requests \cup Payments

Asks == [model : Models, maxTokens : TokenLimits]

FaultKinds ==
    { "expiry",      \* a hold key outlives its 60 second TTL
      "redis",       \* a Redis command raises
      "abandon",     \* the client disconnects mid-stream, or the handler
                     \* raises, after the hold was committed
      "rollback",    \* the database refuses a statement or the COMMIT
      "crash",       \* the backend process dies
      "email",       \* the mail provider refuses an email, which is only logged
      "redelivery" } \* Stripe delivers an event that was already processed

ASSUME UserAssumption ==
    /\ Requests \cap Payments = {}
    /\ UserOf \in [Txns -> Users]
    /\ FreeCredit \in Nat
    /\ TopUp \in [Payments -> Nat]
    /\ None \notin Txns
    /\ None \notin Int

\* A run of the backend sees finitely many requests.
ASSUME RequestAssumption == IsFiniteSet(Requests)

\* max_tokens is taken from the body unchecked, a negative one included; it is
\* not what bounds a completion, since the default and what an embedding is
\* estimated at are never sent to LiteLLM.
ASSUME PriceAssumption ==
    /\ InputPrice  \in [Models -> Nat]
    /\ OutputPrice \in [Models -> Nat]
    /\ Markup \in [Models -> Nat]
    /\ Routes \in [Models -> SUBSET Models]
    /\ TokenLimits \subseteq Int
    /\ Usages \in [Asks -> SUBSET [prompt : Nat, completion : Nat]]

ASSUME FaultAssumption == Faults \subseteq FaultKinds

-------------------------------------------------------------------------------
(* What a request is estimated to cost and what it is billed.              *)

\* Mutant of EstimateMaxCost: the input price instead of the output price.
EstimateAtInputPrice(m, maxTokens) == maxTokens * InputPrice[m] * Markup[m]

\* estimate_max_cost: output price only, prompt tokens are not counted.
EstimateMaxCost(m, maxTokens) == maxTokens * OutputPrice[m] * Markup[m]

\* _compute_base_cost for the model that served, times the markup resolved
\* for the model that was asked for.
BilledAmount(asked, served, usage) ==
    (usage.prompt * InputPrice[served] + usage.completion * OutputPrice[served])
        * Markup[asked]

Estimates == { EstimateMaxCost(m, k) : m \in Models, k \in TokenLimits }

\* The bills a request may run up: routing picks the model, the provider
\* reports the usage.
Bills(body) ==
    { BilledAmount(body.model, served, usage) :
        served \in Routes[body.model], usage \in Usages[body] }

-------------------------------------------------------------------------------
VARIABLES
    \* credit_accounts and credit_transactions
    balance,        \* balance_usd of a user
    ledger,         \* sum of amount_usd over a user's credit_transactions
    lastTopup,      \* last_topup_amount of a user, 0 when NULL
    coolingDown,    \* low_balance_alert_sent_at is less than 24 hours old
    lock,           \* the transaction holding the row lock of an account
    \* Redis
    redis,          \* the amount under a request's hold key
    \* the handlers
    pc,             \* how far a request or a webhook delivery has got
    ask,            \* model and max_tokens in a request's body
    snap,           \* the balance a transaction read under its lock
    seen,           \* the hold amount a request read back from Redis
    cost,           \* billed_amount of a request, None when it is not charged
    deliveries,     \* how often a payment was credited
    \* history
    charged,        \* what a request has taken out of the balance, net
    emails          \* low credit emails since the last top-up or cooldown

accounts == <<balance, ledger, charged>>
alerts   == <<lastTopup, coolingDown, emails>>
inputs   == <<ask, cost, deliveries>>
vars     == <<accounts, alerts, inputs, lock, redis, pc, snap, seen>>

Estimate(r) == EstimateMaxCost(ask[r].model, ask[r].maxTokens)

\* The request holds the row lock and will write the balance it read.
LockedStates == {"holding", "restoring", "charging", "crediting"}

\* The hold was committed and neither settled nor released yet.
InFlight == {"held", "answered", "releasing", "settling", "restoring", "charging"}

\* A hold that was taken and neither settled nor released, by whatever cause.
Open == InFlight \cup {"lost"}

RequestStates ==
    {"new", "holding", "refused", "failed", "released", "settled"} \cup Open

PaymentStates == {"due", "crediting", "credited"}

Init ==
    /\ balance     = [u \in Users |-> FreeCredit]
    /\ ledger      = [u \in Users |-> FreeCredit]
    /\ lastTopup   = [u \in Users |-> 0]
    /\ coolingDown = [u \in Users |-> FALSE]
    /\ lock        = [u \in Users |-> None]
    /\ redis       = [r \in Requests |-> None]
    /\ pc          = [t \in Txns |-> IF t \in Requests THEN "new" ELSE "due"]
    /\ ask         \in [Requests -> Asks]
    /\ snap        = [t \in Txns |-> 0]
    /\ seen        = [r \in Requests |-> None]
    /\ cost        = [r \in Requests |-> None]
    /\ deliveries  = [p \in Payments |-> 0]
    /\ charged     = [r \in Requests |-> 0]
    /\ emails      = [u \in Users |-> 0]

-------------------------------------------------------------------------------
(* Row locks and the Redis hold key.                                       *)

\* Mutant of CanLock: a plain SELECT.
CanRead(u) == TRUE

\* SELECT ... FOR UPDATE returns once no other transaction holds the row.
CanLock(u) == lock[u] = None

SelectForUpdate(t) ==
    LET u == UserOf[t]
    IN  /\ CanLock(u)
        /\ lock' = [lock EXCEPT ![u] = t]
        /\ snap' = [snap EXCEPT ![t] = balance[u]]

\* COMMIT and ROLLBACK both release the row, if the transaction had it.
Unlock(t) == lock' = [lock EXCEPT ![UserOf[t]] = IF @ = t THEN None ELSE @]

GoTo(t, state) == pc' = [pc EXCEPT ![t] = state]

\* Mutant of StoreHoldKey: the key names the request and not its amount.
StoreRequest(r) == redis' = [redis EXCEPT ![r] = r]

\* redis.set, redis.get and redis.delete each sit in a try that swallows
\* every exception.
StoreHoldKey(r) ==
    \/ redis' = [redis EXCEPT ![r] = Estimate(r)]
    \/ "redis" \in Faults /\ UNCHANGED redis

GetHoldAmount(r) ==
    \/ seen' = [seen EXCEPT ![r] = redis[r]]
    \/ "redis" \in Faults /\ seen' = [seen EXCEPT ![r] = None]

ReleaseRedisHold(r) ==
    \/ redis' = [redis EXCEPT ![r] = None]
    \/ "redis" \in Faults /\ UNCHANGED redis

-------------------------------------------------------------------------------
(* Holding: gateway step 4 and hold_credit.                                *)

BeginHold(r) ==
    /\ pc[r] = "new"
    /\ SelectForUpdate(r)
    /\ GoTo(r, "holding")
    /\ UNCHANGED <<accounts, alerts, inputs, redis, seen>>

\* InsufficientCreditError: answered 402, nothing written.
Refuse(r) ==
    /\ pc[r] = "holding"
    /\ snap[r] < Estimate(r)
    /\ Unlock(r)
    /\ GoTo(r, "refused")
    /\ UNCHANGED <<accounts, alerts, inputs, redis, snap, seen>>

CommitHold(r) ==
    /\ pc[r] = "holding"
    /\ snap[r] >= Estimate(r)
    /\ balance' = [balance EXCEPT ![UserOf[r]] = snap[r] - Estimate(r)]
    /\ charged' = [charged EXCEPT ![r] = Estimate(r)]
    /\ StoreHoldKey(r)
    /\ Unlock(r)
    /\ GoTo(r, "held")
    /\ UNCHANGED <<ledger, alerts, inputs, snap, seen>>

\* The key is stored before the COMMIT that then fails; nobody reads it.
HoldRollsBack(r) ==
    /\ "rollback" \in Faults
    /\ pc[r] = "holding"
    /\ UNCHANGED redis \/ StoreHoldKey(r)
    /\ Unlock(r)
    /\ GoTo(r, "failed")
    /\ UNCHANGED <<accounts, alerts, inputs, snap, seen>>

-------------------------------------------------------------------------------
(* Releasing: an input or output guardrail hit, a blocked route, a failed  *)
(* or timed out call, a failed stream; in post-processing, a cache hit.    *)

\* release_hold up to its early return when no hold amount is found.
StartRelease(r) ==
    /\ GetHoldAmount(r)
    /\ GoTo(r, IF seen'[r] = None THEN "released" ELSE "releasing")

FailCall(r) ==
    /\ pc[r] = "held"
    /\ StartRelease(r)
    /\ UNCHANGED <<accounts, alerts, inputs, lock, redis, snap>>

\* LiteLLM answered and the response is on the wire: the background task is
\* queued.  cost stays None on a cache hit.
Answer(r) ==
    /\ pc[r] = "held"
    /\ \E amount \in Bills(ask[r]) \cup {None} : cost' = [cost EXCEPT ![r] = amount]
    /\ GoTo(r, "answered")
    /\ UNCHANGED <<accounts, alerts, ask, deliveries, lock, redis, snap, seen>>

\* Mutant of PostProcess: a cache hit leaves the hold as it is.
PostProcessMissOnly(r) ==
    /\ pc[r] = "answered"
    /\ cost[r] # None
    /\ GetHoldAmount(r)
    /\ GoTo(r, "settling")
    /\ UNCHANGED <<accounts, alerts, inputs, lock, redis, snap>>

\* post_process_usage up to the row lock on the account.
PostProcess(r) ==
    /\ pc[r] = "answered"
    /\ \/ cost[r] = None /\ StartRelease(r)
       \/ cost[r] # None /\ GetHoldAmount(r) /\ GoTo(r, "settling")
    /\ UNCHANGED <<accounts, alerts, inputs, lock, redis, snap>>

LockToRelease(r) ==
    /\ pc[r] = "releasing"
    /\ SelectForUpdate(r)
    /\ GoTo(r, "restoring")
    /\ UNCHANGED <<accounts, alerts, inputs, redis, seen>>

Restore(r) ==
    /\ pc[r] = "restoring"
    /\ balance' = [balance EXCEPT ![UserOf[r]] = snap[r] + seen[r]]
    /\ charged' = [charged EXCEPT ![r] = @ - seen[r]]
    /\ ReleaseRedisHold(r)
    /\ Unlock(r)
    /\ GoTo(r, "released")
    /\ UNCHANGED <<ledger, alerts, inputs, snap, seen>>

-------------------------------------------------------------------------------
(* Settling: settle_credit and the low credit alert of post-processing.    *)

LockToSettle(r) ==
    /\ pc[r] = "settling"
    /\ SelectForUpdate(r)
    /\ GoTo(r, "charging")
    /\ UNCHANGED <<accounts, alerts, inputs, redis, seen>>

\* Mutant of SettledBalance: the hold is not refunded.
SettledOnTop(r) == snap[r] - cost[r]

\* Mutant of SettledBalance: the cost is not deducted.
HoldRefunded(r) == IF seen[r] # None THEN snap[r] + seen[r] ELSE snap[r]

\* The hold is refunded and the cost deducted; without a hold amount the
\* cost is deducted on its own.
SettledBalance(r) ==
    IF seen[r] # None THEN snap[r] + (seen[r] - cost[r]) ELSE snap[r] - cost[r]

\* Mutant of AlertDue: no cooldown.
BelowFifth(u, newBalance) == lastTopup[u] > 0 /\ 5 * newBalance < lastTopup[u]

\* Below a fifth of the last top-up and not alerted in the last 24 hours.
AlertDue(u, newBalance) ==
    /\ lastTopup[u] > 0
    /\ 5 * newBalance < lastTopup[u]
    /\ ~coolingDown[u]

\* send_email swallows whatever the mail provider raises.
SendLowCredit(u) ==
    \/ emails' = [emails EXCEPT ![u] = @ + 1]
    \/ "email" \in Faults /\ UNCHANGED emails

\* The email goes out before the COMMIT that stamps it, and a refused one is
\* stamped all the same.
CheckLowCredit(u, newBalance) ==
    \/ /\ AlertDue(u, newBalance)
       /\ SendLowCredit(u)
       /\ coolingDown' = [coolingDown EXCEPT ![u] = TRUE]
    \/ /\ ~AlertDue(u, newBalance)
       /\ UNCHANGED <<emails, coolingDown>>

Settle(r) ==
    LET u == UserOf[r]
    IN  /\ pc[r] = "charging"
        /\ balance' = [balance EXCEPT ![u] = SettledBalance(r)]
        /\ charged' = [charged EXCEPT ![r] = @ + snap[r] - SettledBalance(r)]
        /\ ledger'  = [ledger EXCEPT ![u] = @ - cost[r]]
        /\ CheckLowCredit(u, SettledBalance(r))
        /\ ReleaseRedisHold(r)
        /\ Unlock(r)
        /\ GoTo(r, "settled")
        /\ UNCHANGED <<lastTopup, inputs, snap, seen>>

-------------------------------------------------------------------------------
(* What may go wrong after the hold was committed.                         *)

\* The closing transaction rolls back.  By then the hold key may be gone and
\* the low credit email sent; nothing retries.
CloseRollsBack(r) ==
    /\ "rollback" \in Faults
    /\ pc[r] \in {"releasing", "settling", "restoring", "charging"}
    /\ \/ UNCHANGED <<redis, emails>>
       \/ /\ pc[r] \in LockedStates
          /\ ReleaseRedisHold(r)
          /\ \/ UNCHANGED emails
             \/ /\ pc[r] = "charging"
                /\ AlertDue(UserOf[r], SettledBalance(r))
                /\ SendLowCredit(UserOf[r])
    /\ Unlock(r)
    /\ GoTo(r, "lost")
    /\ UNCHANGED <<accounts, lastTopup, coolingDown, inputs, snap, seen>>

\* stream_generator is cancelled, which "except Exception" does not catch; the
\* handler raises between the hold and its closing; or the background task
\* finds no model or provider row and returns before it looks at the hold.
Abandon(r) ==
    /\ "abandon" \in Faults
    /\ pc[r] \in {"held", "answered"}
    /\ GoTo(r, "lost")
    /\ UNCHANGED <<accounts, alerts, inputs, lock, redis, snap, seen>>

Expire(r) ==
    /\ "expiry" \in Faults
    /\ redis[r] # None
    /\ redis' = [redis EXCEPT ![r] = None]
    /\ UNCHANGED <<accounts, alerts, inputs, lock, pc, snap, seen>>

AfterCrash(t) ==
    CASE pc[t] = "crediting" -> "due"
      [] pc[t] = "holding"   -> "failed"
      [] pc[t] \in InFlight  -> "lost"
      [] OTHER               -> pc[t]

\* Handlers and queued background tasks live in the process; the database
\* rolls back what was open, and Stripe will deliver the webhook again.
Crash ==
    /\ "crash" \in Faults
    /\ \E t \in Txns : AfterCrash(t) # pc[t]
    /\ pc'   = [t \in Txns |-> AfterCrash(t)]
    /\ lock' = [u \in Users |-> None]
    /\ UNCHANGED <<accounts, alerts, inputs, redis, snap, seen>>

-------------------------------------------------------------------------------
(* The Stripe webhook.  It keeps no record of the events it has processed. *)

Deliver(p) ==
    /\ \/ pc[p] = "due"
       \/ "redelivery" \in Faults /\ pc[p] = "credited"
    /\ deliveries[p] < MaxDeliveries
    /\ SelectForUpdate(p)
    /\ GoTo(p, "crediting")
    /\ UNCHANGED <<accounts, alerts, inputs, redis, seen>>

\* Mutant of CreditTopUp: the handler always raises before its COMMIT.
TopUpRefused(p) ==
    /\ pc[p] = "crediting"
    /\ Unlock(p)
    /\ GoTo(p, "due")
    /\ UNCHANGED <<accounts, alerts, inputs, redis, snap, seen>>

CreditTopUp(p) ==
    LET u == UserOf[p]
    IN  /\ pc[p] = "crediting"
        /\ balance'     = [balance EXCEPT ![u] = snap[p] + TopUp[p]]
        /\ ledger'      = [ledger EXCEPT ![u] = @ + TopUp[p]]
        /\ lastTopup'   = [lastTopup EXCEPT ![u] = TopUp[p]]
        /\ coolingDown' = [coolingDown EXCEPT ![u] = FALSE]
        /\ emails'      = [emails EXCEPT ![u] = 0]
        /\ deliveries'  = [deliveries EXCEPT ![p] = @ + 1]
        /\ Unlock(p)
        /\ GoTo(p, "credited")
        /\ UNCHANGED <<charged, ask, cost, redis, snap, seen>>

\* Answered with an error, so Stripe will deliver it again.
TopUpRollsBack(p) ==
    /\ "rollback" \in Faults
    /\ pc[p] = "crediting"
    /\ Unlock(p)
    /\ GoTo(p, "due")
    /\ UNCHANGED <<accounts, alerts, inputs, redis, snap, seen>>

\* 24 hours pass after a low credit alert.
CooldownEnds(u) ==
    /\ coolingDown[u]
    /\ coolingDown' = [coolingDown EXCEPT ![u] = FALSE]
    /\ emails'      = [emails EXCEPT ![u] = 0]
    /\ UNCHANGED <<accounts, lastTopup, inputs, lock, redis, pc, snap, seen>>

-------------------------------------------------------------------------------
\* The steps a request's handler and background task take on their own.
RequestStep(r) ==
    \/ BeginHold(r) \/ Refuse(r) \/ CommitHold(r)
    \/ FailCall(r) \/ Answer(r) \/ PostProcess(r)
    \/ LockToRelease(r) \/ Restore(r)
    \/ LockToSettle(r) \/ Settle(r)

RequestFault(r) == HoldRollsBack(r) \/ CloseRollsBack(r) \/ Abandon(r) \/ Expire(r)

PaymentStep(p) == Deliver(p) \/ CreditTopUp(p) \/ TopUpRollsBack(p)

\* Every request is over and every payment credited.
Quiescent ==
    /\ \A r \in Requests : pc[r] \in {"refused", "failed", "released", "settled", "lost"}
    /\ \A p \in Payments : pc[p] = "credited"
    /\ UNCHANGED vars

Next ==
    \/ \E r \in Requests : RequestStep(r) \/ RequestFault(r)
    \/ \E p \in Payments : PaymentStep(p)
    \/ \E u \in Users : CooldownEnds(u)
    \/ Crash
    \/ Quiescent

Spec == Init /\ [][Next]_vars

\* A handler that can take a step takes one: the event loop runs every ready
\* coroutine, the call to LiteLLM has a timeout, PostgreSQL grants a row lock
\* to its waiters in turn, and Stripe delivers an event until it is accepted.
\* Nothing makes a fault happen; but a webhook that is delivered over and over
\* does not fail every time, hence the strong fairness of its COMMIT.
Fairness ==
    /\ \A r \in Requests : WF_vars(RequestStep(r))
    /\ \A p \in Payments : WF_vars(Deliver(p)) /\ SF_vars(CreditTopUp(p))

FairSpec == Spec /\ Fairness

-------------------------------------------------------------------------------
(* What must hold.                                                         *)

\* The types of the variables.
TypeOK ==
    /\ balance     \in [Users -> Int]
    /\ ledger      \in [Users -> Int]
    /\ lastTopup   \in [Users -> Nat]
    /\ coolingDown \in [Users -> BOOLEAN]
    /\ lock        \in [Users -> Txns \cup {None}]
    /\ redis       \in [Requests -> Int \cup {None}]
    /\ pc          \in [Txns -> RequestStates \cup PaymentStates]
    /\ ask         \in [Requests -> Asks]
    /\ snap        \in [Txns -> Int]
    /\ seen        \in [Requests -> Int \cup {None}]
    /\ cost        \in [Requests -> Nat \cup {None}]
    /\ deliveries  \in [Payments -> Nat]
    /\ charged     \in [Requests -> Int]
    /\ emails      \in [Users -> Nat]

\* Between reading a hold amount and writing the balance, a release has an
\* amount to restore and a settlement has a bill: neither starts without one.
AmountsKnown ==
    \A r \in Requests :
        /\ pc[r] \in {"releasing", "restoring"} => seen[r] # None
        /\ pc[r] \in {"settling", "charging"}   => cost[r] # None

\* A transaction about to write a balance holds the row lock, and the balance
\* it read is still the balance: no update is lost, however requests and
\* payments of one user interleave (README.md:31).
RowLocked ==
    \A t \in Txns : pc[t] \in LockedStates =>
        /\ lock[UserOf[t]] = t
        /\ snap[t] = balance[UserOf[t]]

\* The part of its hold a closed request did not get back: all of it, if the
\* hold key was not found (settle_credit, release_hold).
Forfeit ==
    [r \in Requests |->
        IF pc[r] \in {"settled", "released"} /\ seen[r] = None THEN Estimate(r) ELSE 0]

\* What the code relies on but never writes down: a hold key, and an amount
\* read from one, is the estimate that was deducted or nothing at all, and
\* what a finished request was charged follows from what it read.
HoldRecord(r) ==
    /\ redis[r] \in {None, Estimate(r)}
    /\ cost[r] \in Bills(ask[r]) \cup {None}
    /\ pc[r] \in {"new", "holding", "refused", "failed"} => charged[r] = 0
    /\ pc[r] \in Open => charged[r] = Estimate(r)
    /\ pc[r] \in {"releasing", "settling", "restoring", "charging", "settled", "released"} =>
           seen[r] \in {None, Estimate(r)}
    /\ pc[r] = "settled"  => cost[r] # None /\ charged[r] = cost[r] + Forfeit[r]
    /\ pc[r] = "released" => charged[r] = Forfeit[r]

HoldsRecorded == \A r \in Requests : HoldRecord(r)

\* Whatever fails, a settled request has paid its bill and a released one
\* nothing, but for the whole hold of a request whose key was gone: with a
\* negative max_tokens that makes it pay less than its bill, otherwise more.
ChargesExplained ==
    \A r \in Requests :
        /\ pc[r] = "settled"  => charged[r] = cost[r] + Forfeit[r]
        /\ pc[r] = "released" => charged[r] = Forfeit[r]

\* Redis answers every command and no key reaches its TTL before the hold is
\* closed.
RedisIsReliable == Faults \cap {"expiry", "redis"} = {}

\* The estimate is at least every bill the request may run up, and not below
\* zero: a body with a negative max_tokens is not covered.
EstimatesCover ==
    \A a \in Asks : \A bill \in Bills(a) \cup {0} :
        bill <= EstimateMaxCost(a.model, a.maxTokens)

\* What a request has cost its user is right at every step: nothing before
\* the hold and after a release, the estimate while the hold is open, the
\* billed amount once settled.
ChargeMatchesOutcome ==
    \A r \in Requests :
        /\ pc[r] \in {"new", "holding", "refused", "failed", "released"} => charged[r] = 0
        /\ pc[r] \in Open => charged[r] = Estimate(r)
        /\ pc[r] = "settled" => charged[r] = cost[r]

OpenCharges(u) ==
    SumFunctionOnSet(charged, { r \in Requests : UserOf[r] = u /\ pc[r] \in Open })

\* The balance is the sum of the booked transactions less the open holds: a
\* concurrent top-up or settlement never makes money appear or disappear.
BooksBalance == \A u \in Users : balance[u] = ledger[u] - OpenCharges(u)

RequestsOf(u) == { r \in Requests : UserOf[r] = u }

\* Whatever fails, a balance is the booked transactions less the open holds and
\* less the holds whose key was gone when they were closed: no crash, rollback,
\* lost client or lost Redis command moves credit in any other way.  A top-up
\* that Stripe delivers twice is booked twice.
BalanceExplained ==
    \A u \in Users :
        balance[u] = ledger[u] - OpenCharges(u) - SumFunctionOnSet(Forfeit, RequestsOf(u))

\* Holds prevent overdrawing (services/credit.py:4).
NeverOverdrawn == \A u \in Users : balance[u] >= 0

\* At most one low credit email goes out per top-up and per 24 hours, however
\* many requests of the user settle at the same time, and one more at most for
\* each of them whose transaction failed after sending it.
OneAlertPerCooldown ==
    \A u \in Users :
        emails[u] <= 1 + Cardinality({ r \in Requests : UserOf[r] = u /\ pc[r] = "lost" })

\* Every hold is eventually settled or released, waiting for row locks and
\* top-ups included, unless one of the faults that nothing retries hits it.  A
\* release that finds no hold key is over too, although it restores nothing.
HoldIsClosed ==
    \A r \in Requests : pc[r] = "held" ~> pc[r] \in {"released", "settled", "lost"}

\* A payment Stripe announced is eventually credited, at least once.
PaymentIsCredited == \A p \in Payments : pc[p] = "due" ~> pc[p] = "credited"

-------------------------------------------------------------------------------
(* The abstract account this module implements.                            *)

PhaseOf(r) ==
    CASE pc[r] = "settled"  -> "paid"
      [] pc[r] = "released" -> "given_back"
      [] pc[r] \in Open     -> "reserved"
      [] OTHER              -> "idle"

Prepaid == INSTANCE PrepaidAccount WITH
    Opening   <- FreeCredit,
    Costs     <- UNION { Bills(a) : a \in Asks },
    TopUps    <- { TopUp[p] : p \in Payments },
    phase     <- [r \in Requests |-> PhaseOf(r)],
    reserved  <- charged

\* Behind its locks, keys and transactions the service is the abstract
\* prepaid account.
ImplementsPrepaidAccount == Prepaid!Spec
===============================================================================
