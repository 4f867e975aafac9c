--------------------------------- MODULE Gateway ---------------------------------
(***************************************************************************)
(* One request through the pipeline of api/gateway.py: model, credit hold, *)
(* input guardrail, routing, LiteLLM, output guardrail, post-processing.   *)
(*                                                                         *)
(* The module composes FallbackRouting with PrepaidAccount, the abstract   *)
(* account that CreditHold implements, and decides what the parts cannot:  *)
(* that every way out of the pipeline takes the matching way out of the    *)
(* hold, and that model, price and provider of a charge fit each other.    *)
(***************************************************************************)
EXTENDS FallbackRouting, Integers

CONSTANTS
    Models,
    ActiveModels,   \* is_active
    ProviderOf,     \* provider_id of a model
    Price,          \* base cost of one unit of a model
    Factor,         \* 1 + the markup rate of a model
    Asked,          \* the model the customer asked for
    Units,          \* usage a request may allow and an answer may report
    Credit,         \* balance of the customer before the request
    Customer,
    Request

ASSUME MoneyAssumption ==
    /\ Price \in [Models -> Nat]
    /\ Factor \in [Models -> Nat]
    /\ Units \subseteq Nat
    /\ Credit \in Nat

\* What a customer pays for units of a model: the markup is resolved once, for
\* the model asked for.
Bill(m, units) == Price[m] * units * Factor[Asked]

\* A stream is a chat whose answer is passed on chunk by chunk.
Kinds == {"chat", "stream", "embedding"}

\* The HTTP statuses that are not 200.
Errors == {400, 402, 404, 500, 503, 504}

ASSUME ModelAssumption ==
    /\ ActiveModels \subseteq Models
    /\ Asked \in ActiveModels
    /\ ProviderOf \in [Models -> Providers]
    /\ Requested = ProviderOf[Asked]
    /\ None \notin Errors \cup {200}

VARIABLES
    stage,      \* how far the request has got
    kind,       \* endpoint and stream flag of the body
    called,     \* body["model"], the model LiteLLM is asked for
    model,      \* the row post-processing gets its prices from
    answer,     \* the HTTP status, None while there is none
    usage,      \* units the answer reports
    cached,     \* LiteLLM took the answer from its exact cache
    charged,    \* the provider a base cost was deducted from
    \* the account of the customer
    balance, ledger, phase, reserved

Account == INSTANCE PrepaidAccount
    WITH Users     <- {Customer},
         Requests  <- {Request},
         UserOf    <- [r \in {Request} |-> Customer],
         Opening   <- Credit,
         Estimates <- { Bill(Asked, u) : u \in Units },
         Costs     <- { Bill(m, u) : m \in Models, u \in Units },
         TopUps    <- {}

money    == <<balance, ledger, phase, reserved>>
chosen   == <<kind, called, model>>
outcome  == <<usage, cached, charged>>
gateVars == <<vars, money, chosen, outcome, stage, answer>>

GateInit ==
    /\ Init
    /\ Account!Init
    /\ stage   = "arrived"
    /\ kind    = "chat"
    /\ called  = Asked
    /\ model   = Asked
    /\ answer  = None
    /\ usage   = 0
    /\ cached  = FALSE
    /\ charged = None

-------------------------------------------------------------------------------
(* Steps of the pipeline.                                                  *)

Proceed(from, to) == stage = from /\ stage' = to

\* The request ends with an error before it has a hold.
Refuse(status) ==
    /\ Proceed("arrived", "ended")
    /\ answer' = status
    /\ UNCHANGED <<vars, money, chosen, outcome>>

\* Mutant of ReleaseAndFail: the error is raised first.
FailAtOnce(from, status) ==
    /\ Proceed(from, "ended")
    /\ answer' = status
    /\ UNCHANGED <<vars, money, chosen, outcome>>

\* release_hold, commit, raise.
ReleaseAndFail(from, status) ==
    /\ Proceed(from, "ended")
    /\ Account!GiveBack(Request)
    /\ answer' = status
    /\ UNCHANGED <<vars, chosen, outcome>>

\* The body names no model, or none that is active.
RefuseModel == Refuse(400) \/ Refuse(404)

RefuseCredit == \E u \in Units : Bill(Asked, u) > balance[Customer] /\ Refuse(402)

HoldCredit ==
    /\ Proceed("arrived", "held")
    /\ \E u \in Units : Account!Reserve(Request, Bill(Asked, u))
    /\ UNCHANGED <<vars, chosen, outcome, answer>>

BlockInput == ReleaseAndFail("held", 400)

PassInput ==
    /\ Proceed("held", "routing")
    /\ UNCHANGED <<vars, money, chosen, outcome, answer>>

Walk ==
    /\ stage = "routing"
    /\ Resolve \/ \E p \in Providers : HardStopChanges(p)
    /\ UNCHANGED <<money, chosen, outcome, stage, answer>>

RefuseProvider ==
    /\ reason # None /\ ShouldBlock
    /\ ReleaseAndFail("routing", 503)

Candidates(p) == { m \in ActiveModels : ProviderOf[m] = p }

\* Mutant of Rewrite: prices are not fetched again.
RewriteBody ==
    IF IsFallback /\ Candidates(current) # {}
    THEN \E m \in Candidates(current) : called' = m /\ UNCHANGED model
    ELSE UNCHANGED <<called, model>>

\* The query has no order: any active model of the fallback.  A fallback
\* without one gets the request under the name the customer used.
Rewrite ==
    IF IsFallback /\ Candidates(current) # {}
    THEN \E m \in Candidates(current) : called' = m /\ model' = m
    ELSE UNCHANGED <<called, model>>

Route ==
    /\ reason # None /\ ~ShouldBlock
    /\ Proceed("routing", "routed")
    /\ Rewrite
    /\ kind' \in Kinds
    /\ UNCHANGED <<vars, money, outcome, answer>>

\* LiteLLM times out, answers 400 or more, or something else; a stream that
\* breaks raises 500 whatever the reason.
FailCall ==
    \E status \in {400, 500, 503, 504} :
        /\ kind = "stream" => status = 500
        /\ ReleaseAndFail("routed", status)

\* The client leaves while chunks are sent: the generator is cancelled.
Disconnect ==
    /\ kind = "stream"
    /\ Proceed("routed", "ended")
    /\ UNCHANGED <<vars, money, chosen, outcome, answer>>

BlockOutput == kind = "chat" /\ ReleaseAndFail("routed", 400)

Reply ==
    /\ Proceed("routed", "answered")
    /\ answer' = 200
    /\ usage'  \in Units
    /\ cached' \in BOOLEAN
    /\ UNCHANGED <<vars, money, chosen, charged>>

\* What is rebuilt from the chunks of a stream carries no cache flag.
CacheHit == cached /\ kind # "stream"

\* Mutant of PostProcess: a cache hit is deducted from the provider as well.
PostProcessAll ==
    /\ Proceed("answered", "ended")
    /\ IF CacheHit THEN Account!GiveBack(Request)
                   ELSE Account!Pay(Request, Bill(model, usage))
    /\ charged' = current
    /\ UNCHANGED <<vars, chosen, usage, cached, answer>>

\* One transaction: customer and provider are charged together or not at all.
PostProcess ==
    /\ Proceed("answered", "ended")
    /\ IF CacheHit
       THEN Account!GiveBack(Request) /\ UNCHANGED charged
       ELSE Account!Pay(Request, Bill(model, usage)) /\ charged' = current
    /\ UNCHANGED <<vars, chosen, usage, cached, answer>>

\* The process dies, an exception nobody catches ends the request, or the
\* transaction of post-processing fails: the hold stays, nothing is repeated.
Lose ==
    /\ stage \in {"held", "routing", "routed", "answered"}
    /\ stage' = "lost"
    /\ UNCHANGED <<vars, money, chosen, outcome, answer>>

GateNext ==
    \/ RefuseModel \/ RefuseCredit \/ HoldCredit \/ BlockInput \/ PassInput
    \/ Walk \/ RefuseProvider \/ Route
    \/ FailCall \/ Disconnect \/ BlockOutput \/ Reply
    \/ PostProcess \/ Lose

GateSpec == GateInit /\ [][GateNext]_gateVars

-------------------------------------------------------------------------------
(* What must hold.                                                         *)

\* Every way out of the pipeline takes its way out of the hold: an error costs
\* the customer nothing, an answer costs what it says, or nothing if it shows
\* that it came from the cache, and only a stream the client left keeps its hold.
EveryEndingSettles ==
    stage = "ended" =>
        /\ answer \in Errors => phase[Request] \in {"idle", "given_back"} /\ charged = None
        /\ answer = 200      => phase[Request] = IF CacheHit THEN "given_back" ELSE "paid"
        /\ answer = None     => phase[Request] = "reserved" /\ kind = "stream"

\* The customer pays the price of the model LiteLLM was asked for, also after a
\* fallback, and the base cost goes to the provider of that model; unless the
\* fallback has no active model, and is charged for a call to the original one.
ChargeFitsCall ==
    charged # None =>
        /\ ~CacheHit
        /\ reserved[Request] = Bill(called, usage)
        /\ \/ charged = ProviderOf[called]
           \/ IsFallback /\ Candidates(charged) = {} /\ called = Asked

===============================================================================
