# A verification of the Astragate backend

Astragate is an LLM gateway. Customers buy credit through Stripe, call
OpenAI-compatible endpoints with a virtual key, and are billed a marked-up
price per token. The backend (`src/backend/app`, FastAPI, SQLAlchemy, Redis)
holds credit before a call, forwards the call to a LiteLLM proxy, and settles
it in a background task afterwards. Each provider has a balance of its own; a
provider that runs out is put in hard stop and requests fall back to another.

This directory holds TLA+ models of that backend, TLC configurations that check
them on small instances, and TLAPS proofs for every instance.

## 1. Inventory

| component | state | operations | what is hard |
|---|---|---|---|
| credit (`services/credit.py`) | `credit_accounts.balance_usd`, the ledger, `credit_hold:{request_id}` in Redis with a 60 s TTL | `hold_credit`, `settle_credit`, `release_hold` | three transactions per request, interleaved with those of other requests; the amount held is known only to Redis |
| Stripe (`api/billing.py`) | the same account and ledger | `stripe_webhook` | redelivery, races with holds |
| post-processing (`services/post_process.py`) | one transaction over provider, account, usage log and key | cost, settlement, low credit email, provider deduction, usage counter | runs in memory after the response; any failure loses it |
| provider balance (`services/provider_balance.py`, `api/admin.py`) | a `providers` row, `provider_status:{id}` in Redis for 30 s | `deduct_provider_balance`, `check_thresholds`, `update_balance`, `update_thresholds`, `release_hard_stop`, `check_provider_status` | background tasks lock the row, administrators do not; the cache is dropped before the COMMIT |
| fallback routing (`resolve_provider_for_request`) | a walk along `fallback_provider_id` | one status lookup per hop | cycles, depth, statuses that change between two hops |
| virtual keys (`services/virtual_key.py`, `middleware/virtual_key_auth.py`) | `virtual_keys` rows, `vk:{hash}` in Redis for 30 s | create, revoke, authenticate, touch, count usage | stale copies, write-backs of objects read before a revocation |
| gateway (`api/gateway.py`) | none of its own | guardrail, hold, route, call, stream, hand over to post-processing | disconnects and exceptions between any two steps |
| rate limiting (`middleware/rate_limit.py`) | counters in Redis per key and minute | count and refuse | window boundaries, Redis failures |
| markup (`services/markup.py`, `services/admin_markup.py`, `api/admin.py`) | `models.markup_rate`, `markup_config`, `markup:{model_id}` in Redis for 60 s | resolve over three levels, upsert | copies dropped before the COMMIT, concurrent first upserts |
| guardrails (`services/guardrail.py`, `api/admin.py`) | `guardrail_keywords`, `guardrails:keywords` in Redis for 300 s | scan, add, change, remove | the same |
| accounts (`api/auth.py`) | `users` with its credit account and default key, `login_attempts:{user_id}` in Redis for 15 min | register, Google login, log in, log out | two sign-ups for one address; counters in two stores, one of which a 401 rolls back |
| sessions (`database.py`) | a pool of ten connections, 30 s to wait for one | `get_db`, background sessions, the second session of an alert | commit after return, tasks that wait for a connection while they hold a row lock |
| external services | LiteLLM, Stripe, the mail provider | outcomes only | timeouts, redelivery, refusal |
| usage reports, configuration, encryption, migrations, frontend | – | read-only or wiring | – |

The components interact through rows and keys, seldom by messages. A request
authenticates (virtual keys), passes the rate limiter and the input guardrail,
holds credit, is routed (provider status), calls LiteLLM, and answers. Then a
background task opens one transaction that locks the provider row, settles the
account, deducts from the provider and counts the usage of the key. Payments,
administrators and key revocations change the same rows from transactions of
their own.

What makes each component correct:

- credit: no update of a balance is lost, each request costs what its outcome
  says, holds keep accounts from being overdrawn, each hold is closed;
- Stripe: each payment is credited at least once, and each credit is booked;
- provider balance: no deduction is lost, a balance below the threshold means
  hard stop, one email per event, the gateway learns of a hard stop;
- routing: the first usable provider serves, and only a chain without one is
  refused;
- keys: a revoked key is rejected for good, an active one accepted, the usage
  counter is exact, the limit of keys holds unless creations overlap;
- gateway: each way out of the pipeline takes its way out of the hold, and
  model, price and provider of a charge fit each other;
- rate limiting: no minute admits more than the limit, nobody is refused for the
  requests of others, and counters end;
- sessions: every wait for a connection ends, and none costs a task its work;
- accounts: one user per address, complete with credit account and key; only a
  failing login leaves a failure counter that does not end, and locks hold;
- markup and guardrails: what administrators configure reaches requests, with
  the priority model, provider, global; a scope keeps one row.

## 2. Modules

| module | models | state |
|---|---|---|
| `PrepaidAccount` | what a customer is promised: a balance, reservations, payment or refund, top-ups | abstract |
| `CreditHold` | `services/credit.py` with its callers in the gateway and post-processing, and the Stripe webhook | account, ledger, row locks, Redis keys, handlers |
| `ProviderBalance` | deductions, thresholds, emails, admin edits, status cache | one row, its lock, its cached copy, handlers |
| `ConnectionPool` | the sessions of `ProviderBalance` on a bounded pool, and the alert handler's second session | connections, alerts, and all of `ProviderBalance` |
| `FallbackRouting` | `resolve_provider_for_request` | configuration, the walk |
| `Gateway` | the pipeline of `api/gateway.py`; composes `FallbackRouting` with `PrepaidAccount` | the request, its model, answer and charge |
| `VirtualKeys` | creation, revocation, authentication, the two background writers | rows, locks, cached copies, handlers |
| `RateLimit` | `middleware/rate_limit.py` | the clock, counters and their TTLs, requests |
| `Accounts` | registration, Google login, password login for one address | committed rows, the open index entry, the counter, handlers |
| `AdminConfig` | markup rates and guardrail keywords, their endpoints and cached copies | tables, copies, edits, a request |
| `...Proofs` | theorems about the module of that name | |
| `MC...` | the constants of the instances TLC checks | |

A handler is a process; `pc` says which `await` it has reached. One action
stands for what the code does between two points where another handler can
intervene: a row lock that has to be waited for, a Redis command, a COMMIT.

How the modules hang together: `CreditHold` implements `PrepaidAccount`;
`Gateway` uses `PrepaidAccount` in its place and extends `FallbackRouting`;
`ConnectionPool` extends `ProviderBalance` and implements it.

**`CreditHold`.** `BeginHold`, then `Refuse` or `CommitHold`, are `hold_credit`.
`FailCall` stands for each place of the gateway that gives up and calls
`release_hold`, `Answer` for the answer and the queued task, `PostProcess` for
its start, which releases on a cache hit and otherwise settles. `LockToRelease`,
`Restore`, `LockToSettle` and `Settle` are the two closing transactions.
`Deliver` and `CreditTopUp` are the webhook. `CloseRollsBack`, `HoldRollsBack`,
`TopUpRollsBack`, `Abandon`, `Expire` and `Crash` are the faults, each named in
`Faults`. `charged` and `emails` are history: what a request has cost its
user so far, and what was sent.

A token is one token and a price a whole number, so that amounts are whole
numbers. The code rounds to `Numeric(18, 6)`; no property depends on rounding.
The model that served is chosen freely among those a request may be routed to
(`Routes`), and the usage among those LiteLLM may report for a body (`Usages`).
Neither side bounds the other: `max_tokens` is read from the body unchecked
(`gateway.py:147`), so that it may be negative and the hold with it, and its
default of 2048 and the estimate of an embedding are never sent to LiteLLM
(`litellm_client.py:251`), so that a completion may be longer. `send_email` swallows
every error of the mail provider (`email.py:47`): the low credit alert is stamped
whether or not the email went out (`SendLowCredit`, `CheckLowCredit`).

**`ProviderBalance`.** A task goes from `LockProvider` over `Deduct` to
`CommitDeduction`, an administrator from `ReadRow` over `Flush` to `CommitEdit`.
The ORM's UPDATE names only the columns that changed since the object was
read (`Merge`), which is why an edit based on a stale read does not undo a
deduction. The commit comes after the endpoint has returned (`database.py:80`),
hence after the cache was invalidated. `Unserved` is a session that got no
connection. `entered` and `used` are history: the last balance an administrator
committed, and the costs committed since.

**`ConnectionPool`.** A session takes a connection with its first statement and
keeps it until it ends, also while it waits for the row; a gateway request that
had to read the provider row keeps it until `EndCall`. `PoolDeduct` raises the
alert, then `OpenAlertSession` and `FetchAdmins`, or `AlertTimesOut`, precede the
COMMIT. A full pool is left after 30 seconds by `PoolTimeout`, which is allowed as
soon as the pool is full. Crashes are left out: the pool ends with its process.

**`FallbackRouting`.** One turn of the loop is one action, and provider
statuses may change between turns. `state` is what `check_provider_status`
shows, so that a stale cache is one of its behaviours.

**`Gateway`.** `stage` follows the pipeline: `RefuseModel` and `RefuseCredit` end
a request that has no hold, `HoldCredit` takes one, `BlockInput`,
`RefuseProvider`, `FailCall` and `BlockOutput` are the ways out that release it,
`Disconnect` and `Lose` those that do not, `Reply` and `PostProcess` the way
through. `Walk` is a turn of `FallbackRouting` or a change of a hard stop.
`called` is the model named in the body, `model` the row that prices are taken
from: two variables, because the code rewrites them in two places. What happens
before the handler (authentication, rate limit) is in modules of its own. Holds and
bills are natural numbers here: a negative `max_tokens` is a matter of `CreditHold`.

**`VirtualKeys`.** A creation counts, then commits. Authentication reads the
cached copy, then the row. `ReadForTouch` and `Touch` are
`_update_last_used_at`; `CountUsage` is the increment of `total_requests` in
post-processing. `late`, `counted` and `raced` are history: who arrived after a
revocation, whose usage was counted, which creations overlapped.

**`RateLimit`.** A request reads the clock (`Arrive`), sends INCR (`Incr`) and, if
it was the first of its window, EXPIRE (`Expire`); a command that raises lets the
request pass, and may or may not have been carried out. `Tick` is a second;
`Lag` bounds how many of them may pass from reading the clock to the last
command, and is assumed not to exceed the window.

**`Accounts`.** A sign-up is `FindAddress`, then `InsertUser`, `InsertAccount`
and `InsertKey` in one transaction, `CommitUser`, and the background task
`SendWelcome`. `holder` is the uncommitted entry in the unique index of
`users.email`: an INSERT waits for it and then either goes on or fails.
A login is `StartLogin`, then `CountFailure` and `RecordFailure`, or
`ResetFailures` and `CommitLogin`. `AfterHandler` is `get_db`: it commits after a
return and rolls back after an exception, the 401 of a wrong password included.
The EXPIRE of a first failure is a step of its own after INCR. INCR, EXPIRE and DEL
may each raise, before or after they were carried out (`IncrFails`, `ExpireFails`,
`DelFails`); a process that ends between INCR and EXPIRE leaves what an EXPIRE that
did nothing leaves. `starter` is history: the login whose INCR created the counter
there is. Logging out writes an entry in Redis that no code reads, and nothing refreshes a token; neither is
modelled.

**`AdminConfig`.** Each edit is `ReadConfig`, `ReadModel`, `CheckKeyword` or
`ReadKeyword`, then `Flush`, which also drops the copies, then `Commit`. A request
resolves its rate in up to four steps (`LookUpRate`, `ReadModelRate`, `ReadScope`
twice), stores it, then loads the keywords, over and over. `raced` is history:
the scopes in which two edits found no row at the same time. `markup_config` is
not seeded, so that first upserts do happen; its unique constraint does not
prevent a second row, since PostgreSQL takes NULLs for different
(`models/model.py:73`). `RollBack` is also what happens when the answer of a
markup update reads `updated_at` (`admin_markup.py:74`): `onupdate` is an SQL
function, so the UPDATE leaves the attribute expired, and an async session
raises on loading it in passing. The model leaves both outcomes open, since which
one occurs is up to the mapper's `eager_defaults`, which the code does not set.

Two assumptions stand behind the row model. The settlement re-reads the account
with `SELECT ... FOR UPDATE`, but without `populate_existing`; since
`expire_on_commit=False` (`database.py:74`) it would see an old balance if the
session still kept the account object alive. It does not: the hold's object is
local to `hold_credit` and collected when that returns. And
`redis_client.py` can replace Redis by an in-memory `MockRedis` that has no
TTLs; the models describe the real one.

## 3. Runs

| run | module | question |
|---|---|---|
| `credit_books` | `MCCreditHold` | Redis is reliable, all else may fail, estimates cover bills: are the books right, are balances never negative, and is the service the abstract account? |
| `credit_faults` | `MCCreditHold` | With every fault at once and a negative `max_tokens`: is every charge and every balance explained by bills, open holds and holds whose key was gone, is every hold closed unless a fault lost it, every payment credited, and no email repeated? |
| `provider_books` | `MCProviderBalance` | Is a deduction ever lost, a hard stop missed, or an email repeated, with edits, rollbacks, crashes and sessions that get no connection? |
| `provider_liveness` | `MCConnectionPool` | On a pool of two connections: do writers finish, do connections return, does a hard stop reach the gateway, and is it still the provider balance of `provider_books`? |
| `routing_chain` | `MCGateway` | For every fallback configuration and every kind of request: does the first usable provider serve, does each ending settle, does each charge fit its call? |
| `keys_auth` | `MCVirtualKeys` | Is a revoked key rejected for good and an active one accepted, is usage counted, and does only overlap exceed the limit of keys? |
| `rate_limit` | `MCRateLimit` | Do late requests, failures and crashes ever let a window admit too many, reject without cause, or leave a counter behind? |
| `accounts` | `MCAccounts` | Do overlapping sign-ups create one complete user, is each answered, and which logins leave a failure counter without TTL? |
| `admin_config` | `MCAdminConfig` | Do rates and keywords reach requests, and when can a scope get two rows? |
| `doc_overdraft` | `MCCreditHold` | A comment promises that the hold covers the worst case. (violated) |
| `doc_stop_cleared` | `MCProviderBalance` | A comment promises that only an administrator clears a hard stop. (violated) |
| `doc_lockout` | `MCAccounts` | A comment promises that ten failures lock an account. (violated) |

Bounds.

- Credit: two requests and one payment of one user show every way a hold, a
  settlement and a top-up of one row can interleave; rows of different users do
  not interact. `MaxDeliveries` lets an event arrive twice. `credit_books` has
  free prompts, a cheaper fallback and answers no longer than `max_tokens`
  (`WithinLimit`), so that estimates cover bills, and a balance that one or two
  requests use up. These are choices of the instance, which `NeverOverdrawn` needs and
  the code does not see to. `credit_faults` bills prompts and has a `max_tokens` of 2
  and one of -1 (`OneNegative`), so that bills exceed estimates and holds may raise
  a balance.
- Provider: two deductions against one edit of each kind, with costs that take the
  balance into the warning band, below the hard stop threshold, or both in turn, and
  a threshold raised to where the balance is.
- Pool: `PoolSize` is 2 instead of 10. Two tasks that each want a second
  connection, an administrator and a request are enough to fill it in every
  mixture, the one of two waiting tasks included.
- Gateway: four providers, a depth of two instead of three, so that a chain can be
  longer than the depth, and five models: one provider has two active models, one
  only an inactive one, and a fallback may be dearer than the hold.
- Keys: one key in use with two requests and two revocations, one of which may
  fail and be repeated; two creations meet a limit of two with one place left.
- Rate limit: windows of two seconds, a `Lag` of a whole window, arrivals up to
  `Horizon` 3, the end of the second window; three requests of one key and one of
  another against a limit of one.
- Accounts: one address and a limit of two failures instead of ten; two registrations
  and a Google login; three logins, so that one may create the counter, one delete it
  and one create the next.
- Configuration: one model, two rates, two keywords and every pair of edits, which
  is what an overlap takes.

`keys_auth`, `rate_limit`, `routing_chain`, `accounts`, `doc_lockout` and
`admin_config` do not check for deadlock, since there all handlers may be done.

Fairness. `FairSpec` and `PoolFairSpec` give weak fairness to each handler's own
steps and none to faults. It rests on the event loop, which runs each ready
coroutine; on PostgreSQL, which grants a row lock to its waiters in turn; on the
timeout of a LiteLLM call; on the 30 seconds after which a wait for a connection
ends; on Stripe, which delivers until it is acknowledged; and on Redis TTLs. The
one strong fairness is that of `CreditTopUp`: a webhook that is delivered again
and again does not fail every time. `credit_faults` asks for liveness in
spite of every fault, and so has to allow for holds that a fault lost (`lost`),
since nothing retries them. `WritersFinish` counts a failed transaction as
finished, for the same reason.

## 4. What is proved

The theorems hold for all values of the constants; each module names the
assumptions it makes of them. They say what the constants are (prices are
natural numbers, sets of requests, tasks, keys and sessions that are counted are
finite, clients are distinct) and, in `RateLimit`, that `Lag` does not exceed
`Window`. Whatever else a theorem assumes it states itself.

`CreditHoldProofs`:

- `TypeCorrect`, and `NoLostUpdate`: a transaction about to write a balance
  holds its lock and has read the current value. `RowLocked` is inductive given
  the types.
- `HoldsAreRecorded`: the Redis key, the amount read from it and what the
  request has been charged fit together in every phase, whatever fails.
  The invariant needs `AmountsKnown` (a release has an amount, a settlement a
  bill) and `RowLocked`, since `charged` changes by the difference of balances.
  `EveryChargeIsExplained` (`ChargesExplained`) follows from it: a settled request has
  paid its bill, a released one nothing, plus its whole estimate if the hold key was
  gone. Such a forfeited hold costs the customer; with a negative `max_tokens` it is a
  gain instead, so that nothing better can be said of the code.
- `ChargesMatch`, under the assumption `RedisIsReliable`: each request costs
  exactly what its outcome says. The strengthening says that an open hold still
  has its key.
- `HoldsPreventOverdrawing`, under `RedisIsReliable` and `EstimatesCover`: no
  balance is ever negative. `doc_overdraft` shows that the second assumption
  fails as soon as a prompt costs something; `FreePromptsPreventOverdrawing` says
  when it holds: no prompt costs anything and no route leads to dearer answers
  (`PromptsAreFree`), no `max_tokens` is negative and no answer longer than it
  (`LimitsAreKept`). The code enforces neither.
- `EveryBalanceIsExplained` (`BalanceExplained`), whatever fails: a balance is the
  ledger less the open holds less the forfeited ones. The argument is one of double
  entry. `OpenCharges` and `Forfeited` are sums over the requests of a user, and a
  step of a request moves each by the share of that request only
  (`ChargesFollowShare`); with `RowLocked`, what the step writes into the row is the
  opposite of the two. `BooksAlwaysBalance` (`BooksBalance`) follows, under
  `RedisIsReliable`, because then no hold is forfeited.
- `ServiceIsPrepaidAccount`, under `RedisIsReliable`: every step of
  `CreditHold` is a step of `PrepaidAccount` or a stutter. A hold maps to a
  reservation, a settlement to a payment, a release to a refund, a webhook to a
  top-up, everything else to a stutter.
- `OneLowCreditEmail`: `AlertsCounted` compares the emails with the requests that
  were lost after sending one, plus one while the cooldown runs; it is the cooldown
  that pays for the email of a settlement that commits.

`ProviderBalanceProofs`: `TypeCorrect`, `NoDeductionLost` (`DeductionsKept`) and
`DeductionsEnforceHardStop`. The inductive invariant relates each transaction's
draft to the row it read: while a task holds the lock, the row differs from what
it read only in what time changes. `OneEmailUnlessFailed` adds `EmailInv`: an
email is paid for by a failed task, or by the row, which says hard stop or warned,
or by the one task that is about to write that. `HardStopStaysSeen` is the safety
half of `HardStopReachesGateway`: while the provider stays in hard stop, once the
copy in Redis and the lookups under way show it, nothing brings an older row back.

`ConnectionPoolProofs`: `PoolIsProviderBalance`, the refinement, so that what is
proved of `ProviderBalance` holds on a bounded pool (`PoolKeepsGuarantees`); and
`AlertsHoldTheLock` (`OneAlertAtATime`): only the task that has the row lock ever
wants a second connection. So tasks of one provider cannot block each other by their
alerts, and
ten providers would have to raise one at the same time.

`GatewayProofs`: `DecisionsAreHonest` needs to know that the walk leaves the
requested provider in `visited` once it has moved on (`WalkInv`);
`EndingsSettle` that the hold is open from its stage to the end (`HoldInv`,
`AnswerInv`); `ChargesFitCalls` that the rewritten body and the row of the prices
name one model, and which provider it belongs to (`ModelInv`). The pipeline is shown
to implement both of its parts: `PipelineRoutes` (every step is one of
`FallbackRouting` or leaves the walk alone) and `PipelineKeepsAccount` (every
step is one of `PrepaidAccount` or leaves the account alone). Two theorems use them:

- `FirstUsableProviderServes`, from `PipelineRoutes`: `ChainInv` says that after `n`
  turns the walk stands at the `n`-th link of the chain, has visited those
  before it, and that while no hard stop changes none of them is usable. When the walk
  meets a cycle, the links
  that follow are all visited ones (`CycleClosed`); when a provider has no
  fallback, there are none (`ChainEnds`). So a request that is blocked could not
  have been served within the depth.
- `AnswersDecideCost`, from `PipelineKeepsAccount`: by the answer alone one knows
  what the customer has paid. `AccountInv` holds of every request of the abstract
  account, so nothing about the service behind it is needed.

`VirtualKeysProofs`: `RevokedForGood`, `RevokedKeysAreRejected`,
`ActiveKeysAreAccepted`, `UsageIsKept` and `LimitOverrunBound`. A copy that
refuses is backed by a revoked row (`OnlyRevokedRefused`), a late request sees a
revoked row wherever it looks (`LateSeesRevoked`), a write-back names only
the columns it changed. The last one rests on `LimitInv`: while a creation
is pending and no key that overlapped is active, there is still room for one key.

`RateLimitProofs`: `LimitPerWindow`, `TwiceTheLimit`, `RejectedAfterQuota` and
`CountersHaveTTL`. While a request may still reach its window, the counter of that
window is alive (`LongLived`) and has counted every ticket; so tickets of a
window are distinct (`Distinct`), without gaps (`Drawn`, `Ranked`), and the requests
admitted inject into `1..limit`. That sixty seconds touch two windows at most gives
the second theorem.

`AccountsProofs`: `NoSecondUser` (`OneUserPerEmail`), `UsersAreComplete` and
`OnlyUsersAreWelcomed`. The invariant says that whoever has an open transaction
owns the index entry and that no user is committed yet, so that a COMMIT adds the
first one. `FailureCounterEnds`: a counter without TTL was created by
a login that is about to set it, or that failed before it could. The invariant adds
nothing but types: no step of another login takes the TTL away or moves the counter on
to a creator that was answered. The second case does occur (section 5).

`AdminConfigProofs`: `OneRowUnlessRaced`. In a scope that was not raced, an insert
about to commit is the only one and finds no row (`NotRaced`).
`ReplacedRatesStayAway` and `ReplacedKeywordsStayAway` are the safety halves of
`RatesReachRequests` and `KeywordsReachRequests`: what is stored, charged and scanned
for stays right once the administrators are done and it is right. For rates this
takes more than the copies: a request between two of its SELECTs must not have
passed a level that has a row now (`RatesFresh`).

Two kinds of definition are recursive, the sums over requests (folds of the
community modules) and `Link`, the chain of fallbacks. What the proofs need of them
is proved by induction on a number: the set of numbers for which a fact holds
contains 0 and the successor of each of its members, and so has no least number
outside it (`SetInduction`, from `WFMin`). That a function with the recursive
equation exists at all is the first of these facts (`ChainExists` and its like).

Every invariant and action property that a run finds to hold is stated by a
theorem. Only model-checked are `HoldIsClosed`, `PaymentIsCredited`, `WritersFinish`,
`HardStopReachesGateway`, `ConnectionsReturn`, `SignupIsAnswered`,
`RatesReachRequests` and `KeywordsReachRequests`: liveness under fairness, which
the prover does not cover.

## 5. Where comments and code part

Three divergences have a run that shows them (`doc_...`). Others that came up
while modelling:

- `credit.py:7` says that an error or timeout restores the credit; a release
  that finds no key restores nothing (`credit.py:293`), and since the timeout of
  30 seconds holds for one read, a long stream outlasts the key's 60 seconds.
- `credit.py:230` wants a net effect of the cost; when the key has expired the
  customer pays the estimate and the cost. `credit.py:103` says a hold
  "auto-expires"; only its key does, the money stays deducted.
- `credit.py:4` says that holds prevent overdrawing, and `hold_credit` checks that the
  balance covers the estimate; nothing checks that `max_tokens` (`gateway.py:147`) is
  positive, and a negative one makes a hold that raises the balance until it is
  closed, or for good if its key is gone by then.
- `post_process.py:329` expects `send_low_credit` to raise when an email is refused,
  and then leaves the cooldown unset; `send_email` never raises (`email.py:47-57`),
  so that the customer is not alerted for a day.
- `billing.py:271` credits a payment atomically but as often as Stripe delivers its
  event; the models book each credit, and no property here forbids the second.
- `virtual_key.py:7` promises a limit of ten keys; they are counted without a lock
  (`virtual_key.py:78`), and concurrent creations all pass. `LimitOverrunByOverlap`
  says by how much.
- `admin_markup.py:85` speaks of an upsert; two first ones that overlap insert a
  row each, after which resolving and editing that scope raises. An update of an
  existing rate answers from an expired attribute (section 2, `AdminConfig`).
- `auth.py:12` says that failures are tracked in the database; they are not,
  for the reason `doc_lockout` shows.
- `auth.py:214` gives the counter of failed logins a TTL of 15 minutes; EXPIRE is a
  second command, sent only by the login that saw INCR return 1, so that a counter
  whose EXPIRE failed, or whose first INCR was carried out but raised, has none, and
  no later failure sets one. `CounterEnds` says that there is no other way.
- `admin.py:327` allows a release only while the current balance is not below the
  threshold; the check uses a balance read without a lock (`admin.py:341`), and a
  deduction may commit before the release does, which then ends the hard stop of a
  provider below its threshold until the next deduction. `update_balance` logs an old
  value read the same way (`admin.py:244`).
- `provider_balance.py:197` promises fresh state immediately; the invalidation
  precedes the COMMIT, so a lookup in between caches the old row for 30 seconds.
- `provider_balance.py:239` says an inactive provider blocks; it hands over to
  its fallback.
- `provider_balance.py:115` describes emails to the administrators; when the pool
  is exhausted, the alert goes to a default address instead
  (`provider_balance.py:128-131`).
- `gateway.py:208` says the model is rewritten on a fallback; if the fallback
  has no active model it is not, and the fallback is charged all the same. The
  prices of the fallback's model are multiplied by the markup of the model asked
  for, which was resolved before routing (`gateway.py:144`).
- `post_process.py:249` bills cache hits at zero; the response rebuilt from a
  stream has no cache flag (`gateway.py:281`), so that streamed ones are billed in
  full.
- `post_process.py:13` deducts each call from the provider; an answer that the
  output guardrail blocks was paid for by the operator, but is not deducted
  (`gateway.py:338-347`).
- `design.md:144` and `tasks.md:214` speak of a sliding window for rates;
  `rate_limit.py:4` and the code have fixed ones, which admit twice the limit
  around a boundary, and `BurstIsBounded` says no more than that.

That streams have no output guardrail is by design (`design.md:452`).

## 6. Not modelled

- A restart of Redis that loses counters and copies, beyond the loss of single
  keys; and `MockRedis`, the in-memory stand-in without TTLs.
- Endpoints that only read: `GET /v1/models`, balance and history, lists of keys
  and rates, usage and admin reports. Creating a payment intent calls Stripe and
  writes nothing. Logging out writes what nobody reads.
- The switch of LiteLLM's exact cache, which rewrites a configuration file, and the
  tracking of client addresses, a set in Redis that only leads to a log entry.
- Encryption of provider keys (stateless, used at deployment), configuration and
  logging, the mock of LiteLLM.
- The schema, migrations and seeding run offline; columns appear as variables.
- The frontend, a client of the API without state of its own.
- The contents of prompts, answers and emails, the matching of keywords in them,
  and rounding.
