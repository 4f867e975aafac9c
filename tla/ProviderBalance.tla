---------------------------- MODULE ProviderBalance ----------------------------
(***************************************************************************)
(* The balance of one provider: services/provider_balance.py, the steps of *)
(* services/post_process.py that use it, and the provider endpoints of     *)
(* api/admin.py.                                                           *)
(*                                                                         *)
(* A background task locks the providers row with SELECT ... FOR UPDATE    *)
(* before anything else, deducts the base cost, compares the new balance   *)
(* with the two thresholds, emails the administrators and commits.  The    *)
(* admin endpoints read the row without a lock; their UPDATE waits for it, *)
(* and names only the columns whose value changed since the read.  The     *)
(* gateway routes by a copy of the row that Redis keeps for 30 seconds.    *)
(* Every handler drops that copy before its transaction commits.           *)
(*                                                                         *)
(* Money is counted in an arbitrary whole unit.                            *)
(***************************************************************************)
EXTENDS Integers, FiniteSets

CONSTANTS
    Tasks,          \* post-processing tasks that deduct a base cost
    Edits,          \* requests of administrators to change the row
    Routers,        \* gateway requests that look up the provider status
    KindOf,         \* which endpoint an edit calls
    Opening,        \* the row before any of them
    Costs,          \* base costs a task may deduct
    Balances,       \* balances an administrator may enter
    Thresholds,     \* thresholds an administrator may enter
    Faults,         \* what may go wrong in this instance
    None            \* no lock holder, nothing cached

Writers == Tasks \cup Edits
Clients == Writers \cup Routers

Statuses == {"normal", "warning", "hard_stop"}

\* warned: last_warning_alert_at is less than an hour old.
Rows == [balance : Int, warning : Nat, hardStop : Nat,
         status : Statuses, warned : BOOLEAN]

Kinds == {"balance", "thresholds", "release"}

FaultKinds ==
    { "redis",      \* a Redis command raises
      "rollback",   \* the database refuses a statement or the COMMIT
      "pool",       \* no connection is free within pool_timeout
      "crash" }     \* the backend process dies

ASSUME ClientAssumption ==
    /\ Tasks \cap Edits = {}
    /\ Writers \cap Routers = {}
    /\ KindOf \in [Edits -> Kinds]
    /\ None \notin Writers

\* A run of the backend starts finitely many tasks.
ASSUME TaskAssumption == IsFiniteSet(Tasks)

ASSUME RowAssumption ==
    /\ Opening \in Rows
    /\ None \notin Rows
    /\ Costs \subseteq Nat
    /\ Balances \subseteq Nat
    /\ Thresholds \subseteq Nat
    /\ Faults \subseteq FaultKinds

-------------------------------------------------------------------------------
VARIABLES
    row,        \* the committed providers row
    lock,       \* the transaction holding the row lock
    cache,      \* provider_status:{id} in Redis
    pc,         \* how far a task, an edit or a lookup has got
    snap,       \* the row as a transaction or lookup read it
    draft,      \* the row as the ORM object of a transaction has it
    \* history
    entered,    \* the last balance committed by an administrator
    used,       \* base costs committed since then
    warnings,   \* warning emails sent since the last warning hour ended
    stops       \* hard stop emails sent since the provider left hard stop

books  == <<row, entered, used>>
emails == <<warnings, stops>>
vars   == <<books, emails, lock, cache, pc, snap, draft>>

Init ==
    /\ row      = Opening
    /\ lock     = None
    /\ cache    = None
    /\ pc       = [c \in Clients |-> "idle"]
    /\ snap     = [c \in Clients |-> Opening]
    /\ draft    = [c \in Writers |-> Opening]
    /\ entered  = Opening.balance
    /\ used     = 0
    /\ warnings = 0
    /\ stops    = 0

-------------------------------------------------------------------------------
(* Transactions on the row.                                                *)

\* Mutant of CanLock: a plain SELECT.
CanRead == TRUE

CanLock == lock = None

Acquire(w) == CanLock /\ lock' = w

\* Mutant of Unlock: the session is never closed.
KeepLock(w) == UNCHANGED lock

Unlock(w) == lock' = IF lock = w THEN None ELSE lock

GoTo(c, state) == pc' = [pc EXCEPT ![c] = state]

\* Mutant of Merge: the UPDATE names every column.
WholeRow(base, read, new) == new

\* The UPDATE of a flush sets the columns the ORM object changed, and no other.
Merge(base, read, new) ==
    [ balance  |-> IF new.balance  = read.balance  THEN base.balance  ELSE new.balance,
      warning  |-> IF new.warning  = read.warning  THEN base.warning  ELSE new.warning,
      hardStop |-> IF new.hardStop = read.hardStop THEN base.hardStop ELSE new.hardStop,
      status   |-> IF new.status   = read.status   THEN base.status   ELSE new.status,
      warned   |-> IF new.warned   = read.warned   THEN base.warned   ELSE new.warned ]

Merged(w) == Merge(row, snap[w], draft[w])

\* invalidate_provider_status_cache: a Redis error is swallowed.
Invalidate ==
    \/ cache' = None
    \/ "redis" \in Faults /\ UNCHANGED cache

\* COMMIT makes the new row visible and releases its lock.
Commit(w) ==
    /\ row'   = Merged(w)
    /\ stops' = IF row'.status = "hard_stop" THEN stops ELSE 0
    /\ Unlock(w)
    /\ GoTo(w, "done")

-------------------------------------------------------------------------------
(* Post-processing: deduct_provider_balance and check_thresholds.          *)

LockProvider(t) ==
    /\ pc[t] = "idle"
    /\ Acquire(t)
    /\ snap'  = [snap EXCEPT ![t] = row]
    /\ draft' = [draft EXCEPT ![t] = row]
    /\ GoTo(t, "locked")
    /\ UNCHANGED <<books, emails, cache>>

\* A row between the thresholds becomes warning, a hard stopped one included;
\* above both, only a warning is cleared.
StatusFor(p) ==
    CASE p.balance < p.hardStop -> "hard_stop"
      [] p.balance >= p.hardStop /\ p.balance < p.warning -> "warning"
      [] OTHER -> IF p.status = "warning" THEN "normal" ELSE p.status

StopDue(p) == p.balance < p.hardStop /\ p.status # "hard_stop"

\* Mutant of WarningDue: no throttle.
BelowWarning(p) == p.balance >= p.hardStop /\ p.balance < p.warning

\* At most one warning an hour.
WarningDue(p) == p.balance >= p.hardStop /\ p.balance < p.warning /\ ~p.warned

\* check_thresholds on the row a deduction has just written.
CheckThresholds(p) ==
    [p EXCEPT !.status = StatusFor(p), !.warned = @ \/ WarningDue(p)]

\* The cache is dropped and the emails go out before the COMMIT.
Deduct(t) ==
    /\ pc[t] = "locked"
    /\ \E cost \in Costs :
           LET p == [draft[t] EXCEPT !.balance = @ - cost]
           IN  /\ draft'    = [draft EXCEPT ![t] = CheckThresholds(p)]
               /\ warnings' = IF WarningDue(p) THEN warnings + 1 ELSE warnings
               /\ stops'    = IF StopDue(p) THEN stops + 1 ELSE stops
    /\ Invalidate
    /\ GoTo(t, "flushed")
    /\ UNCHANGED <<books, lock, snap>>

CommitDeduction(t) ==
    /\ pc[t] = "flushed"
    /\ Commit(t)
    /\ used' = used + snap[t].balance - draft[t].balance
    /\ UNCHANGED <<warnings, entered, cache, snap, draft>>

-------------------------------------------------------------------------------
(* The admin endpoints.                                                    *)

Assign(e, p) == draft' = [draft EXCEPT ![e] = p]

\* update_balance, update_thresholds and release_hard_stop on the row they read.
Assignments(e) ==
    \/ /\ KindOf[e] = "balance"
       /\ \E b \in Balances : Assign(e, [row EXCEPT !.balance = b])
    \/ /\ KindOf[e] = "thresholds"
       /\ \E w \in Thresholds, h \in Thresholds :
              Assign(e, [row EXCEPT !.warning = w, !.hardStop = h])
    \/ /\ KindOf[e] = "release"
       /\ row.balance >= row.hardStop
       /\ Assign(e, [row EXCEPT !.status =
                        IF row.balance < row.warning THEN "warning" ELSE "normal"])

\* A plain SELECT: the committed row, whoever holds the lock.
ReadRow(e) ==
    /\ pc[e] = "idle"
    /\ snap' = [snap EXCEPT ![e] = row]
    /\ Assignments(e)
    /\ GoTo(e, "read")
    /\ UNCHANGED <<books, emails, lock, cache>>

\* release_hard_stop: answered 400.
RefuseRelease(e) ==
    /\ pc[e] = "idle"
    /\ KindOf[e] = "release"
    /\ row.balance < row.hardStop
    /\ GoTo(e, "done")
    /\ UNCHANGED <<books, emails, lock, cache, snap, draft>>

\* The UPDATE, and the foreign key of a log row, wait for the row lock; a
\* flush that has nothing to write does not.
Flush(e) ==
    /\ pc[e] = "read"
    /\ \/ Acquire(e)
       \/ /\ draft[e] = snap[e]
          /\ KindOf[e] # "balance"
          /\ UNCHANGED lock
    /\ Invalidate
    /\ GoTo(e, "flushed")
    /\ UNCHANGED <<books, emails, snap, draft>>

\* get_db commits once the endpoint has returned.  A balance the administrator
\* changed starts a new account.
CommitEdit(e) ==
    /\ pc[e] = "flushed"
    /\ Commit(e)
    /\ IF draft[e].balance # snap[e].balance
       THEN entered' = draft[e].balance /\ used' = 0
       ELSE UNCHANGED <<entered, used>>
    /\ UNCHANGED <<warnings, cache, snap, draft>>

-------------------------------------------------------------------------------
(* Routing: check_provider_status.                                         *)

CacheMiss(r) ==
    /\ pc[r] = "idle"
    /\ cache = None \/ "redis" \in Faults
    /\ snap' = [snap EXCEPT ![r] = row]
    /\ GoTo(r, "loaded")
    /\ UNCHANGED <<books, emails, lock, cache, draft>>

FillCache(r) ==
    /\ pc[r] = "loaded"
    /\ \/ cache' = snap[r]
       \/ "redis" \in Faults /\ UNCHANGED cache
    /\ GoTo(r, "idle")
    /\ UNCHANGED <<books, emails, lock, snap, draft>>

\* Mutant of CacheExpires: the key is stored without a TTL.
NeverExpires == FALSE /\ UNCHANGED vars

\* The entry outlives its 30 second TTL.
CacheExpires ==
    /\ cache # None
    /\ cache' = None
    /\ UNCHANGED <<books, emails, lock, pc, snap, draft>>

-------------------------------------------------------------------------------
(* Time and faults.                                                        *)

\* An hour has passed since last_warning_alert_at.
WarningHourEnds ==
    /\ row.warned
    /\ row' = [row EXCEPT !.warned = FALSE]
    /\ warnings' = 0
    /\ UNCHANGED <<entered, used, stops, lock, cache, pc, snap, draft>>

\* A session that gets no connection raises before its first statement.
Unserved(w) ==
    /\ "pool" \in Faults
    /\ pc[w] = "idle"
    /\ GoTo(w, "failed")
    /\ UNCHANGED <<books, emails, lock, cache, snap, draft>>

\* No transaction open.
Resting == {"idle", "done", "failed"}

Rollback(w) ==
    /\ "rollback" \in Faults
    /\ pc[w] \in {"locked", "read", "flushed"}
    /\ Unlock(w)
    /\ GoTo(w, "failed")
    /\ UNCHANGED <<books, emails, cache, snap, draft>>

\* Tasks and requests are lost with the process, and every open transaction
\* is rolled back.
Crash ==
    /\ "crash" \in Faults
    /\ \E c \in Clients : pc[c] \notin Resting
    /\ pc' = [c \in Clients |->
                 CASE c \in Routers -> "idle" [] pc[c] \in Resting -> pc[c] [] OTHER -> "failed"]
    /\ lock' = None
    /\ UNCHANGED <<books, emails, cache, snap, draft>>

-------------------------------------------------------------------------------
TaskStep(t)   == LockProvider(t) \/ Deduct(t) \/ CommitDeduction(t)
EditStep(e)   == ReadRow(e) \/ RefuseRelease(e) \/ Flush(e) \/ CommitEdit(e)
RouterStep(r) == CacheMiss(r) \/ FillCache(r)

Next ==
    \/ \E t \in Tasks : TaskStep(t)
    \/ \E e \in Edits : EditStep(e)
    \/ \E r \in Routers : RouterStep(r)
    \/ \E w \in Writers : Rollback(w) \/ Unserved(w)
    \/ CacheExpires \/ WarningHourEnds \/ Crash

Spec == Init /\ [][Next]_vars

\* The event loop runs every ready coroutine, PostgreSQL grants the row lock
\* to its waiters in turn, and Redis drops a key whose TTL has run out.
Fairness ==
    /\ \A t \in Tasks : WF_vars(TaskStep(t))
    /\ \A e \in Edits : WF_vars(EditStep(e))
    /\ \A r \in Routers : WF_vars(FillCache(r))
    /\ WF_vars(CacheExpires)

FairSpec == Spec /\ Fairness

-------------------------------------------------------------------------------
(* What must hold.                                                         *)

\* The types of the variables.
TypeOK ==
    /\ row    \in Rows
    /\ lock   \in Writers \cup {None}
    /\ cache  \in Rows \cup {None}
    /\ pc     \in [Clients -> {"idle", "locked", "read", "flushed", "loaded", "done", "failed"}]
    /\ snap   \in [Clients -> Rows]
    /\ draft  \in [Writers -> Rows]
    /\ entered \in Int
    /\ used     \in Nat
    /\ warnings \in Nat
    /\ stops    \in Nat

\* No deduction is lost: the balance is what an administrator entered last
\* less every base cost committed since, however tasks and edits interleave.
DeductionsKept == row.balance = entered - used

\* A committed deduction leaves the provider in hard stop whenever its new
\* balance is below the threshold of the committed row, also when thresholds
\* or status are edited at the same time.
DeductionStopsProvider ==
    [][ \A t \in Tasks :
            (pc[t] = "flushed" /\ pc'[t] = "done" /\ row' # row) =>
                (row'.balance < row'.hardStop => row'.status = "hard_stop") ]_vars

\* Administrators get one email for a hard stop, until it is released, and one
\* warning email an hour; one more at most for each task whose transaction
\* failed after sending it.
OneEmailPerEvent ==
    LET failed == Cardinality({ t \in Tasks : pc[t] = "failed" })
    IN  stops <= 1 + failed /\ warnings <= 1 + failed

\* Every background task ends, waiting for edits of the row included, and so
\* does every edit.
WritersFinish ==
    \A w \in Writers : pc[w] \in {"locked", "read", "flushed"} ~> pc[w] \in {"done", "failed"}

\* A provider that stays in hard stop is eventually never again routed to by
\* a cached status that says otherwise.
HardStopReachesGateway ==
    <>[](row.status = "hard_stop") =>
        <>[](cache # None => cache.status = "hard_stop")

-------------------------------------------------------------------------------
(* What a comment says, and a deduction breaks.                            *)

\* "Hard stop must be cleared manually by an admin"
\* (services/provider_balance.py:457).
HardStopClearedByAdmin ==
    [][ row.status = "hard_stop" /\ row'.status # "hard_stop" =>
            \E e \in Edits : pc[e] = "flushed" /\ pc'[e] = "done" ]_vars
===============================================================================
