----------------------------- MODULE ConnectionPool -----------------------------
(***************************************************************************)
(* The writers and routers of ProviderBalance on the connection pool of    *)
(* database.py, shared by every session of the process.                    *)
(*                                                                         *)
(* A session keeps a connection from its first statement to its COMMIT or  *)
(* ROLLBACK, while it waits for the provider row as well.  A gateway       *)
(* request that looked up a provider status keeps it until LiteLLM has     *)
(* answered.  The alert handler of services/provider_balance.py opens a    *)
(* second session while its task keeps both its connection and the row, so *)
(* that tasks can wait for each other in a circle; pool_timeout breaks it. *)
(***************************************************************************)
EXTENDS ProviderBalance

CONSTANT PoolSize       \* pool_size + max_overflow

ASSUME PoolAssumption ==
    /\ PoolSize \in Nat \ {0}
    /\ IsFiniteSet(Clients)
    /\ "pool" \in Faults
    /\ "crash" \notin Faults        \* the pool would end with the process

VARIABLES
    conns,      \* the sessions that have checked out a connection
    alerting,   \* the tasks whose alert handler wants its own session
    second      \* the tasks whose alert handler has a connection

pool     == <<conns, alerting, second>>
poolVars == <<vars, pool>>

PoolInit == Init /\ conns = {} /\ alerting = {} /\ second = {}

Taken == Cardinality(conns) + Cardinality(second)
Full  == Taken >= PoolSize

-------------------------------------------------------------------------------
(* Sessions.                                                               *)

Open(c) == ~Full /\ conns' = conns \cup {c}

\* Mutant of Close: the session goes out of scope unclosed.
Leak(c) == UNCHANGED conns

Close(c) == conns' = conns \ {c}

\* db.get(Model, ...) is the first statement of a task.
StartTask(t) ==
    /\ pc[t] = "idle"
    /\ t \notin conns
    /\ Open(t)
    /\ UNCHANGED <<vars, alerting, second>>

\* QueuePool raises after 30 seconds; a task logs it, an endpoint answers 500.
PoolTimeout(w) ==
    /\ Full
    /\ w \notin conns
    /\ Unserved(w)
    /\ UNCHANGED pool

PoolLock(t) == t \in conns /\ LockProvider(t) /\ UNCHANGED pool

\* check_thresholds emits its alert before the transaction goes on.
PoolDeduct(t) ==
    /\ Deduct(t)
    /\ alerting' = IF warnings' # warnings \/ stops' # stops
                   THEN alerting \cup {t} ELSE alerting
    /\ UNCHANGED <<conns, second>>

OpenAlertSession(t) ==
    /\ t \in alerting \ second
    /\ ~Full
    /\ second' = second \cup {t}
    /\ UNCHANGED <<vars, conns, alerting>>

\* The copy of the row is dropped once more after the emails.
EndAlert(t) ==
    /\ alerting' = alerting \ {t}
    /\ second'   = second \ {t}
    /\ Invalidate
    /\ UNCHANGED <<books, emails, lock, pc, snap, draft, conns>>

\* The addresses of the administrators have been read.
FetchAdmins(t) == t \in second /\ EndAlert(t)

\* Mutant of AlertTimesOut: the pool waits for ever.
NoTimeout(t) == FALSE /\ UNCHANGED poolVars

\* Mutant of AlertTimesOut: the handler rolls back the session of its task.
AlertRollsBack(t) ==
    /\ t \in alerting \ second
    /\ Full
    /\ alerting' = alerting \ {t}
    /\ Unlock(t)
    /\ UNCHANGED <<books, emails, cache, pc, snap, draft, conns, second>>

\* The handler catches the timeout and writes to a default address instead.
AlertTimesOut(t) ==
    /\ t \in alerting \ second
    /\ Full
    /\ EndAlert(t)

PoolCommit(t) == t \notin alerting /\ CommitDeduction(t) /\ Close(t) /\ UNCHANGED <<alerting, second>>

PoolRead(e) == ReadRow(e) /\ Open(e) /\ UNCHANGED <<alerting, second>>

PoolRefuse(e) == RefuseRelease(e) /\ ~Full /\ UNCHANGED pool

PoolFlush(e) == Flush(e) /\ UNCHANGED pool

PoolCommitEdit(e) == CommitEdit(e) /\ Close(e) /\ UNCHANGED <<alerting, second>>

\* A request routes by the row and keeps its connection for the call.
PoolMiss(r) == r \notin conns /\ CacheMiss(r) /\ Open(r) /\ UNCHANGED <<alerting, second>>

PoolFill(r) == FillCache(r) /\ UNCHANGED pool

\* LiteLLM has answered, or its timeout has passed.
EndCall(r) ==
    /\ r \in conns
    /\ pc[r] = "idle"
    /\ Close(r)
    /\ UNCHANGED <<vars, alerting, second>>

PoolRollback(w) ==
    /\ w \notin alerting
    /\ Rollback(w)
    /\ Close(w)
    /\ UNCHANGED <<alerting, second>>

-------------------------------------------------------------------------------
PoolTask(t) ==
    \/ StartTask(t) \/ PoolTimeout(t) \/ PoolLock(t) \/ PoolDeduct(t)
    \/ OpenAlertSession(t) \/ FetchAdmins(t) \/ AlertTimesOut(t) \/ PoolCommit(t)

PoolEdit(e) ==
    \/ PoolRead(e) \/ PoolTimeout(e) \/ PoolRefuse(e)
    \/ PoolFlush(e) \/ PoolCommitEdit(e)

PoolRouter(r) == PoolMiss(r) \/ PoolFill(r) \/ EndCall(r)

PoolNext ==
    \/ \E t \in Tasks : PoolTask(t)
    \/ \E e \in Edits : PoolEdit(e)
    \/ \E r \in Routers : PoolRouter(r)
    \/ \E w \in Writers : PoolRollback(w)
    \/ (CacheExpires \/ WarningHourEnds) /\ UNCHANGED pool

PoolSpec == PoolInit /\ [][PoolNext]_poolVars

\* As in ProviderBalance; besides, a call to LiteLLM ends, and 30 seconds do.
PoolFairness ==
    /\ \A t \in Tasks : WF_poolVars(PoolTask(t))
    /\ \A e \in Edits : WF_poolVars(PoolEdit(e))
    /\ \A r \in Routers : WF_poolVars(PoolFill(r) \/ EndCall(r))
    /\ WF_poolVars(CacheExpires /\ UNCHANGED pool)

PoolFairSpec == PoolSpec /\ PoolFairness

-------------------------------------------------------------------------------
(* What must hold.                                                         *)

\* Whoever waits for a second connection, or has one, holds the row lock of
\* the provider and its first connection.  So a provider never needs more than
\* one connection on top of one per session, however many tasks it has.
OneAlertAtATime ==
    /\ second \subseteq alerting
    /\ \A t \in alerting : t \in conns /\ lock = t /\ pc[t] = "flushed"

\* Every connection comes back to the pool, although its session may wait for
\* the row lock of a task that in turn waits for a connection.
ConnectionsReturn == \A c \in Clients : c \in conns ~> c \notin conns

\* The pool takes nothing away from what is proved of the provider balance:
\* a task that gets no connection has done nothing, and an alert handler that
\* gets none does not take its task with it.
ImplementsProviderBalance == Spec

===============================================================================
