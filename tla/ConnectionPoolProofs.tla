-------------------------- MODULE ConnectionPoolProofs --------------------------
(***************************************************************************)
(* Theorems about ConnectionPool, for every set of tasks, edits and        *)
(* requests and every size of the pool.                                    *)
(***************************************************************************)
EXTENDS ConnectionPool, ProviderBalanceProofs

-------------------------------------------------------------------------------
(* The refinement: sessions and connections are invisible to the balance.  *)

\* The end of an alert drops the cached row, as an expiry of it would.
LEMMA EndAlertMaps ==
    ASSUME NEW t, EndAlert(t)
    PROVE  CacheExpires \/ UNCHANGED vars
<1>1. cache' \in {None, cache} /\ UNCHANGED <<books, emails, lock, pc, snap, draft>>
  BY DEF EndAlert, Invalidate
<1>2. QED
  BY <1>1 DEF CacheExpires, vars

\* Every step of a task is one of ProviderBalance, or none.
LEMMA TaskMaps ==
    ASSUME NEW t \in Tasks, PoolTask(t)
    PROVE  [Next]_vars
<1>1. CASE PoolTimeout(t)
  BY <1>1 DEF PoolTimeout, Next, Writers
<1>2. CASE FetchAdmins(t) \/ AlertTimesOut(t)
  BY <1>2, EndAlertMaps DEF FetchAdmins, AlertTimesOut, Next
<1>3. CASE PoolLock(t) \/ PoolDeduct(t) \/ PoolCommit(t)
  BY <1>3 DEF PoolLock, PoolDeduct, PoolCommit, TaskStep, Next
<1>4. CASE StartTask(t) \/ OpenAlertSession(t)
  BY <1>4 DEF StartTask, OpenAlertSession
<1>5. QED
  BY <1>1, <1>2, <1>3, <1>4 DEF PoolTask

\* Every step of the pool is one of ProviderBalance, or none.
LEMMA StepMaps ==
    ASSUME [PoolNext]_poolVars
    PROVE  [Next]_vars
<1>1. ASSUME NEW e \in Edits, PoolEdit(e) PROVE [Next]_vars
  BY <1>1
  DEF PoolEdit, PoolRead, PoolTimeout, PoolRefuse, PoolFlush, PoolCommitEdit,
      EditStep, Next, Writers
<1>2. ASSUME NEW r \in Routers, PoolRouter(r) PROVE [Next]_vars
  BY <1>2 DEF PoolRouter, PoolMiss, PoolFill, EndCall, RouterStep, Next
<1>3. ASSUME NEW w \in Writers, PoolRollback(w) PROVE [Next]_vars
  BY <1>3 DEF PoolRollback, Next
<1>4. CASE UNCHANGED poolVars
  BY <1>4 DEF poolVars
<1>5. QED
  BY <1>1, <1>2, <1>3, <1>4, TaskMaps DEF PoolNext, Next

\* The connection pool implements the provider balance without it: a task or
\* endpoint that gets no connection has changed nothing, and an alert handler
\* that gets none leaves its task alone (_default_email_alert_handler).
THEOREM PoolIsProviderBalance == PoolSpec => ImplementsProviderBalance
<1>1. PoolInit => Init
  BY DEF PoolInit
<1>2. [PoolNext]_poolVars => [Next]_vars
  BY StepMaps
<1>3. QED
  BY <1>1, <1>2, PTL DEF PoolSpec, Spec, ImplementsProviderBalance

\* What is proved of the provider balance is true on a bounded pool: sessions
\* that wait for a connection, or get none, cost no deduction, no hard stop and
\* no second email.
THEOREM PoolKeepsGuarantees ==
    PoolSpec => /\ []DeductionsKept /\ []OneEmailPerEvent
                /\ DeductionStopsProvider
BY PoolIsProviderBalance, NoDeductionLost, OneEmailUnlessFailed, DeductionsEnforceHardStop, PTL
   DEF ImplementsProviderBalance

-------------------------------------------------------------------------------
(* Alerts.  The invariant of ProviderBalance says that a task with a lock   *)
(* has it alone; what has to be added is that it has a connection, too.     *)

TasksConnected ==
    \A t \in Tasks : pc[t] \in {"locked", "flushed"} => t \in conns

PoolInv ==
    /\ alerting \subseteq Tasks
    /\ TasksConnected
    /\ OneAlertAtATime

\* A step that neither frees a connection of a task nor starts or ends an alert.
LEMMA QuietStep ==
    ASSUME PoolInv, alerting' = alerting, second' = second,
           \A t \in Tasks : t \in conns => t \in conns',
           \A t \in Tasks : pc'[t] = pc[t],
           \A t \in Tasks : lock = t => lock' = t
    PROVE  PoolInv'
BY DEF PoolInv, TasksConnected, OneAlertAtATime

\* The steps of a task.
LEMMA TaskKeepsPoolInv ==
    ASSUME Inv, PoolInv, NEW t \in Tasks, PoolTask(t)
    PROVE  PoolInv'
<1>1. /\ t \in Clients /\ Tasks \subseteq Clients /\ None \notin Tasks
      /\ pc \in [Clients -> {"idle", "locked", "read", "flushed", "loaded", "done", "failed"}]
  BY ClientAssumption DEF Inv, TypeOK, Clients, Writers
<1>2. CASE StartTask(t)
  <2>1. conns' = conns \cup {t} /\ UNCHANGED <<alerting, second, pc, lock>>
    BY <1>2 DEF StartTask, Open, vars
  <2>2. QED
    BY <2>1, QuietStep
<1>3. CASE PoolTimeout(t)
  <2>1. /\ pc[t] = "idle" /\ pc' = [pc EXCEPT ![t] = "failed"]
        /\ UNCHANGED <<conns, alerting, second, lock>>
    BY <1>3 DEF PoolTimeout, Unserved, GoTo, pool
  <2>2. QED
    BY <1>1, <2>1 DEF PoolInv, TasksConnected, OneAlertAtATime
<1>4. CASE PoolLock(t)
  <2>1. /\ t \in conns /\ pc[t] = "idle" /\ pc' = [pc EXCEPT ![t] = "locked"]
        /\ lock = None
        /\ UNCHANGED <<conns, alerting, second>>
    BY <1>4 DEF PoolLock, LockProvider, Acquire, CanLock, GoTo, pool
  <2>2. alerting = {}
    BY <1>1, <2>1 DEF PoolInv, OneAlertAtATime
  <2>3. QED
    BY <1>1, <2>1, <2>2 DEF PoolInv, TasksConnected, OneAlertAtATime
<1>5. CASE PoolDeduct(t)
  <2>1. /\ pc[t] = "locked" /\ pc' = [pc EXCEPT ![t] = "flushed"]
        /\ alerting' \in {alerting, alerting \cup {t}}
        /\ UNCHANGED <<conns, second, lock>>
    BY <1>5 DEF PoolDeduct, Deduct, GoTo
  <2>2. lock = t /\ t \in conns
    BY <2>1 DEF Inv, RowHeld, TaskHolds, PoolInv, TasksConnected
  <2>3. QED
    BY <1>1, <2>1, <2>2 DEF PoolInv, TasksConnected, OneAlertAtATime
<1>6. CASE OpenAlertSession(t)
  <2>1. /\ t \in alerting /\ second' = second \cup {t}
        /\ UNCHANGED <<conns, alerting, pc, lock>>
    BY <1>6 DEF OpenAlertSession, vars
  <2>2. QED
    BY <2>1 DEF PoolInv, TasksConnected, OneAlertAtATime
<1>7. CASE FetchAdmins(t) \/ AlertTimesOut(t)
  <2>1. /\ alerting' = alerting \ {t} /\ second' = second \ {t}
        /\ UNCHANGED <<conns, pc, lock>>
    BY <1>7 DEF FetchAdmins, AlertTimesOut, EndAlert
  <2>2. QED
    BY <2>1 DEF PoolInv, TasksConnected, OneAlertAtATime
<1>8. CASE PoolCommit(t)
  <2>1. /\ t \notin alerting /\ conns' = conns \ {t}
        /\ pc' = [pc EXCEPT ![t] = "done"]
        /\ lock' = IF lock = t THEN None ELSE lock
        /\ UNCHANGED <<alerting, second>>
    BY <1>8 DEF PoolCommit, CommitDeduction, Commit, Unlock, GoTo, Close
  <2>2. QED
    BY <1>1, <2>1 DEF PoolInv, TasksConnected, OneAlertAtATime
<1>9. QED
  BY <1>2, <1>3, <1>4, <1>5, <1>6, <1>7, <1>8 DEF PoolTask

\* The steps of everybody else, and failing transactions.
LEMMA OthersKeepPoolInv ==
    ASSUME Inv, PoolInv, [PoolNext]_poolVars, ~ \E t \in Tasks : PoolTask(t)
    PROVE  PoolInv'
<1>1. /\ Tasks \cap Edits = {} /\ Tasks \cap Routers = {} /\ None \notin Tasks
      /\ Tasks \subseteq Clients
      /\ pc \in [Clients -> {"idle", "locked", "read", "flushed", "loaded", "done", "failed"}]
  BY ClientAssumption DEF Inv, TypeOK, Clients, Writers
<1>2. ASSUME NEW e \in Edits, PoolEdit(e) PROVE PoolInv'
  <2>1. /\ \E s \in {"read", "flushed", "done", "failed"} : pc' = [pc EXCEPT ![e] = s]
        /\ conns' \in {conns, conns \cup {e}, conns \ {e}}
        /\ UNCHANGED <<alerting, second>>
    BY <1>2
    DEF PoolEdit, PoolRead, PoolTimeout, PoolRefuse, PoolFlush, PoolCommitEdit, ReadRow,
        Unserved, RefuseRelease, Flush, CommitEdit, Commit, GoTo, Open, Close, pool
  <2>2. lock' \in {lock, IF lock = e THEN None ELSE lock} \/ lock = None
    BY <1>2
    DEF PoolEdit, PoolRead, PoolTimeout, PoolRefuse, PoolFlush, PoolCommitEdit, ReadRow,
        Unserved, RefuseRelease, Flush, CommitEdit, Commit, Acquire, CanLock, Unlock
  <2>3. \A t \in Tasks : pc'[t] = pc[t]
    BY <1>1, <1>2, <2>1
  <2>4. \A t \in Tasks : lock = t => lock' = t
    BY <1>1, <1>2, <2>2
  <2>5. QED
    BY <1>1, <1>2, <2>1, <2>3, <2>4, QuietStep
<1>3. ASSUME NEW r \in Routers, PoolRouter(r) PROVE PoolInv'
  <2>1. /\ pc' = pc \/ \E s \in {"loaded", "idle"} : pc' = [pc EXCEPT ![r] = s]
        /\ conns' \in {conns, conns \cup {r}, conns \ {r}}
        /\ UNCHANGED <<alerting, second, lock>>
    BY <1>3
    DEF PoolRouter, PoolMiss, PoolFill, EndCall, CacheMiss, FillCache, GoTo, Open, Close,
        pool, vars
  <2>2. \A t \in Tasks : pc'[t] = pc[t]
    BY <1>1, <1>3, <2>1
  <2>3. QED
    BY <1>1, <1>3, <2>1, <2>2, QuietStep
<1>4. ASSUME NEW w \in Writers, PoolRollback(w) PROVE PoolInv'
  <2>1. /\ w \notin alerting /\ conns' = conns \ {w}
        /\ pc' = [pc EXCEPT ![w] = "failed"]
        /\ lock' = IF lock = w THEN None ELSE lock
        /\ UNCHANGED <<alerting, second>>
    BY <1>4 DEF PoolRollback, Rollback, Unlock, GoTo, Close
  <2>2. QED
    BY <1>1, <2>1 DEF PoolInv, TasksConnected, OneAlertAtATime
<1>5. CASE (CacheExpires \/ WarningHourEnds) /\ UNCHANGED pool
  <2>1. UNCHANGED <<pc, lock, conns, alerting, second>>
    BY <1>5 DEF CacheExpires, WarningHourEnds, pool
  <2>2. QED
    BY <2>1, QuietStep
<1>6. CASE UNCHANGED poolVars
  BY <1>6, QuietStep DEF poolVars, vars, pool
<1>7. QED
  BY <1>2, <1>3, <1>4, <1>5, <1>6 DEF PoolNext

\* An alert handler that waits for its second connection, or has it, belongs to
\* the one task that has locked the provider, so that a provider never takes
\* more than one connection on top of one per session.
THEOREM AlertsHoldTheLock == PoolSpec => []OneAlertAtATime
<1>1. PoolInit => PoolInv
  <2>1. SUFFICES ASSUME PoolInit PROVE PoolInv
    OBVIOUS
  <2>2. alerting = {} /\ second = {} /\ pc = [c \in Clients |-> "idle"]
    BY <2>1 DEF PoolInit, Init
  <2>3. TasksConnected
    BY <2>2 DEF TasksConnected, Clients, Writers
  <2>4. QED
    BY <2>2, <2>3 DEF PoolInv, OneAlertAtATime
<1>2. Inv /\ PoolInv /\ [PoolNext]_poolVars => PoolInv'
  BY TaskKeepsPoolInv, OthersKeepPoolInv
<1>3. PoolInv => OneAlertAtATime
  BY DEF PoolInv
<1>4. PoolSpec => []Inv
  BY PoolIsProviderBalance, Invariance, PTL DEF ImplementsProviderBalance
<1>5. QED
  BY <1>1, <1>2, <1>3, <1>4, PTL DEF PoolSpec
===============================================================================
