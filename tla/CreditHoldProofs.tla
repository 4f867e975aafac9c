--------------------------- MODULE CreditHoldProofs ---------------------------
(***************************************************************************)
(* Theorems about CreditHold, for every set of users, requests, payments   *)
(* and models, every price and every combination of faults that a theorem  *)
(* does not exclude by name.                                               *)
(***************************************************************************)
EXTENDS CreditHold, FiniteSetTheorems, WellFoundedInduction, TLAPS

-------------------------------------------------------------------------------
(* What the pricing operators return.                                      *)

\* An estimate is an integer, below zero if max_tokens is (estimate_max_cost).
LEMMA EstimateIsInt ==
    ASSUME NEW m \in Models, NEW k \in TokenLimits
    PROVE  EstimateMaxCost(m, k) \in Int
<1>1. k \in Int /\ OutputPrice[m] \in Int /\ Markup[m] \in Int
  BY PriceAssumption
<1>2. k * OutputPrice[m] \in Int
  BY <1>1
<1>3. QED
  BY <1>1, <1>2 DEF EstimateMaxCost

\* A bill is a natural number (_compute_base_cost and the markup).
LEMMA BillIsNat ==
    ASSUME NEW a \in Asks, NEW bill \in Bills(a)
    PROVE  bill \in Nat
<1>1. PICK served \in Routes[a.model], usage \in Usages[a] :
           bill = BilledAmount(a.model, served, usage)
  BY DEF Bills
<1>2. a.model \in Models /\ served \in Models
  BY <1>1, PriceAssumption DEF Asks
<1>3. /\ InputPrice[served] \in Nat
      /\ OutputPrice[served] \in Nat
      /\ Markup[a.model] \in Nat
      /\ usage.prompt \in Nat
      /\ usage.completion \in Nat
  BY <1>2, PriceAssumption
<1>4. usage.prompt * InputPrice[served] + usage.completion * OutputPrice[served] \in Nat
  <2>1. usage.prompt * InputPrice[served] \in Nat
    BY <1>3
  <2>2. usage.completion * OutputPrice[served] \in Nat
    BY <1>3
  <2>3. QED
    BY <2>1, <2>2
<1>5. QED
  BY <1>1, <1>3, <1>4 DEF BilledAmount

\* The estimate of a request whose body is well formed.
LEMMA RequestEstimate ==
    ASSUME ask \in [Requests -> Asks], NEW r \in Requests
    PROVE  Estimate(r) \in Int
BY EstimateIsInt DEF Estimate, Asks

-------------------------------------------------------------------------------
(* Type correctness.  TypeOK alone is not inductive: Restore and Settle     *)
(* subtract what they read earlier, so a step that writes must know its     *)
(* amounts.                                                                 *)

TypeInv == TypeOK /\ AmountsKnown

LEMMA TypeInvInit == Init => TypeInv
BY UserAssumption
   DEF Init, TypeInv, TypeOK, AmountsKnown, RequestStates, PaymentStates, Txns, Open, InFlight

LEMMA TypeInvStep == TypeInv /\ [Next]_vars => TypeInv'
<1> SUFFICES ASSUME TypeInv, [Next]_vars PROVE TypeInv'
  OBVIOUS
<1> USE UserAssumption DEF TypeInv, TypeOK, AmountsKnown, Txns, GoTo, Unlock,
        SelectForUpdate, accounts, alerts, inputs, RequestStates, PaymentStates, InFlight, Open
<1>1. ASSUME NEW r \in Requests, BeginHold(r) PROVE TypeInv'
  BY <1>1 DEF BeginHold
<1>2. ASSUME NEW r \in Requests, Refuse(r) PROVE TypeInv'
  BY <1>2 DEF Refuse
<1>3. ASSUME NEW r \in Requests, CommitHold(r) PROVE TypeInv'
  BY <1>3, RequestEstimate DEF CommitHold, StoreHoldKey
<1>4. ASSUME NEW r \in Requests, FailCall(r) PROVE TypeInv'
  BY <1>4 DEF FailCall, StartRelease, GetHoldAmount
<1>5. ASSUME NEW r \in Requests, Answer(r) PROVE TypeInv'
  BY <1>5, BillIsNat DEF Answer
<1>6. ASSUME NEW r \in Requests, PostProcess(r) PROVE TypeInv'
  <2>1. CASE StartRelease(r)
    BY <1>6, <2>1 DEF PostProcess, StartRelease, GetHoldAmount
  <2>2. CASE cost[r] # None /\ GetHoldAmount(r) /\ GoTo(r, "settling")
    BY <1>6, <2>2 DEF PostProcess, GetHoldAmount
  <2>3. QED
    BY <1>6, <2>1, <2>2 DEF PostProcess
<1>7. ASSUME NEW r \in Requests, LockToRelease(r) PROVE TypeInv'
  BY <1>7 DEF LockToRelease
<1>8. ASSUME NEW r \in Requests, Restore(r) PROVE TypeInv'
  BY <1>8 DEF Restore, ReleaseRedisHold
<1>9. ASSUME NEW r \in Requests, LockToSettle(r) PROVE TypeInv'
  BY <1>9 DEF LockToSettle
<1>10. ASSUME NEW r \in Requests, Settle(r) PROVE TypeInv'
  <2>1. SettledBalance(r) \in Int /\ cost[r] \in Nat
    BY <1>10 DEF Settle, SettledBalance
  <2>2. emails' \in [Users -> Nat] /\ coolingDown' \in [Users -> BOOLEAN]
    <3>1. UserOf[r] \in Users
      BY Zenon
    <3>2. /\ \/ emails' = [emails EXCEPT ![UserOf[r]] = @ + 1]
             \/ UNCHANGED emails
          /\ \/ coolingDown' = [coolingDown EXCEPT ![UserOf[r]] = TRUE]
             \/ UNCHANGED coolingDown
      BY <1>10, Zenon DEF Settle, CheckLowCredit, SendLowCredit
    <3>3. emails' \in [Users -> Nat]
      BY <3>1, <3>2
    <3>4. coolingDown' \in [Users -> BOOLEAN]
      BY <3>1, <3>2, Zenon
    <3>5. QED
      BY <3>3, <3>4
  <2>3. /\ balance' \in [Users -> Int]
        /\ ledger'  \in [Users -> Int]
        /\ charged' \in [Requests -> Int]
    BY <1>10, <2>1 DEF Settle
  <2>4. /\ redis' \in [Requests -> Int \cup {None}]
        /\ lock'  \in [Users -> Txns \cup {None}]
    BY <1>10 DEF Settle, ReleaseRedisHold
  <2>5. /\ pc' = [pc EXCEPT ![r] = "settled"]
        /\ UNCHANGED <<lastTopup, ask, cost, deliveries, snap, seen>>
    BY <1>10 DEF Settle
  <2>6. QED
    BY ONLY TypeInv, <2>2, <2>3, <2>4, <2>5, r \in Requests
       DEF TypeInv, TypeOK, AmountsKnown, Txns, RequestStates, PaymentStates, InFlight, Open
<1>11. ASSUME NEW r \in Requests, RequestFault(r) PROVE TypeInv'
  BY <1>11, RequestEstimate DEF RequestFault, HoldRollsBack, CloseRollsBack, Abandon,
     Expire, StoreHoldKey, ReleaseRedisHold, SendLowCredit
<1>12. ASSUME NEW p \in Payments, PaymentStep(p) PROVE TypeInv'
  <2>1. CASE Deliver(p)
    BY <2>1 DEF Deliver
  <2>2. CASE CreditTopUp(p)
    BY <2>2 DEF CreditTopUp
  <2>3. CASE TopUpRollsBack(p)
    BY <2>3 DEF TopUpRollsBack
  <2>4. QED
    BY <1>12, <2>1, <2>2, <2>3 DEF PaymentStep
<1>13. ASSUME NEW u \in Users, CooldownEnds(u) PROVE TypeInv'
  BY <1>13 DEF CooldownEnds
<1>14. CASE Crash
  BY <1>14 DEF Crash, AfterCrash
<1>15. CASE UNCHANGED vars
  BY <1>15 DEF vars
<1>16. QED
  BY <1>1, <1>2, <1>3, <1>4, <1>5, <1>6, <1>7, <1>8, <1>9, <1>10, <1>11,
     <1>12, <1>13, <1>14, <1>15 DEF Next, RequestStep, Quiescent

\* Every reachable state is of the declared types, whatever fails.
THEOREM TypeCorrect == Spec => []TypeOK
<1>1. TypeInv => TypeOK
  BY DEF TypeInv
<1>2. QED
  BY <1>1, TypeInvInit, TypeInvStep, PTL DEF Spec

-------------------------------------------------------------------------------
(* Row locks.  Every action falls into one of three classes: it takes the   *)
(* row lock, it ends a transaction that has it, or it does neither.         *)

\* SELECT ... FOR UPDATE: the balance read is the balance, and no other
\* transaction of this user can be between its read and its write.
LEMMA LockingKeepsRows ==
    ASSUME TypeInv, RowLocked, NEW t \in Txns, NEW s,
           SelectForUpdate(t), GoTo(t, s), UNCHANGED balance
    PROVE  RowLocked'
<1> USE UserAssumption DEF TypeInv, TypeOK
<1>1. UserOf[t] \in Users /\ lock[UserOf[t]] = None
  BY DEF SelectForUpdate, CanLock
<1>2. ASSUME NEW x \in Txns, pc'[x] \in LockedStates
      PROVE  lock'[UserOf[x]] = x /\ snap'[x] = balance'[UserOf[x]]
  <2>1. CASE x = t
    BY <1>1, <2>1 DEF SelectForUpdate
  <2>2. CASE x # t
    <3>1. pc'[x] = pc[x] /\ UserOf[x] \in Users
      BY <2>2 DEF GoTo
    <3>2. lock[UserOf[x]] = x /\ snap[x] = balance[UserOf[x]]
      BY <1>2, <3>1 DEF RowLocked
    <3>3. UserOf[x] # UserOf[t]
      BY <1>1, <3>2
    <3>4. QED
      BY <1>1, <2>2, <3>1, <3>2, <3>3 DEF SelectForUpdate
  <2>3. QED
    BY <2>1, <2>2
<1>3. QED
  BY <1>2 DEF RowLocked

\* COMMIT or ROLLBACK: what the transaction wrote was the row it had locked.
LEMMA EndingKeepsRows ==
    ASSUME TypeInv, RowLocked, NEW t \in Txns, NEW s, s \notin LockedStates,
           pc[t] \in LockedStates, Unlock(t), GoTo(t, s), UNCHANGED snap,
           \A u \in Users : u # UserOf[t] => balance'[u] = balance[u]
    PROVE  RowLocked'
<1> USE UserAssumption DEF TypeInv, TypeOK
<1>1. UserOf[t] \in Users /\ lock[UserOf[t]] = t
  BY DEF RowLocked
<1>2. ASSUME NEW x \in Txns, pc'[x] \in LockedStates
      PROVE  lock'[UserOf[x]] = x /\ snap'[x] = balance'[UserOf[x]]
  <2>1. x # t /\ pc'[x] = pc[x] /\ UserOf[x] \in Users
    BY <1>2 DEF GoTo
  <2>2. lock[UserOf[x]] = x /\ snap[x] = balance[UserOf[x]]
    BY <1>2, <2>1 DEF RowLocked
  <2>3. UserOf[x] # UserOf[t]
    BY <1>1, <2>1, <2>2
  <2>4. QED
    BY <1>1, <2>1, <2>2, <2>3 DEF Unlock
<1>3. QED
  BY <1>2 DEF RowLocked

\* A step outside any row lock.
LEMMA OtherStepsKeepRows ==
    ASSUME TypeInv, RowLocked, NEW t \in Txns, NEW s, s \notin LockedStates,
           GoTo(t, s), UNCHANGED <<balance, lock, snap>>
    PROVE  RowLocked'
BY DEF TypeInv, TypeOK, RowLocked, GoTo

LEMMA RowLockedStep == TypeInv /\ RowLocked /\ [Next]_vars => RowLocked'
<1> SUFFICES ASSUME TypeInv, RowLocked, [Next]_vars PROVE RowLocked'
  OBVIOUS
<1> USE DEF Txns, accounts, alerts, inputs
<1>1. ASSUME NEW r \in Requests, BeginHold(r) \/ LockToRelease(r) \/ LockToSettle(r)
      PROVE  RowLocked'
  BY <1>1, LockingKeepsRows DEF BeginHold, LockToRelease, LockToSettle
<1>2. ASSUME NEW r \in Requests, Refuse(r) \/ HoldRollsBack(r)
      PROVE  RowLocked'
  BY <1>2, EndingKeepsRows DEF Refuse, HoldRollsBack, LockedStates
<1>3. ASSUME NEW r \in Requests, CommitHold(r) \/ Restore(r) \/ Settle(r)
      PROVE  RowLocked'
  <2>1. pc[r] \in LockedStates /\ Unlock(r) /\ UNCHANGED snap
    BY <1>3 DEF CommitHold, Restore, Settle, LockedStates
  <2>2. \A u \in Users : u # UserOf[r] => balance'[u] = balance[u]
    BY <1>3 DEF CommitHold, Restore, Settle, TypeInv, TypeOK
  <2>3. GoTo(r, "held") \/ GoTo(r, "released") \/ GoTo(r, "settled")
    BY <1>3 DEF CommitHold, Restore, Settle
  <2>4. QED
    BY <2>1, <2>2, <2>3, EndingKeepsRows DEF LockedStates
<1>4. ASSUME NEW r \in Requests, FailCall(r) \/ PostProcess(r)
      PROVE  RowLocked'
  <2>1. GoTo(r, "released") \/ GoTo(r, "releasing") \/ GoTo(r, "settling")
    BY <1>4 DEF FailCall, PostProcess, StartRelease
  <2>2. UNCHANGED <<balance, lock, snap>>
    BY <1>4 DEF FailCall, PostProcess
  <2>3. QED
    BY <2>1, <2>2, OtherStepsKeepRows DEF LockedStates
<1>5. ASSUME NEW r \in Requests, Answer(r) \/ Abandon(r)
      PROVE  RowLocked'
  BY <1>5, OtherStepsKeepRows DEF Answer, Abandon, LockedStates
<1>6. ASSUME NEW r \in Requests, CloseRollsBack(r)
      PROVE  RowLocked'
  <2>1. Unlock(r) /\ GoTo(r, "lost") /\ UNCHANGED <<balance, snap>>
    BY <1>6 DEF CloseRollsBack
  <2>2. CASE pc[r] \in LockedStates
    BY <2>1, <2>2, EndingKeepsRows DEF LockedStates
  <2>3. CASE pc[r] \notin LockedStates
    <3>1. ASSUME NEW x \in Txns, pc'[x] \in LockedStates
          PROVE  lock'[UserOf[x]] = x /\ snap'[x] = balance'[UserOf[x]]
      <4>1. x # r /\ pc'[x] = pc[x] /\ UserOf[x] \in Users
        BY <2>1, <3>1, UserAssumption DEF GoTo, TypeInv, TypeOK, LockedStates
      <4>2. lock[UserOf[x]] = x /\ snap[x] = balance[UserOf[x]]
        BY <3>1, <4>1 DEF RowLocked
      <4>3. QED
        BY <2>1, <4>1, <4>2 DEF Unlock, TypeInv, TypeOK
    <3>2. QED
      BY <3>1 DEF RowLocked
  <2>4. QED
    BY <2>2, <2>3
<1>7. ASSUME NEW p \in Payments, PaymentStep(p)
      PROVE  RowLocked'
  <2>1. CASE Deliver(p)
    BY <2>1, LockingKeepsRows DEF Deliver
  <2>2. CASE CreditTopUp(p)
    <3>1. \A u \in Users : u # UserOf[p] => balance'[u] = balance[u]
      BY <2>2 DEF CreditTopUp, TypeInv, TypeOK
    <3>2. QED
      BY <2>2, <3>1, EndingKeepsRows DEF CreditTopUp, LockedStates
  <2>3. CASE TopUpRollsBack(p)
    BY <2>3, EndingKeepsRows DEF TopUpRollsBack, LockedStates
  <2>4. QED
    BY <1>7, <2>1, <2>2, <2>3 DEF PaymentStep
<1>8. CASE Crash
  BY <1>8 DEF Crash, AfterCrash, RowLocked, LockedStates, InFlight
<1>9. ASSUME UNCHANGED <<balance, lock, pc, snap>>
      PROVE  RowLocked'
  BY <1>9 DEF RowLocked
<1>10. QED
  BY <1>1, <1>2, <1>3, <1>4, <1>5, <1>6, <1>7, <1>8, <1>9
     DEF Next, RequestStep, RequestFault, Expire, CooldownEnds, Quiescent, vars

\* No update of a balance is ever lost: whoever is about to write it holds
\* the row and read it after the last write.
THEOREM NoLostUpdate == Spec => []RowLocked
<1>1. Init => RowLocked
  BY DEF Init, RowLocked, LockedStates
<1>2. QED
  BY <1>1, TypeInvInit, TypeInvStep, RowLockedStep, PTL DEF Spec

-------------------------------------------------------------------------------
(* Hold amounts.  A step of one request leaves the record of every other    *)
(* request alone; what it does to its own is checked action by action.      *)

LEMMA AskIsFixed == [Next]_vars => UNCHANGED ask
BY DEF Next, RequestStep, RequestFault, PaymentStep, BeginHold, Refuse, CommitHold,
   FailCall, Answer, PostProcess, LockToRelease, Restore, LockToSettle, Settle,
   HoldRollsBack, CloseRollsBack, Abandon, Expire, Deliver, CreditTopUp,
   TopUpRollsBack, CooldownEnds, Crash, Quiescent, vars, inputs

LEMMA RecordOfIdleRequest ==
    ASSUME NEW r \in Requests, HoldRecord(r), UNCHANGED ask,
           pc'[r] = pc[r], redis'[r] = redis[r], cost'[r] = cost[r],
           seen'[r] = seen[r], charged'[r] = charged[r]
    PROVE  HoldRecord(r)'
<1>1. Forfeit'[r] = Forfeit[r]
  BY DEF Forfeit, Estimate
<1>2. QED
  BY <1>1 DEF HoldRecord, Estimate, Bills

LEMMA RequestStepKeepsRecord ==
    ASSUME TypeInv, NEW r \in Requests, HoldRecord(r), UNCHANGED ask,
           RequestStep(r)
    PROVE  HoldRecord(r)'
<1> DEFINE est == Estimate(r)
           bills == Bills(ask[r])
<1>1. /\ est \in Int /\ est' = est /\ bills' = bills
      /\ None \notin Int /\ \A b \in bills : b \in Nat
  BY RequestEstimate, BillIsNat, UserAssumption DEF TypeInv, TypeOK, Estimate, Bills
<1>2. r \in Txns
  BY DEF Txns
<1> HIDE DEF est, bills
<1> USE <1>1, <1>2 DEF TypeInv, TypeOK, GoTo, accounts, alerts, inputs, InFlight, Open
<1>3. /\ redis[r] \in {None, est} /\ cost[r] \in bills \cup {None}
      /\ charged[r] \in Int /\ snap[r] \in Int
      /\ pc[r] \in {"new", "holding"} => charged[r] = 0
      /\ pc[r] \in InFlight => charged[r] = est
      /\ pc[r] \in {"releasing", "settling", "restoring", "charging"} =>
             seen[r] \in {None, est}
  BY DEF HoldRecord, est, bills
<1>4. SUFFICES
        /\ redis'[r] \in {None, est} /\ cost'[r] \in bills \cup {None}
        /\ pc'[r] \in {"new", "holding", "refused", "failed"} => charged'[r] = 0
        /\ pc'[r] \in Open => charged'[r] = est
        /\ pc'[r] \in {"releasing", "settling", "restoring", "charging", "settled", "released"} =>
               seen'[r] \in {None, est}
        /\ pc'[r] = "settled" =>
               /\ cost'[r] # None
               /\ charged'[r] = cost'[r] + IF seen'[r] = None THEN est ELSE 0
        /\ pc'[r] = "released" => charged'[r] = IF seen'[r] = None THEN est ELSE 0
  BY DEF HoldRecord, Forfeit, est, bills
<1>5. CASE BeginHold(r)
  BY <1>3, <1>5 DEF BeginHold
<1>6. CASE Refuse(r)
  BY <1>3, <1>6 DEF Refuse
<1>7. CASE CommitHold(r)
  BY <1>3, <1>7 DEF CommitHold, StoreHoldKey, est
<1>8. CASE FailCall(r)
  BY <1>3, <1>8 DEF FailCall, StartRelease, GetHoldAmount
<1>9. CASE Answer(r)
  BY <1>3, <1>9 DEF Answer, bills
<1>10. CASE PostProcess(r)
  <2>1. CASE StartRelease(r)
    BY <1>3, <1>10, <2>1 DEF PostProcess, StartRelease, GetHoldAmount
  <2>2. CASE GetHoldAmount(r) /\ GoTo(r, "settling")
    BY <1>3, <1>10, <2>2 DEF PostProcess, GetHoldAmount
  <2>3. QED
    BY <1>10, <2>1, <2>2 DEF PostProcess
<1>11. CASE LockToRelease(r) \/ LockToSettle(r)
  BY <1>3, <1>11 DEF LockToRelease, LockToSettle
<1>12. CASE Restore(r)
  BY <1>3, <1>12 DEF Restore, ReleaseRedisHold, AmountsKnown
<1>13. CASE Settle(r)
  <2>1. cost[r] \in Nat /\ seen[r] \in {None, est} /\ charged[r] = est
    BY <1>3, <1>13 DEF Settle, AmountsKnown
  <2>2. snap[r] - SettledBalance(r) = cost[r] - IF seen[r] = None THEN 0 ELSE est
    BY <1>3, <2>1 DEF SettledBalance
  <2>3. charged'[r] = est + snap[r] - SettledBalance(r) /\ cost' = cost /\ seen' = seen
    BY <1>13, <2>1 DEF Settle
  <2>4. SettledBalance(r) \in Int
    BY <1>3, <2>1 DEF SettledBalance
  <2>5. charged'[r] = cost[r] + IF seen[r] = None THEN est ELSE 0
    BY <1>3, <2>1, <2>2, <2>3, <2>4
  <2>6. pc'[r] = "settled" /\ redis'[r] \in {None, est}
    BY <1>3, <1>13 DEF Settle, ReleaseRedisHold
  <2>7. QED
    BY <1>3, <2>1, <2>3, <2>5, <2>6
<1>14. QED
  BY <1>5, <1>6, <1>7, <1>8, <1>9, <1>10, <1>11, <1>12, <1>13 DEF RequestStep

LEMMA FaultKeepsRecord ==
    ASSUME TypeInv, NEW r \in Requests, HoldRecord(r), UNCHANGED ask,
           RequestFault(r)
    PROVE  HoldRecord(r)'
<1> DEFINE est == Estimate(r)
<1>1. est \in Int /\ est' = est /\ Bills(ask[r])' = Bills(ask[r]) /\ r \in Txns
  BY RequestEstimate DEF TypeInv, TypeOK, Estimate, Bills, Txns
<1> HIDE DEF est
<1>2. UNCHANGED <<charged, cost, seen>> /\ redis'[r] \in {redis[r], None, est}
  BY <1>1 DEF RequestFault, HoldRollsBack, CloseRollsBack, Abandon, Expire,
     StoreHoldKey, ReleaseRedisHold, accounts, inputs, TypeInv, TypeOK, est
<1>3. \/ pc'[r] = pc[r]
      \/ pc[r] = "holding" /\ pc'[r] = "failed"
      \/ pc[r] \in InFlight /\ pc'[r] = "lost"
  BY <1>1 DEF RequestFault, HoldRollsBack, CloseRollsBack, Abandon, Expire, GoTo,
     TypeInv, TypeOK, InFlight
<1>4. pc'[r] = pc[r] => Forfeit'[r] = Forfeit[r]
  BY <1>1, <1>2 DEF Forfeit, est
<1>5. QED
  BY <1>1, <1>2, <1>3, <1>4 DEF HoldRecord, InFlight, Open, est

LEMMA StepTouchesOneRequest ==
    ASSUME TypeInv, NEW q \in Requests, RequestStep(q) \/ RequestFault(q),
           NEW r \in Requests, r # q
    PROVE  /\ pc'[r] = pc[r] /\ redis'[r] = redis[r] /\ cost'[r] = cost[r]
           /\ seen'[r] = seen[r] /\ charged'[r] = charged[r]
<1> USE DEF TypeInv, TypeOK, GoTo, accounts, alerts, inputs, Txns
<1>1. CASE BeginHold(q) \/ Refuse(q) \/ CommitHold(q)
  BY <1>1 DEF BeginHold, Refuse, CommitHold, StoreHoldKey
<1>2. CASE FailCall(q) \/ Answer(q) \/ PostProcess(q)
  BY <1>2 DEF FailCall, Answer, PostProcess, StartRelease, GetHoldAmount
<1>3. CASE LockToRelease(q) \/ Restore(q) \/ LockToSettle(q) \/ Settle(q)
  BY <1>3 DEF LockToRelease, Restore, LockToSettle, Settle, ReleaseRedisHold
<1>4. CASE RequestFault(q)
  BY <1>4 DEF RequestFault, HoldRollsBack, CloseRollsBack, Abandon, Expire,
     StoreHoldKey, ReleaseRedisHold
<1>5. QED
  BY <1>1, <1>2, <1>3, <1>4 DEF RequestStep

LEMMA HoldsRecordedStep == TypeInv /\ HoldsRecorded /\ [Next]_vars => HoldsRecorded'
<1> SUFFICES ASSUME TypeInv, HoldsRecorded, [Next]_vars, NEW r \in Requests
             PROVE  HoldRecord(r)'
  BY DEF HoldsRecorded
<1>1. HoldRecord(r) /\ UNCHANGED ask
  BY AskIsFixed DEF HoldsRecorded
<1>2. ASSUME NEW q \in Requests, RequestStep(q) \/ RequestFault(q)
      PROVE  HoldRecord(r)'
  <2>1. CASE q = r
    BY <1>1, <1>2, <2>1, RequestStepKeepsRecord, FaultKeepsRecord
  <2>2. CASE q # r
    BY <1>1, <1>2, <2>2, StepTouchesOneRequest, RecordOfIdleRequest
  <2>3. QED
    BY <2>1, <2>2
<1>3. ASSUME NEW p \in Payments, PaymentStep(p)
      PROVE  HoldRecord(r)'
  <2>1. UNCHANGED <<redis, cost, seen, charged>>
    BY <1>3 DEF PaymentStep, Deliver, CreditTopUp, TopUpRollsBack, accounts, inputs
  <2>2. r # p /\ pc'[r] = pc[r]
    BY <1>3, UserAssumption DEF PaymentStep, Deliver, CreditTopUp, TopUpRollsBack,
       GoTo, TypeInv, TypeOK, Txns
  <2>3. QED
    BY <1>1, <2>1, <2>2, RecordOfIdleRequest
<1>4. CASE Crash
  <2>1. UNCHANGED <<redis, cost, seen, charged>> /\ pc'[r] = AfterCrash(r)
    BY <1>4 DEF Crash, accounts, inputs, Txns
  <2>2. UNCHANGED <<Estimate(r), Bills(ask[r])>>
    BY <1>1 DEF Estimate, Bills
  <2>3. pc'[r] \in {"settled", "released"} => pc'[r] = pc[r]
    BY <2>1 DEF AfterCrash
  <2>4. pc'[r] = pc[r] => Forfeit'[r] = Forfeit[r]
    BY <2>1, <2>2 DEF Forfeit
  <2>5. QED
    BY <1>1, <2>1, <2>2, <2>3, <2>4 DEF AfterCrash, HoldRecord, InFlight, Open
<1>5. ASSUME UNCHANGED <<pc, redis, cost, seen, charged>>
      PROVE  HoldRecord(r)'
  BY <1>1, <1>5, RecordOfIdleRequest
<1>6. QED
  BY <1>2, <1>3, <1>4, <1>5
     DEF Next, CooldownEnds, Quiescent, vars, accounts, inputs

LEMMA HoldsRecordedInit == Init => HoldsRecorded
BY DEF Init, HoldsRecorded, HoldRecord, Txns, InFlight, Open

\* Whatever fails, in whatever order: a hold key and an amount read from one
\* are the estimate or nothing.
THEOREM HoldsAreRecorded == Spec => []HoldsRecorded
BY TypeInvInit, TypeInvStep, HoldsRecordedInit, HoldsRecordedStep, PTL DEF Spec

\* Whatever fails, in whatever order: what a closed request was charged is its
\* bill, or nothing, and its whole hold on top if the key was gone.
THEOREM EveryChargeIsExplained == Spec => []ChargesExplained
<1>1. HoldsRecorded => ChargesExplained
  BY DEF HoldsRecorded, HoldRecord, ChargesExplained
<1>2. QED
  BY <1>1, TypeInvInit, TypeInvStep, HoldsRecordedInit, HoldsRecordedStep, PTL DEF Spec

-------------------------------------------------------------------------------
(* When Redis keeps the keys, every hold amount is found again.             *)

KeyKept(r) ==
    /\ pc[r] \in {"held", "answered"} => redis[r] = Estimate(r)
    /\ pc[r] \in {"releasing", "settling", "restoring", "charging"} =>
           seen[r] = Estimate(r)
    /\ pc[r] = "settled"  => charged[r] = cost[r]
    /\ pc[r] = "released" => charged[r] = 0

KeysKept == \A r \in Requests : KeyKept(r)

LEMMA KeyOfIdleRequest ==
    ASSUME NEW r \in Requests, KeyKept(r), UNCHANGED ask,
           pc'[r] = pc[r], redis'[r] = redis[r], cost'[r] = cost[r],
           seen'[r] = seen[r], charged'[r] = charged[r]
    PROVE  KeyKept(r)'
BY DEF KeyKept, Estimate

LEMMA RequestStepKeepsKey ==
    ASSUME RedisIsReliable, TypeInv, NEW r \in Requests, HoldRecord(r), KeyKept(r),
           UNCHANGED ask, RequestStep(r) \/ RequestFault(r)
    PROVE  KeyKept(r)'
<1> DEFINE est == Estimate(r)
<1>1. est \in Int /\ est' = est /\ r \in Txns /\ None \notin Int
  BY RequestEstimate, UserAssumption DEF TypeInv, TypeOK, Estimate, Txns
<1>2. "redis" \notin Faults /\ "expiry" \notin Faults
  BY DEF RedisIsReliable
<1> HIDE DEF est
<1>3. /\ pc[r] \in {"held", "answered"} => redis[r] = est
      /\ pc[r] \in {"releasing", "settling", "restoring", "charging"} => seen[r] = est
      /\ pc[r] \in InFlight => charged[r] = est
      /\ pc[r] = "settled"  => charged[r] = cost[r]
      /\ pc[r] = "released" => charged[r] = 0
      /\ charged[r] \in Int /\ snap[r] \in Int
  <2>1. charged[r] \in Int /\ snap[r] \in Int
    BY <1>1 DEF TypeInv, TypeOK
  <2>2. QED
    BY <2>1 DEF KeyKept, HoldRecord, est, Open
<1>4. SUFFICES
        /\ pc'[r] \in {"held", "answered"} => redis'[r] = est
        /\ pc'[r] \in {"releasing", "settling", "restoring", "charging"} => seen'[r] = est
        /\ pc'[r] = "settled"  => charged'[r] = cost'[r]
        /\ pc'[r] = "released" => charged'[r] = 0
  BY <1>1 DEF KeyKept, est
<1> USE <1>1, <1>2, <1>3 DEF TypeInv, TypeOK, GoTo, accounts, alerts, inputs, InFlight
<1>5. CASE BeginHold(r) \/ Refuse(r)
  BY <1>5 DEF BeginHold, Refuse
<1>6. CASE CommitHold(r)
  BY <1>6 DEF CommitHold, StoreHoldKey, est
<1>7. CASE FailCall(r) \/ Answer(r)
  BY <1>7 DEF FailCall, Answer, StartRelease, GetHoldAmount
<1>8. CASE PostProcess(r)
  <2>1. seen'[r] = est /\ (GoTo(r, "releasing") \/ GoTo(r, "settling"))
    BY <1>8 DEF PostProcess, StartRelease, GetHoldAmount
  <2>2. QED
    BY <1>8, <2>1 DEF PostProcess
<1>9. CASE LockToRelease(r) \/ LockToSettle(r)
  BY <1>9 DEF LockToRelease, LockToSettle
<1>10. CASE Restore(r)
  BY <1>10 DEF Restore
<1>11. CASE Settle(r)
  <2>1. cost[r] \in Nat /\ seen[r] = est /\ charged[r] = est
    BY <1>11 DEF Settle, AmountsKnown
  <2>2. SettledBalance(r) = snap[r] + (est - cost[r])
    BY <2>1 DEF SettledBalance
  <2>3. charged'[r] = est + snap[r] - SettledBalance(r) /\ cost' = cost
    BY <1>11, <2>1 DEF Settle
  <2>4. charged'[r] = cost[r]
    BY <2>1, <2>2, <2>3
  <2>5. pc'[r] = "settled"
    BY <1>11 DEF Settle
  <2>6. QED
    BY <2>3, <2>4, <2>5
<1>12. CASE RequestFault(r)
  <2>1. pc'[r] \in {"failed", "lost"}
    BY <1>12 DEF RequestFault, HoldRollsBack, CloseRollsBack, Abandon, Expire
  <2>2. QED
    BY <2>1
<1>13. QED
  BY <1>5, <1>6, <1>7, <1>8, <1>9, <1>10, <1>11, <1>12 DEF RequestStep

LEMMA KeysKeptStep ==
    ASSUME RedisIsReliable
    PROVE  TypeInv /\ HoldsRecorded /\ KeysKept /\ [Next]_vars => KeysKept'
<1> SUFFICES ASSUME TypeInv, HoldsRecorded, KeysKept, [Next]_vars, NEW r \in Requests
             PROVE  KeyKept(r)'
  BY DEF KeysKept
<1>1. KeyKept(r) /\ HoldRecord(r) /\ UNCHANGED ask
  BY AskIsFixed DEF HoldsRecorded, KeysKept
<1>2. ASSUME NEW q \in Requests, RequestStep(q) \/ RequestFault(q)
      PROVE  KeyKept(r)'
  <2>1. CASE q = r
    BY <1>1, <1>2, <2>1, RequestStepKeepsKey
  <2>2. CASE q # r
    BY <1>1, <1>2, <2>2, StepTouchesOneRequest, KeyOfIdleRequest
  <2>3. QED
    BY <2>1, <2>2
<1>3. ASSUME NEW p \in Payments, PaymentStep(p)
      PROVE  KeyKept(r)'
  <2>1. UNCHANGED <<redis, cost, seen, charged>>
    BY <1>3 DEF PaymentStep, Deliver, CreditTopUp, TopUpRollsBack, accounts, inputs
  <2>2. r # p /\ pc'[r] = pc[r]
    BY <1>3, UserAssumption DEF PaymentStep, Deliver, CreditTopUp, TopUpRollsBack,
       GoTo, TypeInv, TypeOK, Txns
  <2>3. QED
    BY <1>1, <2>1, <2>2, KeyOfIdleRequest
<1>4. CASE Crash
  <2>1. UNCHANGED <<redis, cost, seen, charged, Estimate(r)>> /\ pc'[r] = AfterCrash(r)
    BY <1>1, <1>4 DEF Crash, accounts, inputs, Txns, Estimate
  <2>2. QED
    BY <1>1, <2>1 DEF AfterCrash, KeyKept, InFlight
<1>5. ASSUME UNCHANGED <<pc, redis, cost, seen, charged>>
      PROVE  KeyKept(r)'
  BY <1>1, <1>5, KeyOfIdleRequest
<1>6. QED
  BY <1>2, <1>3, <1>4, <1>5
     DEF Next, CooldownEnds, Quiescent, vars, accounts, inputs

LEMMA KeysKeptInit == Init => KeysKept
BY DEF Init, KeysKept, KeyKept, Txns

LEMMA OutcomeFollows == TypeInv /\ HoldsRecorded /\ KeysKept => ChargeMatchesOutcome
BY DEF HoldsRecorded, HoldRecord, KeysKept, KeyKept, ChargeMatchesOutcome, Open

\* As long as Redis keeps the keys, and in spite of crashes, rollbacks and
\* abandoned streams: the estimate while a hold is open, the bill once it is
\* settled, nothing once it is released.
THEOREM ChargesMatch ==
    ASSUME RedisIsReliable
    PROVE  Spec => []ChargeMatchesOutcome
BY TypeInvInit, TypeInvStep, HoldsRecordedInit, HoldsRecordedStep, KeysKeptInit,
   KeysKeptStep, OutcomeFollows, PTL DEF Spec

-------------------------------------------------------------------------------
(* Holds prevent overdrawing, given what they silently assume.              *)

LEMMA BalanceStep ==
    ASSUME RedisIsReliable, EstimatesCover
    PROVE  TypeInv /\ RowLocked /\ HoldsRecorded /\ KeysKept /\ NeverOverdrawn /\ [Next]_vars
               => NeverOverdrawn'
<1> SUFFICES ASSUME TypeInv, RowLocked, HoldsRecorded, KeysKept, NeverOverdrawn, [Next]_vars
             PROVE  NeverOverdrawn'
  OBVIOUS
<1> DEFINE Written(t, new) ==
      /\ new \in Nat
      /\ balance' = [balance EXCEPT ![UserOf[t]] = new]
<1>1. ASSUME NEW t \in Txns, NEW new, Written(t, new) PROVE NeverOverdrawn'
  BY <1>1, UserAssumption DEF NeverOverdrawn, TypeInv, TypeOK
<1>2. ASSUME UNCHANGED balance PROVE NeverOverdrawn'
  BY <1>2 DEF NeverOverdrawn
<1>3. ASSUME NEW t \in Txns, pc[t] \in LockedStates PROVE snap[t] \in Nat
  BY <1>3, UserAssumption DEF RowLocked, NeverOverdrawn, TypeInv, TypeOK
<1> HIDE DEF Written
<1>4. ASSUME NEW r \in Requests, CommitHold(r) PROVE NeverOverdrawn'
  <2>1. snap[r] - Estimate(r) \in Nat /\ r \in Txns
    BY <1>3, <1>4, RequestEstimate DEF CommitHold, LockedStates, Txns, TypeInv, TypeOK
  <2>2. QED
    BY <1>1, <1>4, <2>1 DEF CommitHold, Written
<1>5. ASSUME NEW r \in Requests, Restore(r) PROVE NeverOverdrawn'
  <2>1. seen[r] = Estimate(r)
    BY <1>5 DEF Restore, KeysKept, KeyKept
  <2>2. Estimate(r) \in Int /\ 0 <= Estimate(r)
    BY RequestEstimate DEF EstimatesCover, Estimate, TypeInv, TypeOK
  <2>3. snap[r] + seen[r] \in Nat /\ r \in Txns
    BY <1>3, <1>5, <2>1, <2>2 DEF Restore, LockedStates, Txns
  <2>4. QED
    BY <1>1, <1>5, <2>3 DEF Restore, Written
<1>6. ASSUME NEW r \in Requests, Settle(r) PROVE NeverOverdrawn'
  <2>1. /\ seen[r] = Estimate(r) /\ Estimate(r) \in Int
        /\ cost[r] \in Bills(ask[r]) /\ ask[r] \in Asks
        /\ r \in Txns /\ snap[r] \in Nat
    BY <1>3, <1>6, RequestEstimate
       DEF Settle, KeysKept, KeyKept, HoldsRecorded, HoldRecord, TypeInv, TypeOK,
           AmountsKnown, LockedStates, Txns
  <2>2. cost[r] \in Nat /\ cost[r] <= Estimate(r)
    BY <2>1, BillIsNat DEF EstimatesCover, Estimate
  <2>3. SettledBalance(r) = snap[r] + (Estimate(r) - cost[r])
    BY <2>1, UserAssumption DEF SettledBalance
  <2>4. SettledBalance(r) \in Nat
    BY <2>1, <2>2, <2>3
  <2>5. QED
    BY <1>1, <1>6, <2>1, <2>4 DEF Settle, Written
<1>7. ASSUME NEW p \in Payments, CreditTopUp(p) PROVE NeverOverdrawn'
  <2>1. snap[p] + TopUp[p] \in Nat /\ p \in Txns
    BY <1>3, <1>7, UserAssumption DEF CreditTopUp, LockedStates, Txns
  <2>2. QED
    BY <1>1, <1>7, <2>1 DEF CreditTopUp, Written
<1>8. QED
  BY <1>2, <1>4, <1>5, <1>6, <1>7
     DEF Next, RequestStep, RequestFault, PaymentStep, BeginHold, Refuse, FailCall,
         Answer, PostProcess, LockToRelease, LockToSettle, HoldRollsBack,
         CloseRollsBack, Abandon, Expire, Deliver, TopUpRollsBack, CooldownEnds,
         Crash, Quiescent, vars, accounts

\* The balance never goes below zero, provided that Redis keeps the keys and
\* that the estimate covers every bill; estimate_max_cost guarantees the
\* latter only for a prompt that costs nothing.
THEOREM HoldsPreventOverdrawing ==
    ASSUME RedisIsReliable, EstimatesCover
    PROVE  Spec => []NeverOverdrawn
<1>1. Init => RowLocked /\ NeverOverdrawn
  BY UserAssumption DEF Init, RowLocked, LockedStates, NeverOverdrawn
<1>2. QED
  BY <1>1, TypeInvInit, TypeInvStep, RowLockedStep, HoldsRecordedInit, HoldsRecordedStep,
     KeysKeptInit, KeysKeptStep, BalanceStep, PTL DEF Spec

-------------------------------------------------------------------------------
(* When the estimate covers the bill: estimate_max_cost counts the answer    *)
(* at the output price of the model asked for and the prompt not at all.     *)

\* Prompts are free, and no route leads to a model with dearer answers.
PromptsAreFree ==
    \A m \in Models : \A served \in Routes[m] :
        InputPrice[served] = 0 /\ OutputPrice[served] <= OutputPrice[m]

\* Bodies name no negative max_tokens, and providers keep to it.  The code
\* enforces neither (see PriceAssumption).
LimitsAreKept ==
    \A a \in Asks :
        /\ a.maxTokens >= 0
        /\ \A usage \in Usages[a] : usage.completion <= a.maxTokens

\* A product grows with its factors.
LEMMA ProductGrows ==
    ASSUME NEW a \in Nat, NEW b \in Nat, NEW c \in Nat, NEW d \in Nat, a <= b, c <= d
    PROVE  a * c <= b * d
<1>1. a * c <= b * c
  <2>1. PICK k \in Nat : b = a + k
    <3>1. b - a \in Nat /\ b = a + (b - a)
      OBVIOUS
    <3>2. QED
      BY <3>1
  <2>2. b * c = a * c + k * c /\ k * c \in Nat /\ a * c \in Nat
    BY <2>1
  <2>3. QED
    BY <2>2
<1>2. b * c <= b * d
  <2>1. PICK k \in Nat : d = c + k
    <3>1. d - c \in Nat /\ d = c + (d - c)
      OBVIOUS
    <3>2. QED
      BY <3>1
  <2>2. b * d = b * c + b * k /\ b * k \in Nat /\ b * c \in Nat
    BY <2>1
  <2>3. QED
    BY <2>2
<1>3. a * c \in Nat /\ b * c \in Nat /\ b * d \in Nat
  OBVIOUS
<1>4. QED
  BY <1>1, <1>2, <1>3

LEMMA FreePromptsCover ==
    ASSUME PromptsAreFree, LimitsAreKept
    PROVE  EstimatesCover
<1> SUFFICES ASSUME NEW a \in Asks, NEW bill \in Bills(a) \cup {0}
             PROVE  bill <= EstimateMaxCost(a.model, a.maxTokens)
  BY DEF EstimatesCover
<1> DEFINE m == a.model
<1>1. /\ m \in Models /\ a.maxTokens \in Nat
      /\ OutputPrice[m] \in Nat /\ Markup[m] \in Nat
  <2>1. a.model \in Models /\ a.maxTokens \in Int
    BY PriceAssumption DEF Asks
  <2>2. a.maxTokens >= 0
    BY DEF LimitsAreKept
  <2>3. QED
    BY <2>1, <2>2, PriceAssumption
<1>2. a.maxTokens * OutputPrice[m] \in Nat
  BY <1>1
<1>3. (a.maxTokens * OutputPrice[m]) * Markup[m] \in Nat
  BY <1>1, <1>2
<1>4. CASE bill = 0
  BY <1>3, <1>4 DEF EstimateMaxCost
<1>5. CASE bill \in Bills(a)
  <2>1. PICK served \in Routes[m], usage \in Usages[a] :
            bill = BilledAmount(m, served, usage)
    BY <1>5 DEF Bills
  <2> DEFINE tokens == usage.completion
  <2>2. served \in Models
    BY <1>1, PriceAssumption
  <2>3. /\ OutputPrice[served] \in Nat /\ usage.prompt \in Nat
        /\ tokens \in Nat /\ tokens <= a.maxTokens
        /\ InputPrice[served] = 0 /\ OutputPrice[served] <= OutputPrice[m]
    BY <1>1, <2>2, PriceAssumption DEF PromptsAreFree, LimitsAreKept
  <2>4. usage.prompt * InputPrice[served] = 0
    BY <2>3
  <2>5. tokens * OutputPrice[served] \in Nat
    BY <2>3
  <2>6. tokens * OutputPrice[served] <= a.maxTokens * OutputPrice[m]
    BY <1>1, <2>3, ProductGrows
  <2>7. bill = (tokens * OutputPrice[served]) * Markup[m]
    BY <2>1, <2>4, <2>5 DEF BilledAmount
  <2>8. (tokens * OutputPrice[served]) * Markup[m] <= (a.maxTokens * OutputPrice[m]) * Markup[m]
    BY <1>1, <1>2, <2>5, <2>6, ProductGrows
  <2>9. QED
    BY <2>7, <2>8 DEF EstimateMaxCost
<1>6. QED
  BY <1>4, <1>5

\* What services/credit.py:4 promises, holds prevent overdrawing, is so if prompts
\* are free, nobody asks for less than no tokens, and no provider generates more
\* than what was asked for: none of which the code sees to.
THEOREM FreePromptsPreventOverdrawing ==
    ASSUME RedisIsReliable, PromptsAreFree, LimitsAreKept
    PROVE  Spec => []NeverOverdrawn
<1>1. EstimatesCover
  BY FreePromptsCover
<1>2. QED
  BY <1>1, HoldsPreventOverdrawing

-------------------------------------------------------------------------------
(* The service implements the abstract prepaid account.                     *)

LEMMA AbstractInit == Init => Prepaid!Init
<1> SUFFICES ASSUME Init PROVE Prepaid!Init
  OBVIOUS
<1>1. \A r \in Requests : PhaseOf(r) = "idle"
  BY DEF Init, PhaseOf, Txns, Open, InFlight
<1>2. QED
  BY <1>1 DEF Init, Prepaid!Init

\* A step that moves no money and leaves every request in its abstract phase.
LEMMA AbstractStutter ==
    ASSUME UNCHANGED <<balance, ledger, charged>>,
           \A r \in Requests : PhaseOf(r)' = PhaseOf(r)
    PROVE  UNCHANGED Prepaid!vars
BY DEF Prepaid!vars

LEMMA AbstractStep ==
    ASSUME RedisIsReliable
    PROVE  TypeInv /\ RowLocked /\ HoldsRecorded /\ KeysKept /\ [Next]_vars
               => [Prepaid!Next]_(Prepaid!vars)
<1> SUFFICES ASSUME TypeInv, RowLocked, HoldsRecorded, KeysKept, [Next]_vars
             PROVE  [Prepaid!Next]_(Prepaid!vars)
  OBVIOUS
<1>1. ASSUME NEW t \in Txns, pc[t] \in LockedStates PROVE snap[t] = balance[UserOf[t]]
  BY <1>1 DEF RowLocked
<1>2. ASSUME NEW q \in Requests, NEW s, NEW a, GoTo(q, s), PhaseOf(q)' = a
      PROVE  [r \in Requests |-> PhaseOf(r)]' =
                 [[r \in Requests |-> PhaseOf(r)] EXCEPT ![q] = a]
  <2>1. \A r \in Requests : r # q => pc'[r] = pc[r]
    BY <1>2 DEF GoTo, TypeInv, TypeOK, Txns
  <2>2. \A r \in Requests : r # q => PhaseOf(r)' = PhaseOf(r)
    BY <2>1 DEF PhaseOf
  <2>3. QED
    BY <1>2, <2>2
<1>3. ASSUME NEW r \in Requests, CommitHold(r)
      PROVE  Prepaid!Reserve(r, Estimate(r)) /\ Estimate(r) \in Estimates
  <2>1. /\ Estimate(r) \in Int /\ Estimate(r) \in Estimates
        /\ UserOf[r] \in Users /\ balance[UserOf[r]] \in Int
        /\ snap[r] = balance[UserOf[r]] /\ r \in Txns
    <3>1. Estimate(r) \in Int /\ ask[r] \in Asks /\ r \in Txns
      BY RequestEstimate DEF TypeInv, TypeOK, Txns
    <3>2. Estimate(r) \in Estimates
      BY <3>1 DEF Estimates, Estimate, Asks
    <3>3. UserOf[r] \in Users /\ balance[UserOf[r]] \in Int
      BY <3>1, UserAssumption DEF TypeInv, TypeOK
    <3>4. snap[r] = balance[UserOf[r]]
      BY <1>1, <1>3, <3>1 DEF CommitHold, LockedStates
    <3>5. QED
      BY <3>1, <3>2, <3>3, <3>4
  <2>2. PhaseOf(r) = "idle" /\ PhaseOf(r)' = "reserved" /\ GoTo(r, "held")
    BY <1>3, <2>1 DEF CommitHold, PhaseOf, GoTo, Open, InFlight, TypeInv, TypeOK
  <2>3. QED
    BY <1>2, <1>3, <2>1, <2>2 DEF CommitHold, Prepaid!Reserve, Prepaid!Move
<1>4. ASSUME NEW r \in Requests, Restore(r)
      PROVE  Prepaid!GiveBack(r)
  <2>1. /\ seen[r] = Estimate(r) /\ charged[r] = Estimate(r) /\ Estimate(r) \in Int
        /\ UserOf[r] \in Users /\ snap[r] = balance[UserOf[r]] /\ r \in Txns
    <3>1. Estimate(r) \in Int /\ r \in Txns /\ UserOf[r] \in Users
      BY RequestEstimate, UserAssumption DEF TypeInv, TypeOK, Txns
    <3>2. snap[r] = balance[UserOf[r]] /\ pc[r] = "restoring"
      BY <1>1, <1>4, <3>1 DEF Restore, LockedStates
    <3>3. HoldRecord(r) /\ KeyKept(r)
      BY DEF HoldsRecorded, KeysKept
    <3>4. QED
      BY <3>1, <3>2, <3>3 DEF HoldRecord, KeyKept, Open, InFlight
  <2>2. PhaseOf(r) = "reserved" /\ PhaseOf(r)' = "given_back" /\ GoTo(r, "released")
    BY <1>4, <2>1 DEF Restore, PhaseOf, GoTo, Open, InFlight, TypeInv, TypeOK
  <2>3. /\ balance' = [balance EXCEPT ![UserOf[r]] = @ + charged[r]]
        /\ charged' = [charged EXCEPT ![r] = 0]
        /\ UNCHANGED ledger
    <3>1. snap[r] + seen[r] = balance[UserOf[r]] + charged[r]
      BY <2>1
    <3>2. charged[r] - seen[r] = 0
      BY <2>1
    <3>3. QED
      BY <1>4, <3>1, <3>2, Zenon DEF Restore
  <2>4. QED
    BY <1>2, <2>1, <2>2, <2>3 DEF Prepaid!GiveBack, Prepaid!Move
<1>5. ASSUME NEW r \in Requests, Settle(r)
      PROVE  Prepaid!Pay(r, cost[r]) /\ cost[r] \in UNION { Bills(a) : a \in Asks }
  <2>1. /\ seen[r] = Estimate(r) /\ charged[r] = Estimate(r) /\ Estimate(r) \in Int
        /\ UserOf[r] \in Users /\ snap[r] = balance[UserOf[r]] /\ r \in Txns
        /\ cost[r] \in Bills(ask[r]) /\ ask[r] \in Asks /\ cost[r] \in Nat
        /\ balance[UserOf[r]] \in Int /\ ledger[UserOf[r]] \in Int
    <3>1. Estimate(r) \in Int /\ ask[r] \in Asks /\ r \in Txns
      BY RequestEstimate DEF TypeInv, TypeOK, Txns
    <3>2. /\ UserOf[r] \in Users
          /\ balance[UserOf[r]] \in Int /\ ledger[UserOf[r]] \in Int
      BY <3>1, UserAssumption DEF TypeInv, TypeOK
    <3>3. snap[r] = balance[UserOf[r]] /\ pc[r] = "charging"
      BY <1>1, <1>5, <3>1 DEF Settle, LockedStates
    <3>4. HoldRecord(r) /\ KeyKept(r) /\ cost[r] # None /\ cost[r] \in Nat \cup {None}
      BY <3>3 DEF HoldsRecorded, KeysKept, TypeInv, TypeOK, AmountsKnown
    <3>5. QED
      BY <3>1, <3>2, <3>3, <3>4 DEF HoldRecord, KeyKept, Open, InFlight
  <2>2. PhaseOf(r) = "reserved" /\ PhaseOf(r)' = "paid" /\ GoTo(r, "settled")
    BY <1>5, <2>1 DEF Settle, PhaseOf, GoTo, Open, InFlight, TypeInv, TypeOK
  <2>3. SettledBalance(r) = balance[UserOf[r]] + (charged[r] - cost[r])
    BY <2>1, UserAssumption DEF SettledBalance
  <2>4. charged[r] + snap[r] - SettledBalance(r) = cost[r]
    BY <2>1, <2>3
  <2>5. /\ balance' = [balance EXCEPT ![UserOf[r]] = @ + (charged[r] - cost[r])]
        /\ ledger'  = [ledger EXCEPT ![UserOf[r]] = @ + (-cost[r])]
        /\ charged' = [charged EXCEPT ![r] = cost[r]]
    BY <1>5, <2>1, <2>3, <2>4 DEF Settle
  <2>6. QED
    BY <1>2, <2>1, <2>2, <2>5 DEF Prepaid!Pay, Prepaid!Move
<1>6. ASSUME NEW p \in Payments, CreditTopUp(p)
      PROVE  /\ Prepaid!Deposit(UserOf[p], TopUp[p])
             /\ UserOf[p] \in Users /\ TopUp[p] \in { TopUp[x] : x \in Payments }
  <2>1. UserOf[p] \in Users /\ snap[p] = balance[UserOf[p]] /\ p \in Txns
    BY <1>1, <1>6, UserAssumption DEF CreditTopUp, LockedStates, Txns
  <2>2. \A r \in Requests : PhaseOf(r)' = PhaseOf(r)
    BY <1>6, <2>1, UserAssumption DEF CreditTopUp, PhaseOf, GoTo, Txns, TypeInv, TypeOK
  <2>3. QED
    BY <1>6, <2>1, <2>2 DEF CreditTopUp, Prepaid!Deposit, Prepaid!Move
<1>7. ASSUME NEW r \in Requests, NEW q \in Requests,
             BeginHold(q) \/ Refuse(q) \/ FailCall(q) \/ Answer(q) \/ PostProcess(q)
               \/ LockToRelease(q) \/ LockToSettle(q) \/ RequestFault(q)
      PROVE  PhaseOf(r)' = PhaseOf(r)
  <2>1. CASE BeginHold(q) \/ Refuse(q) \/ HoldRollsBack(q)
    BY <2>1 DEF BeginHold, Refuse, HoldRollsBack, PhaseOf, GoTo, Open, InFlight, TypeInv,
       TypeOK, Txns
  <2>2. CASE FailCall(q) \/ PostProcess(q)
    <3>1. /\ pc[q] \in {"held", "answered"}
          /\ GoTo(q, "releasing") \/ GoTo(q, "settling")
      <4>1. redis[q] # None
        BY <2>2, RequestEstimate, UserAssumption
           DEF FailCall, PostProcess, KeysKept, KeyKept, TypeInv, TypeOK
      <4>2. GetHoldAmount(q) => seen'[q] = redis[q]
        BY DEF GetHoldAmount, RedisIsReliable, TypeInv, TypeOK
      <4>3. QED
        BY <2>2, <4>1, <4>2 DEF FailCall, PostProcess, StartRelease
    <3>2. QED
      BY <3>1 DEF PhaseOf, GoTo, Open, InFlight, TypeInv, TypeOK, Txns
  <2>3. CASE Answer(q) \/ LockToRelease(q) \/ LockToSettle(q)
    BY <2>3 DEF Answer, LockToRelease, LockToSettle, PhaseOf, GoTo, Open, InFlight,
       TypeInv, TypeOK, Txns
  <2>4. CASE CloseRollsBack(q) \/ Abandon(q) \/ Expire(q)
    BY <2>4 DEF CloseRollsBack, Abandon, Expire, PhaseOf, GoTo, Open, InFlight, TypeInv,
       TypeOK, Txns
  <2>5. QED
    BY <1>7, <2>1, <2>2, <2>3, <2>4 DEF RequestFault
<1>8. ASSUME NEW q \in Requests,
             BeginHold(q) \/ Refuse(q) \/ FailCall(q) \/ Answer(q) \/ PostProcess(q)
               \/ LockToRelease(q) \/ LockToSettle(q) \/ RequestFault(q)
      PROVE  UNCHANGED Prepaid!vars
  <2>1. UNCHANGED <<balance, ledger, charged>>
    BY <1>8 DEF BeginHold, Refuse, FailCall, Answer, PostProcess, LockToRelease,
       LockToSettle, RequestFault, HoldRollsBack, CloseRollsBack, Abandon, Expire, accounts
  <2>2. QED
    BY <1>7, <1>8, <2>1, AbstractStutter
<1>9. ASSUME NEW p \in Payments, Deliver(p) \/ TopUpRollsBack(p)
      PROVE  UNCHANGED Prepaid!vars
  <2>1. \A r \in Requests : pc'[r] = pc[r]
    BY <1>9, UserAssumption DEF Deliver, TopUpRollsBack, GoTo, Txns, TypeInv, TypeOK
  <2>2. QED
    BY <1>9, <2>1, AbstractStutter DEF Deliver, TopUpRollsBack, PhaseOf, accounts
<1>10. CASE Crash
  <2>1. \A r \in Requests : PhaseOf(r)' = PhaseOf(r)
    BY <1>10, UserAssumption
       DEF Crash, AfterCrash, PhaseOf, Open, InFlight, Txns
  <2>2. QED
    BY <1>10, <2>1, AbstractStutter DEF Crash, accounts
<1>11. ASSUME UNCHANGED <<accounts, pc>>
       PROVE  UNCHANGED Prepaid!vars
  BY <1>11, AbstractStutter DEF accounts, PhaseOf
<1>12. CASE UNCHANGED vars \/ \E u \in Users : CooldownEnds(u)
  BY <1>11, <1>12 DEF vars, CooldownEnds
<1>13. CASE \E r \in Requests : RequestStep(r) \/ RequestFault(r)
  <2>1. PICK r \in Requests : RequestStep(r) \/ RequestFault(r)
    BY <1>13
  <2>2. CASE CommitHold(r) \/ Restore(r) \/ Settle(r)
    BY <2>2, <1>3, <1>4, <1>5 DEF Prepaid!Next
  <2>3. QED
    BY <2>1, <2>2, <1>8 DEF RequestStep
<1>14. CASE \E p \in Payments : PaymentStep(p)
  <2>1. PICK p \in Payments : PaymentStep(p)
    BY <1>14
  <2>2. CASE CreditTopUp(p)
    BY <2>2, <1>6 DEF Prepaid!Next
  <2>3. QED
    BY <2>1, <2>2, <1>9 DEF PaymentStep
<1>15. QED
  BY <1>10, <1>12, <1>13, <1>14 DEF Next, Quiescent

\* As long as Redis keeps the keys, the locks, keys, retries and crashes of
\* the service are invisible: it behaves as the abstract prepaid account.
THEOREM ServiceIsPrepaidAccount ==
    ASSUME RedisIsReliable
    PROVE  Spec => ImplementsPrepaidAccount
<1>1. Init => RowLocked
  BY DEF Init, RowLocked, LockedStates
<1>2. QED
  BY <1>1, TypeInvInit, TypeInvStep, RowLockedStep, HoldsRecordedInit, HoldsRecordedStep,
     KeysKeptInit, KeysKeptStep, AbstractInit, AbstractStep, PTL
     DEF Spec, ImplementsPrepaidAccount, Prepaid!Spec

-------------------------------------------------------------------------------
(* Low credit emails.  The bound alone is not inductive: that an email is    *)
(* due says only that the user is not cooling down, so the strengthening     *)
(* counts the emails of such a user, each of which a rollback left           *)
(* unstamped.                                                                *)

Lost(u) == { r \in Requests : UserOf[r] = u /\ pc[r] = "lost" }

AlertsCounted ==
    \A u \in Users :
        emails[u] <= Cardinality(Lost(u)) + (IF coolingDown[u] THEN 1 ELSE 0)

\* The lost requests of a user can be counted, before and after a step.
LEMMA LostIsFinite ==
    ASSUME NEW u
    PROVE  /\ IsFiniteSet(Lost(u)) /\ Cardinality(Lost(u)) \in Nat
           /\ IsFiniteSet(Lost(u)') /\ Cardinality(Lost(u)') \in Nat
<1>1. Lost(u) \in SUBSET Requests /\ Lost(u)' \in SUBSET Requests
  BY DEF Lost
<1>2. IsFiniteSet(Lost(u)) /\ IsFiniteSet(Lost(u)')
  BY <1>1, RequestAssumption, FS_Subset
<1>3. QED
  BY <1>2, FS_CardinalityType

\* Nothing brings a lost request back, so the count never falls.
LEMMA LostForGood ==
    ASSUME \A r \in Requests : pc[r] = "lost" => pc'[r] = "lost", NEW u
    PROVE  Cardinality(Lost(u)) <= Cardinality(Lost(u)')
<1>1. Lost(u) \in SUBSET Lost(u)'
  BY DEF Lost
<1>2. QED
  BY <1>1, LostIsFinite, FS_Subset

\* A settlement that rolls back adds itself to the lost requests of its user.
LEMMA OneMoreLost ==
    ASSUME TypeInv, NEW r \in Requests, pc[r] # "lost", GoTo(r, "lost")
    PROVE  Cardinality(Lost(UserOf[r])') = Cardinality(Lost(UserOf[r])) + 1
<1>1. \A x \in Requests : pc'[x] = IF x = r THEN "lost" ELSE pc[x]
  BY DEF GoTo, TypeInv, TypeOK, Txns
<1>2. Lost(UserOf[r])' = Lost(UserOf[r]) \cup {r} /\ r \notin Lost(UserOf[r])
  BY <1>1 DEF Lost
<1>3. QED
  BY <1>2, LostIsFinite, FS_AddElement

\* The steps that send no email.
LEMMA QuietStepsKeepCount ==
    ASSUME TypeInv, AlertsCounted, UNCHANGED <<emails, coolingDown>>,
           \A r \in Requests : pc[r] = "lost" => pc'[r] = "lost"
    PROVE  AlertsCounted'
<1>1. ASSUME NEW u \in Users
      PROVE  emails'[u] <= Cardinality(Lost(u)') + (IF coolingDown'[u] THEN 1 ELSE 0)
  <2>1. emails[u] <= Cardinality(Lost(u)) + (IF coolingDown[u] THEN 1 ELSE 0)
    BY DEF AlertsCounted
  <2>2. Cardinality(Lost(u)) \in Nat /\ Cardinality(Lost(u)') \in Nat /\ emails[u] \in Nat
    BY LostIsFinite DEF TypeInv, TypeOK
  <2>3. Cardinality(Lost(u)) <= Cardinality(Lost(u)')
    BY LostForGood
  <2>4. QED
    BY <2>1, <2>2, <2>3
<1>2. QED
  BY <1>1 DEF AlertsCounted

LEMMA AlertsCountedStep == TypeInv /\ AlertsCounted /\ [Next]_vars => AlertsCounted'
<1> SUFFICES ASSUME TypeInv, AlertsCounted, [Next]_vars PROVE AlertsCounted'
  OBVIOUS
<1>1. /\ pc \in [Txns -> RequestStates \cup PaymentStates]
      /\ emails \in [Users -> Nat] /\ coolingDown \in [Users -> BOOLEAN]
      /\ Requests \subseteq Txns /\ UserOf \in [Txns -> Users]
  BY UserAssumption DEF TypeInv, TypeOK, Txns
<1>2. ASSUME NEW u \in Users
      PROVE  /\ Cardinality(Lost(u)) \in Nat
             /\ Cardinality(Lost(u)') \in Nat
             /\ emails[u] \in Nat
             /\ emails[u] <= Cardinality(Lost(u)) + (IF coolingDown[u] THEN 1 ELSE 0)
  BY <1>1, LostIsFinite DEF AlertsCounted
<1>3. \A r \in Requests : pc[r] = "lost" => pc'[r] = "lost"
  BY <1>1, UserAssumption DEF Next, RequestStep, RequestFault, PaymentStep, BeginHold, Refuse,
     CommitHold, FailCall, Answer, PostProcess, StartRelease, LockToRelease, Restore,
     LockToSettle, Settle, HoldRollsBack, CloseRollsBack, Abandon, Expire, Deliver,
     CreditTopUp, TopUpRollsBack, CooldownEnds, Crash, AfterCrash, InFlight, Quiescent,
     GoTo, vars
<1>4. ASSUME NEW u \in Users PROVE Cardinality(Lost(u)) <= Cardinality(Lost(u)')
  BY <1>3, LostForGood
<1>5. CASE UNCHANGED <<emails, coolingDown>>
  BY <1>3, <1>5, QuietStepsKeepCount
<1>6. ASSUME NEW u \in Users, emails' = [emails EXCEPT ![u] = 0],
             coolingDown' = [coolingDown EXCEPT ![u] = FALSE]
      PROVE  AlertsCounted'
  <2>1. ASSUME NEW x \in Users
        PROVE  emails'[x] <= Cardinality(Lost(x)') + (IF coolingDown'[x] THEN 1 ELSE 0)
    <3>1. CASE x = u
      BY <1>1, <1>2, <1>6, <3>1
    <3>2. CASE x # u
      <4>1. emails'[x] = emails[x] /\ coolingDown'[x] = coolingDown[x]
        BY <1>1, <1>6, <3>2
      <4>2. QED
        BY <1>2, <1>4, <4>1
    <3>3. QED
      BY <3>1, <3>2
  <2>2. QED
    BY <2>1 DEF AlertsCounted
<1>7. ASSUME NEW r \in Requests, Settle(r)
      PROVE  AlertsCounted'
  <2> DEFINE u == UserOf[r]
  <2>1. CASE UNCHANGED <<emails, coolingDown>>
    BY <1>5, <2>1
  <2>2. CASE /\ ~coolingDown[u]
             /\ emails' = [emails EXCEPT ![u] = @ + 1] \/ UNCHANGED emails
             /\ coolingDown' = [coolingDown EXCEPT ![u] = TRUE]
    <3>1. ASSUME NEW x \in Users
          PROVE  emails'[x] <= Cardinality(Lost(x)') + (IF coolingDown'[x] THEN 1 ELSE 0)
      <4>1. CASE x = u
        <5>1. emails'[x] \in {emails[x], emails[x] + 1} /\ coolingDown'[x] /\ ~coolingDown[x]
          BY <1>1, <2>2, <4>1
        <5>2. QED
          BY <1>2, <1>4, <5>1
      <4>2. CASE x # u
        <5>1. emails'[x] = emails[x] /\ coolingDown'[x] = coolingDown[x]
          BY <1>1, <2>2, <4>2
        <5>2. QED
          BY <1>2, <1>4, <5>1
      <4>3. QED
        BY <4>1, <4>2
    <3>2. QED
      BY <3>1 DEF AlertsCounted
  <2>3. QED
    BY <1>7, <2>1, <2>2, Zenon DEF Settle, CheckLowCredit, SendLowCredit, AlertDue
<1>8. ASSUME NEW r \in Requests, CloseRollsBack(r)
      PROVE  AlertsCounted'
  <2> DEFINE u == UserOf[r]
  <2>1. CASE UNCHANGED emails
    BY <1>5, <1>8, <2>1 DEF CloseRollsBack
  <2>2. CASE ~coolingDown[u] /\ emails' = [emails EXCEPT ![u] = @ + 1]
    <3>1. pc[r] # "lost" /\ GoTo(r, "lost") /\ UNCHANGED coolingDown
      BY <1>8 DEF CloseRollsBack
    <3>2. Cardinality(Lost(u)') = Cardinality(Lost(u)) + 1
      BY <3>1, OneMoreLost
    <3>3. ASSUME NEW x \in Users
          PROVE  emails'[x] <= Cardinality(Lost(x)') + (IF coolingDown'[x] THEN 1 ELSE 0)
      <4>1. CASE x = u
        <5>1. emails'[x] = emails[x] + 1 /\ ~coolingDown[x] /\ ~coolingDown'[x]
          BY <1>1, <2>2, <3>1, <4>1
        <5>2. QED
          BY <1>2, <3>2, <4>1, <5>1
      <4>2. CASE x # u
        <5>1. emails'[x] = emails[x] /\ coolingDown'[x] = coolingDown[x]
          BY <1>1, <2>2, <3>1, <4>2
        <5>2. QED
          BY <1>2, <1>4, <5>1
      <4>3. QED
        BY <4>1, <4>2
    <3>4. QED
      BY <3>3 DEF AlertsCounted
  <2>3. QED
    BY <1>8, <2>1, <2>2, Zenon DEF CloseRollsBack, SendLowCredit, AlertDue
<1>9. ASSUME NEW p \in Payments, CreditTopUp(p)
      PROVE  AlertsCounted'
  <2>1. UserOf[p] \in Users
    BY <1>1 DEF Txns
  <2>2. QED
    BY <1>6, <1>9, <2>1 DEF CreditTopUp
<1>10. ASSUME NEW u \in Users, CooldownEnds(u)
       PROVE  AlertsCounted'
  BY <1>6, <1>10 DEF CooldownEnds
<1>11. \/ UNCHANGED <<emails, coolingDown>>
       \/ \E r \in Requests : Settle(r) \/ CloseRollsBack(r)
       \/ \E p \in Payments : CreditTopUp(p)
       \/ \E u \in Users : CooldownEnds(u)
  BY DEF Next, RequestStep, RequestFault, PaymentStep, BeginHold, Refuse, CommitHold,
     FailCall, Answer, PostProcess, LockToRelease, Restore, LockToSettle, HoldRollsBack,
     Abandon, Expire, Deliver, TopUpRollsBack, Crash, Quiescent, vars, alerts
<1>12. QED
  BY <1>5, <1>7, <1>8, <1>9, <1>10, <1>11

\* A user gets one low credit email between top-ups and cooldowns, however
\* many requests settle at the same time, and one more at most for each request
\* whose transaction failed (the alert of post_process_usage).
THEOREM OneLowCreditEmail == Spec => []OneAlertPerCooldown
<1>1. Init => AlertsCounted
  <2>1. SUFFICES ASSUME Init, NEW u \in Users
                 PROVE  emails[u] <= Cardinality(Lost(u)) + (IF coolingDown[u] THEN 1 ELSE 0)
    BY DEF AlertsCounted
  <2>2. emails[u] = 0 /\ Cardinality(Lost(u)) \in Nat
    BY <2>1, LostIsFinite DEF Init
  <2>3. QED
    BY <2>2
<1>2. TypeInv /\ AlertsCounted => OneAlertPerCooldown
  <2>1. SUFFICES ASSUME TypeInv, AlertsCounted, NEW u \in Users
                 PROVE  emails[u] <= 1 + Cardinality(Lost(u))
    BY DEF OneAlertPerCooldown, Lost
  <2>2. /\ emails[u] <= Cardinality(Lost(u)) + (IF coolingDown[u] THEN 1 ELSE 0)
        /\ emails[u] \in Nat /\ Cardinality(Lost(u)) \in Nat
    BY <2>1, LostIsFinite DEF AlertsCounted, TypeInv, TypeOK
  <2>3. QED
    BY <2>2
<1>3. QED
  BY <1>1, <1>2, TypeInvInit, TypeInvStep, AlertsCountedStep, PTL DEF Spec
-------------------------------------------------------------------------------
(* Sums.  OpenCharges folds charged over a set, and a fold is defined by     *)
(* recursion on the set.  The facts a proof needs of it - it is an integer,  *)
(* it depends on the summed amounts only, and any element can be taken out   *)
(* of it - are proved by induction on the number of elements: the set of     *)
(* numbers for which a fact holds contains 0 and, with n, also n + 1.        *)

\* A nonempty set of natural numbers has a smallest element.
LEMMA LeastNumber ==
    ASSUME NEW T \in SUBSET Nat, T # {}
    PROVE  \E n \in T : \A m \in T : n <= m
<1>1. \E x \in T : \A y \in T : ~(<<y, x>> \in OpToRel(<, Nat))
  BY NatLessThanWellFounded, WFMin
<1>2. PICK x \in T : \A y \in T : ~(<<y, x>> \in OpToRel(<, Nat))
  BY <1>1
<1>3. \A y \in T : x \in Nat /\ y \in Nat /\ ~(y < x)
  BY <1>2 DEF OpToRel
<1>4. \A y \in T : x <= y
  BY <1>3
<1> QED
  BY <1>4

\* A set with 0 and the successor of each of its numbers has every number.
LEMMA SetInduction ==
    ASSUME NEW T, 0 \in T, \A n \in Nat : n \in T => n + 1 \in T
    PROVE  \A n \in Nat : n \in T
<1>1. SUFFICES ASSUME Nat \ T # {} PROVE FALSE
  OBVIOUS
<1>2. PICK n \in Nat \ T : \A m \in Nat \ T : n <= m
  <2>1. Nat \ T \in SUBSET Nat
    OBVIOUS
  <2> QED BY <1>1, <2>1, LeastNumber
<1>3. n # 0 /\ n - 1 \in Nat /\ ~(n <= n - 1)
  BY <1>2
<1>4. n - 1 \in T
  BY <1>2, <1>3
<1>5. (n - 1) + 1 = n
  BY <1>2
<1> QED
  BY <1>2, <1>3, <1>4, <1>5

\* The element by which the fold of the library goes on from a set.
Chosen(s) == CHOOSE x \in s : TRUE

\* One step of the recursion: the sum of s from the sums g of smaller sets.
SumStep(f, g, s) == IF s = {} THEN 0 ELSE f[Chosen(s)] + g[s \ {Chosen(s)}]

\* g is a table of the sums of f over the subsets of S.
IsSum(f, S, g) == g = [s \in SUBSET S |-> SumStep(f, g, s)]

LEMMA ChosenIn == ASSUME NEW s, s # {} PROVE Chosen(s) \in s
BY DEF Chosen

\* What SumFunctionOnSet is by definition: the entry of such a table, if any.
LEMMA SumIsFold ==
    ASSUME NEW f, NEW S
    PROVE  SumFunctionOnSet(f, S) = (CHOOSE g : IsSum(f, S, g))[S]
BY DEF SumFunctionOnSet, FoldFunctionOnSet, MapThenFoldSet, IsSum, SumStep, Chosen

\* The tables that are right for the subsets of at most n elements.
Partial(f, S, n) ==
    { g \in [SUBSET S -> Int] :
        \A s \in SUBSET S : Cardinality(s) <= n => g[s] = SumStep(f, g, s) }

\* A table exists: one that is right up to n elements gives one right up to n + 1.
LEMMA SumExists ==
    ASSUME NEW f, NEW S, IsFiniteSet(S), \A x \in S : f[x] \in Int
    PROVE  \E g \in [SUBSET S -> Int] : IsSum(f, S, g)
<1> DEFINE T == { n \in Nat : Partial(f, S, n) # {} }
<1>1. \A s \in SUBSET S : IsFiniteSet(s) /\ Cardinality(s) \in Nat /\ (Cardinality(s) = 0 <=> s = {})
  BY FS_Subset, FS_CardinalityType, FS_EmptySet
<1>2. \A s \in SUBSET S : s # {} =>
          /\ Chosen(s) \in s /\ f[Chosen(s)] \in Int
          /\ s \ {Chosen(s)} \in SUBSET S
          /\ Cardinality(s \ {Chosen(s)}) = Cardinality(s) - 1
  BY <1>1, ChosenIn, FS_RemoveElement
<1>3. 0 \in T
  <2> DEFINE g == [s \in SUBSET S |-> 0]
  <2>1. g \in [SUBSET S -> Int]
    OBVIOUS
  <2>2. \A s \in SUBSET S : Cardinality(s) <= 0 => g[s] = SumStep(f, g, s)
    BY <1>1 DEF SumStep
  <2> QED BY <2>1, <2>2 DEF Partial
<1>4. ASSUME NEW n \in Nat, n \in T PROVE n + 1 \in T
  <2>1. PICK g \in [SUBSET S -> Int] :
            \A s \in SUBSET S : Cardinality(s) <= n => g[s] = SumStep(f, g, s)
    BY <1>4 DEF Partial
  <2> DEFINE h == [s \in SUBSET S |-> SumStep(f, g, s)]
  <2>2. h \in [SUBSET S -> Int]
    <3>1. ASSUME NEW s \in SUBSET S PROVE SumStep(f, g, s) \in Int
      <4>1. CASE s = {}
        BY <4>1 DEF SumStep
      <4>2. CASE s # {}
        <5>1. g[s \ {Chosen(s)}] \in Int /\ f[Chosen(s)] \in Int
          BY <1>2, <4>2
        <5> QED BY <4>2, <5>1 DEF SumStep
      <4> QED BY <4>1, <4>2
    <3> QED BY <3>1
  <2>3. \A s \in SUBSET S : Cardinality(s) <= n => h[s] = g[s]
    BY <2>1
  <2>4. ASSUME NEW s \in SUBSET S, Cardinality(s) <= n + 1 PROVE h[s] = SumStep(f, h, s)
    <3>1. CASE s = {}
      BY <3>1 DEF SumStep
    <3>2. CASE s # {}
      <4>1. Cardinality(s \ {Chosen(s)}) <= n
        BY <1>1, <1>2, <2>4, <3>2
      <4>2. h[s \ {Chosen(s)}] = g[s \ {Chosen(s)}]
        BY <1>2, <2>3, <3>2, <4>1
      <4> QED BY <3>2, <4>2 DEF SumStep
    <3> QED BY <3>1, <3>2
  <2>5. h \in Partial(f, S, n + 1)
    BY <2>2, <2>4 DEF Partial
  <2> QED BY <2>5
<1>5. Cardinality(S) \in Nat /\ Cardinality(S) \in T
  <2> HIDE DEF T
  <2>1. \A n \in Nat : n \in T
    BY <1>3, <1>4, SetInduction
  <2> QED BY <2>1, <1>1
<1>6. PICK g \in [SUBSET S -> Int] :
          \A s \in SUBSET S : Cardinality(s) <= Cardinality(S) => g[s] = SumStep(f, g, s)
  BY <1>5 DEF Partial
<1>7. \A s \in SUBSET S : g[s] = SumStep(f, g, s)
  BY <1>6, FS_Subset
<1>8. g = [s \in SUBSET S |-> SumStep(f, g, s)]
  BY <1>7
<1> QED BY <1>8 DEF IsSum

\* Two tables agree where the summed amounts do.
LEMMA SumIsUnique ==
    ASSUME NEW f, NEW h, NEW S, NEW T, NEW a, NEW b, IsFiniteSet(S), IsFiniteSet(T), S \subseteq T,
           \A x \in S : f[x] = h[x],
           IsSum(f, S, a), IsSum(h, T, b)
    PROVE  \A s \in SUBSET S : a[s] = b[s]
<1> DEFINE N == { n \in Nat : \A s \in SUBSET S : Cardinality(s) <= n => a[s] = b[s] }
<1>1. \A s \in SUBSET S : a[s] = SumStep(f, a, s) /\ b[s] = SumStep(h, b, s)
  BY DEF IsSum
<1>2. \A s \in SUBSET S : IsFiniteSet(s) /\ Cardinality(s) \in Nat /\ (Cardinality(s) = 0 <=> s = {})
  BY FS_Subset, FS_CardinalityType, FS_EmptySet
<1>3. \A s \in SUBSET S : s # {} =>
          /\ f[Chosen(s)] = h[Chosen(s)]
          /\ s \ {Chosen(s)} \in SUBSET S
          /\ Cardinality(s \ {Chosen(s)}) = Cardinality(s) - 1
  BY <1>2, ChosenIn, FS_RemoveElement
<1>4. 0 \in N
  BY <1>1, <1>2 DEF SumStep
<1>5. ASSUME NEW n \in Nat, n \in N PROVE n + 1 \in N
  <2>1. ASSUME NEW s \in SUBSET S, Cardinality(s) <= n + 1 PROVE a[s] = b[s]
    <3>1. CASE s = {}
      BY <1>1, <3>1 DEF SumStep
    <3>2. CASE s # {}
      <4>1. Cardinality(s \ {Chosen(s)}) <= n
        BY <1>2, <1>3, <2>1, <3>2
      <4>2. a[s \ {Chosen(s)}] = b[s \ {Chosen(s)}]
        BY <1>3, <1>5, <3>2, <4>1
      <4> QED BY <1>1, <1>3, <3>2, <4>2 DEF SumStep
    <3> QED BY <3>1, <3>2
  <2> QED BY <2>1
<1>6. \A n \in Nat : n \in N
  <2> HIDE DEF N
  <2> QED BY <1>4, <1>5, SetInduction
<1> QED
  BY <1>2, <1>6

\* Hence all sums over subsets of S come from one table.
LEMMA SumEquation ==
    ASSUME NEW f, NEW S, IsFiniteSet(S), \A x \in S : f[x] \in Int
    PROVE  \E g \in [SUBSET S -> Int] :
               /\ IsSum(f, S, g)
               /\ \A s \in SUBSET S : SumFunctionOnSet(f, s) = g[s]
<1>1. PICK g \in [SUBSET S -> Int] : IsSum(f, S, g)
  BY SumExists
<1>2. ASSUME NEW s \in SUBSET S PROVE SumFunctionOnSet(f, s) = g[s]
  <2>1. IsFiniteSet(s) /\ \A x \in s : f[x] \in Int
    BY <1>2, FS_Subset
  <2>2. \E h : IsSum(f, s, h)
    BY <2>1, SumExists
  <2> DEFINE h == CHOOSE h : IsSum(f, s, h)
  <2>3. IsSum(f, s, h)
    BY <2>2
  <2>4. SumFunctionOnSet(f, s) = h[s]
    BY SumIsFold
  <2> HIDE DEF h
  <2>5. h[s] = g[s]
    BY <1>1, <2>1, <2>3, SumIsUnique
  <2> QED BY <2>4, <2>5
<1> QED BY <1>1, <1>2

\* A user without open holds has no open charges.
LEMMA SumOfNone == ASSUME NEW f PROVE SumFunctionOnSet(f, {}) = 0
<1>1. IsFiniteSet({}) /\ \A x \in {} : f[x] \in Int
  BY FS_EmptySet
<1>2. PICK g \in [SUBSET {} -> Int] :
          IsSum(f, {}, g) /\ \A s \in SUBSET {} : SumFunctionOnSet(f, s) = g[s]
  BY <1>1, SumEquation
<1> QED BY <1>2 DEF IsSum, SumStep

\* A sum of integers is an integer.
LEMMA SumIsInt ==
    ASSUME NEW f, NEW S, IsFiniteSet(S), \A x \in S : f[x] \in Int
    PROVE  SumFunctionOnSet(f, S) \in Int
<1>1. PICK g \in [SUBSET S -> Int] :
          IsSum(f, S, g) /\ \A s \in SUBSET S : SumFunctionOnSet(f, s) = g[s]
  BY SumEquation
<1> QED BY <1>1

\* A sum depends on the amounts of its elements only.
LEMMA SumAgrees ==
    ASSUME NEW f, NEW h, NEW S, IsFiniteSet(S), \A x \in S : f[x] \in Int /\ h[x] = f[x]
    PROVE  SumFunctionOnSet(h, S) = SumFunctionOnSet(f, S)
<1> \A x \in S : h[x] \in Int
  OBVIOUS
<1>1. PICK a \in [SUBSET S -> Int] :
          IsSum(f, S, a) /\ \A s \in SUBSET S : SumFunctionOnSet(f, s) = a[s]
  BY SumEquation
<1>2. PICK b \in [SUBSET S -> Int] :
          IsSum(h, S, b) /\ \A s \in SUBSET S : SumFunctionOnSet(h, s) = b[s]
  BY SumEquation
<1>3. \A s \in SUBSET S : a[s] = b[s]
  BY <1>1, <1>2, SumIsUnique
<1> QED BY <1>1, <1>2, <1>3

\* Any element can be taken out of a sum, not only the one the fold takes first.
LEMMA SumWithout ==
    ASSUME NEW f, NEW S, IsFiniteSet(S), \A x \in S : f[x] \in Int, NEW x \in S
    PROVE  SumFunctionOnSet(f, S) = f[x] + SumFunctionOnSet(f, S \ {x})
<1>1. PICK g \in [SUBSET S -> Int] :
          IsSum(f, S, g) /\ \A s \in SUBSET S : SumFunctionOnSet(f, s) = g[s]
  BY SumEquation
<1> DEFINE N == { n \in Nat : \A s \in SUBSET S : Cardinality(s) <= n =>
                     \A y \in s : g[s] = f[y] + g[s \ {y}] }
<1>2. \A s \in SUBSET S : g[s] = SumStep(f, g, s) /\ g[s] \in Int
  BY <1>1 DEF IsSum
<1>3. \A s \in SUBSET S : IsFiniteSet(s) /\ Cardinality(s) \in Nat /\ (Cardinality(s) = 0 <=> s = {})
  BY FS_Subset, FS_CardinalityType, FS_EmptySet
<1>4. \A s \in SUBSET S : \A y \in s :
          /\ s \ {y} \in SUBSET S
          /\ Cardinality(s \ {y}) = Cardinality(s) - 1
  BY <1>3, FS_RemoveElement
<1>5. 0 \in N
  BY <1>3
<1>6. ASSUME NEW n \in Nat, n \in N PROVE n + 1 \in N
  <2>1. ASSUME NEW s \in SUBSET S, Cardinality(s) <= n + 1, NEW y \in s
        PROVE  g[s] = f[y] + g[s \ {y}]
    <3> DEFINE p == Chosen(s)
    <3>1. p \in s /\ g[s] = f[p] + g[s \ {p}]
      BY <1>2, <2>1, ChosenIn DEF SumStep
    <3> HIDE DEF p
    <3>2. CASE p = y
      BY <3>1, <3>2
    <3>3. CASE p # y
      <4>1. /\ s \ {p} \in SUBSET S /\ Cardinality(s \ {p}) <= n /\ y \in s \ {p}
            /\ s \ {y} \in SUBSET S /\ Cardinality(s \ {y}) <= n /\ p \in s \ {y}
        BY <1>3, <1>4, <2>1, <3>1, <3>3
      <4>2. g[s \ {p}] = f[y] + g[(s \ {p}) \ {y}] /\ g[s \ {y}] = f[p] + g[(s \ {y}) \ {p}]
        BY <1>6, <4>1
      <4>3. (s \ {p}) \ {y} = (s \ {y}) \ {p} /\ (s \ {p}) \ {y} \in SUBSET S
        BY <2>1
      <4>4. f[p] \in Int /\ f[y] \in Int /\ g[(s \ {p}) \ {y}] \in Int
        BY <1>2, <2>1, <3>1, <4>3
      <4>5. g[s] = f[p] + (f[y] + g[(s \ {p}) \ {y}])
        BY <3>1, <4>2
      <4>6. g[s \ {y}] = f[p] + g[(s \ {p}) \ {y}]
        BY <4>2, <4>3
      <4> QED BY <4>4, <4>5, <4>6
    <3> QED BY <3>2, <3>3
  <2> QED BY <2>1
<1>7. \A n \in Nat : n \in N
  <2> HIDE DEF N
  <2> QED BY <1>5, <1>6, SetInduction
<1>8. g[S] = f[x] + g[S \ {x}]
  BY <1>3, <1>7
<1> QED BY <1>1, <1>8

\* A sum of natural numbers is one, and a sum of zeros is zero.
LEMMA SumOfNaturals ==
    ASSUME NEW f, NEW S, IsFiniteSet(S), \A x \in S : f[x] \in Nat
    PROVE  /\ SumFunctionOnSet(f, S) \in Nat
           /\ (\A x \in S : f[x] = 0) => SumFunctionOnSet(f, S) = 0
<1>1. \A x \in S : f[x] \in Int
  OBVIOUS
<1>2. PICK g \in [SUBSET S -> Int] :
          IsSum(f, S, g) /\ \A s \in SUBSET S : SumFunctionOnSet(f, s) = g[s]
  BY <1>1, SumEquation
<1> DEFINE Good(s) == g[s] \in Nat /\ ((\A x \in S : f[x] = 0) => g[s] = 0)
           N == { n \in Nat : \A s \in SUBSET S : Cardinality(s) <= n => Good(s) }
<1>3. \A s \in SUBSET S : g[s] = SumStep(f, g, s)
  BY <1>2 DEF IsSum
<1>4. \A s \in SUBSET S :
          IsFiniteSet(s) /\ Cardinality(s) \in Nat /\ (Cardinality(s) = 0 <=> s = {})
  BY FS_Subset, FS_CardinalityType, FS_EmptySet
<1>5. \A s \in SUBSET S : s # {} =>
          /\ Chosen(s) \in s
          /\ s \ {Chosen(s)} \in SUBSET S
          /\ Cardinality(s \ {Chosen(s)}) = Cardinality(s) - 1
  BY <1>4, ChosenIn, FS_RemoveElement
<1>6. 0 \in N
  BY <1>3, <1>4 DEF SumStep
<1>7. ASSUME NEW n \in Nat, n \in N PROVE n + 1 \in N
  <2>1. ASSUME NEW s \in SUBSET S, Cardinality(s) <= n + 1 PROVE Good(s)
    <3>1. CASE s = {}
      <4>1. g[s] = 0
        BY <1>3, <3>1 DEF SumStep
      <4>2. QED
        BY <4>1
    <3>2. CASE s # {}
      <4>1. Cardinality(s \ {Chosen(s)}) <= n
        BY <1>4, <1>5, <2>1, <3>2
      <4>2. /\ g[s \ {Chosen(s)}] \in Nat
            /\ (\A x \in S : f[x] = 0) => g[s \ {Chosen(s)}] = 0
        BY <1>5, <1>7, <3>2, <4>1
      <4>3. f[Chosen(s)] \in Nat /\ ((\A x \in S : f[x] = 0) => f[Chosen(s)] = 0)
        BY <1>5, <3>2
      <4>4. g[s] = f[Chosen(s)] + g[s \ {Chosen(s)}]
        BY <1>3, <3>2 DEF SumStep
      <4>5. g[s] \in Nat
        BY <4>2, <4>3, <4>4
      <4>6. ASSUME \A x \in S : f[x] = 0 PROVE g[s] = 0
        BY <4>2, <4>3, <4>4, <4>6
      <4>7. QED
        BY <4>5, <4>6
    <3>3. QED
      BY <3>1, <3>2
  <2>2. QED
    BY <2>1
<1>8. \A n \in Nat : n \in N
  <2> HIDE DEF N
  <2>1. QED
    BY <1>6, <1>7, SetInduction
<1>9. Good(S)
  BY <1>4, <1>8
<1>10. QED
  BY <1>2, <1>9

\* If one amount of a sum changes, the sum changes by as much.
LEMMA SumMoves ==
    ASSUME NEW f, NEW h, NEW S, IsFiniteSet(S), \A x \in S : f[x] \in Int,
           NEW y \in S, h[y] \in Int, \A x \in S : x # y => h[x] = f[x]
    PROVE  SumFunctionOnSet(h, S) = SumFunctionOnSet(f, S) + (h[y] - f[y])
<1>1. \A x \in S : h[x] \in Int
  OBVIOUS
<1>2. SumFunctionOnSet(f, S) = f[y] + SumFunctionOnSet(f, S \ {y})
  BY SumWithout
<1>3. SumFunctionOnSet(h, S) = h[y] + SumFunctionOnSet(h, S \ {y})
  BY <1>1, SumWithout
<1>4. IsFiniteSet(S \ {y})
  <2>1. S \ {y} \in SUBSET S
    OBVIOUS
  <2>2. QED
    BY <2>1, FS_Subset
<1>5. \A x \in S \ {y} : f[x] \in Int /\ h[x] = f[x]
  OBVIOUS
<1>6. SumFunctionOnSet(h, S \ {y}) = SumFunctionOnSet(f, S \ {y})
  BY <1>4, <1>5, SumAgrees
<1>7. SumFunctionOnSet(f, S \ {y}) \in Int
  <2>1. \A x \in S \ {y} : f[x] \in Int
    BY <1>5
  <2>2. QED
    BY <1>4, <2>1, SumIsInt
<1>8. SumFunctionOnSet(h, S) = h[y] + SumFunctionOnSet(f, S \ {y})
  BY <1>3, <1>6
<1>9. f[y] \in Int
  OBVIOUS
<1>10. QED
  BY <1>2, <1>7, <1>8, <1>9

-------------------------------------------------------------------------------
(* The books.  A step of one request moves the open charges by its share of  *)
(* them, so that what it writes into the balance and into the ledger can be  *)
(* compared with it action by action.                                        *)

\* The open holds of a user.
OpenOf(u) == { r \in Requests : UserOf[r] = u /\ pc[r] \in Open }

\* What a request adds to the open charges of a user.
Share(r, u) == IF r \in OpenOf(u) THEN charged[r] ELSE 0

\* An element that is not there takes nothing away.
LEMMA SumWithoutStranger ==
    ASSUME NEW f, NEW S, NEW y, y \notin S
    PROVE  SumFunctionOnSet(f, S \ {y}) = SumFunctionOnSet(f, S)
<1>1. S \ {y} = S
  OBVIOUS
<1>2. QED
  BY <1>1

\* The open holds of a user can be summed over, before and after a step.
LEMMA OpenAreSummable ==
    ASSUME NEW u
    PROVE  /\ IsFiniteSet(OpenOf(u)) /\ IsFiniteSet(OpenOf(u)')
           /\ TypeInv  => \A r \in OpenOf(u)  : charged[r] \in Int
           /\ TypeInv' => \A r \in OpenOf(u)' : charged'[r] \in Int
<1>1. OpenOf(u) \in SUBSET Requests /\ OpenOf(u)' \in SUBSET Requests
  BY DEF OpenOf
<1>2. IsFiniteSet(OpenOf(u)) /\ IsFiniteSet(OpenOf(u)')
  BY <1>1, RequestAssumption, FS_Subset
<1>3. QED
  BY <1>1, <1>2 DEF TypeInv, TypeOK

\* A step that leaves the other requests alone moves the open charges by the
\* share of one.
LEMMA ChargesFollowShare ==
    ASSUME TypeInv, TypeInv', NEW u, NEW r \in Requests,
           \A x \in Requests : x # r => pc'[x] = pc[x] /\ charged'[x] = charged[x]
    PROVE  /\ OpenCharges(u) \in Int /\ Share(r, u) \in Int /\ Share(r, u)' \in Int
           /\ OpenCharges(u)' = OpenCharges(u) + (Share(r, u)' - Share(r, u))
<1>1. IsFiniteSet(OpenOf(u)) /\ IsFiniteSet(OpenOf(u)')
  BY OpenAreSummable
<1>2. \A x \in OpenOf(u) : charged[x] \in Int
  BY OpenAreSummable
<1>3. \A x \in OpenOf(u)' : charged'[x] \in Int
  BY OpenAreSummable
<1>4. /\ OpenCharges(u) = SumFunctionOnSet(charged, OpenOf(u))
      /\ OpenCharges(u)' = SumFunctionOnSet(charged', OpenOf(u)')
  BY DEF OpenCharges, OpenOf
<1>5. /\ Share(r, u) = IF r \in OpenOf(u) THEN charged[r] ELSE 0
      /\ Share(r, u)' = IF r \in OpenOf(u)' THEN charged'[r] ELSE 0
      /\ Share(r, u) \in Int /\ Share(r, u)' \in Int
  BY <1>2, <1>3 DEF Share
<1>6. OpenCharges(u) = Share(r, u) + SumFunctionOnSet(charged, OpenOf(u) \ {r})
  <2>1. CASE r \in OpenOf(u)
    <3>1. SumFunctionOnSet(charged, OpenOf(u)) =
              charged[r] + SumFunctionOnSet(charged, OpenOf(u) \ {r})
      BY <1>1, <1>2, <2>1, SumWithout
    <3>2. QED
      BY <1>4, <1>5, <2>1, <3>1
  <2>2. CASE r \notin OpenOf(u)
    <3>1. /\ SumFunctionOnSet(charged, OpenOf(u) \ {r}) = SumFunctionOnSet(charged, OpenOf(u))
          /\ SumFunctionOnSet(charged, OpenOf(u)) \in Int
      BY <1>1, <1>2, <2>2, SumWithoutStranger, SumIsInt
    <3>2. QED
      BY <1>4, <1>5, <2>2, <3>1
  <2>3. QED
    BY <2>1, <2>2
<1>7. OpenCharges(u)' = Share(r, u)' + SumFunctionOnSet(charged', OpenOf(u)' \ {r})
  <2>1. CASE r \in OpenOf(u)'
    <3>1. SumFunctionOnSet(charged', OpenOf(u)') =
              charged'[r] + SumFunctionOnSet(charged', OpenOf(u)' \ {r})
      BY <1>1, <1>3, <2>1, SumWithout
    <3>2. QED
      BY <1>4, <1>5, <2>1, <3>1
  <2>2. CASE r \notin OpenOf(u)'
    <3>1. /\ SumFunctionOnSet(charged', OpenOf(u)' \ {r}) = SumFunctionOnSet(charged', OpenOf(u)')
          /\ SumFunctionOnSet(charged', OpenOf(u)') \in Int
      BY <1>1, <1>3, <2>2, SumWithoutStranger, SumIsInt
    <3>2. QED
      BY <1>4, <1>5, <2>2, <3>1
  <2>3. QED
    BY <2>1, <2>2
<1>8. OpenOf(u)' \ {r} = OpenOf(u) \ {r}
  BY DEF OpenOf
<1>9. /\ SumFunctionOnSet(charged', OpenOf(u) \ {r}) = SumFunctionOnSet(charged, OpenOf(u) \ {r})
      /\ SumFunctionOnSet(charged, OpenOf(u) \ {r}) \in Int
  <2>1. OpenOf(u) \ {r} \in SUBSET OpenOf(u)
    OBVIOUS
  <2>2. IsFiniteSet(OpenOf(u) \ {r})
    BY <1>1, <2>1, FS_Subset
  <2>3. \A x \in OpenOf(u) \ {r} : charged'[x] = charged[x]
    BY DEF OpenOf
  <2>4. \A x \in OpenOf(u) \ {r} : charged[x] \in Int /\ charged'[x] = charged[x]
    BY <1>2, <2>3
  <2>5. \A x \in OpenOf(u) \ {r} : charged[x] \in Int
    BY <2>4
  <2>6. QED
    BY <2>2, <2>4, <2>5, SumAgrees, SumIsInt
<1>10. OpenCharges(u)' = Share(r, u)' + SumFunctionOnSet(charged, OpenOf(u) \ {r})
  BY <1>7, <1>8, <1>9
<1>11. OpenCharges(u) \in Int
  BY <1>5, <1>6, <1>9
<1>12. QED
  BY <1>5, <1>6, <1>9, <1>10, <1>11

\* A step that opens, closes and charges nothing.
LEMMA ChargesStay ==
    ASSUME TypeInv, NEW u,
           \A x \in Requests : (pc'[x] \in Open <=> pc[x] \in Open) /\ charged'[x] = charged[x]
    PROVE  OpenCharges(u)' = OpenCharges(u)
<1> DEFINE S == OpenOf(u)
<1>1. S' = S /\ IsFiniteSet(S) /\ \A x \in S : charged[x] \in Int /\ charged'[x] = charged[x]
  BY OpenAreSummable DEF OpenOf
<1>2. /\ OpenCharges(u) = SumFunctionOnSet(charged, S)
      /\ OpenCharges(u)' = SumFunctionOnSet(charged', S')
  BY DEF OpenCharges, OpenOf
<1> HIDE DEF S
<1>3. SumFunctionOnSet(charged', S) = SumFunctionOnSet(charged, S)
  BY <1>1, SumAgrees
<1>4. QED
  BY <1>1, <1>2, <1>3

\* What the ledger has booked for a request.
Booked(r) == IF pc[r] = "settled" THEN cost[r] ELSE 0

\* The holds of a user whose key was gone when they were closed.
Forfeited(u) == SumFunctionOnSet(Forfeit, RequestsOf(u))

\* A request is never in a state of a payment.
OwnStates == \A r \in Requests : pc[r] \in RequestStates

LEMMA OwnStatesInit == Init => OwnStates
BY DEF Init, OwnStates, RequestStates, Txns

LEMMA OwnStatesStep == TypeInv /\ OwnStates /\ [Next]_vars => OwnStates'
<1> SUFFICES ASSUME TypeInv, OwnStates, [Next]_vars, NEW x \in Requests
             PROVE  pc'[x] \in RequestStates
  BY DEF OwnStates
<1>1. pc[x] \in RequestStates /\ x \in Txns /\ x \notin Payments
  BY UserAssumption DEF OwnStates, Txns
<1>2. ASSUME NEW t \in Txns, NEW s, GoTo(t, s), t \in Requests => s \in RequestStates
      PROVE  pc'[x] \in RequestStates
  BY <1>1, <1>2 DEF GoTo, TypeInv, TypeOK
<1>3. ASSUME UNCHANGED pc PROVE pc'[x] \in RequestStates
  BY <1>1, <1>3
<1>4. ASSUME NEW r \in Requests, RequestStep(r) \/ RequestFault(r)
      PROVE  pc'[x] \in RequestStates
  <2>1. \/ UNCHANGED pc
        \/ \E s \in RequestStates : GoTo(r, s)
    BY <1>4 DEF RequestStep, RequestFault, BeginHold, Refuse, CommitHold, FailCall, Answer,
       PostProcess, StartRelease, LockToRelease, Restore, LockToSettle, Settle, HoldRollsBack,
       CloseRollsBack, Abandon, Expire, RequestStates, Open, InFlight
  <2>2. QED
    BY <1>2, <1>3, <2>1 DEF Txns
<1>5. ASSUME NEW p \in Payments, PaymentStep(p)
      PROVE  pc'[x] \in RequestStates
  <2>1. \E s : GoTo(p, s)
    BY <1>5 DEF PaymentStep, Deliver, CreditTopUp, TopUpRollsBack
  <2>2. QED
    BY <1>1, <1>2, <2>1, UserAssumption DEF Txns
<1>6. CASE Crash
  BY <1>1, <1>6 DEF Crash, AfterCrash, RequestStates, Open, InFlight
<1>7. QED
  BY <1>3, <1>4, <1>5, <1>6 DEF Next, CooldownEnds, Quiescent, vars

\* What a request forfeits is an integer.
LEMMA ForfeitIsInt == TypeInv => \A r \in Requests : Forfeit[r] \in Int
BY RequestEstimate DEF TypeInv, TypeOK, Forfeit

\* Every charge is an open hold, a booked bill or a forfeited hold.
ChargesSplit ==
    \A r \in Requests :
        /\ charged[r] = Share(r, UserOf[r]) + Booked(r) + Forfeit[r]
        /\ Share(r, UserOf[r]) \in Int /\ Booked(r) \in Int /\ Forfeit[r] \in Int

LEMMA ChargesDoSplit == TypeInv /\ HoldsRecorded /\ OwnStates => ChargesSplit
<1> SUFFICES ASSUME TypeInv, HoldsRecorded, OwnStates, NEW r \in Requests
             PROVE  /\ charged[r] = Share(r, UserOf[r]) + Booked(r) + Forfeit[r]
                    /\ Share(r, UserOf[r]) \in Int /\ Booked(r) \in Int /\ Forfeit[r] \in Int
  BY DEF ChargesSplit
<1>1. /\ HoldRecord(r) /\ charged[r] \in Int /\ Forfeit[r] \in Int
      /\ pc[r] \in RequestStates
  BY ForfeitIsInt DEF HoldsRecorded, OwnStates, TypeInv, TypeOK
<1>2. Share(r, UserOf[r]) = IF pc[r] \in Open THEN charged[r] ELSE 0
  BY DEF Share, OpenOf
<1>3. CASE pc[r] = "settled"
  <2>1. cost[r] \in Nat
    BY <1>1, <1>3 DEF HoldRecord, TypeInv, TypeOK
  <2>2. Share(r, UserOf[r]) = 0 /\ Booked(r) = cost[r] /\ Forfeit[r] = charged[r] - cost[r]
    BY <1>1, <1>2, <1>3, <2>1 DEF HoldRecord, Open, InFlight, Booked
  <2>3. QED
    BY <1>1, <2>1, <2>2
<1>4. CASE pc[r] = "released"
  BY <1>1, <1>2, <1>4 DEF HoldRecord, Open, InFlight, Booked
<1>5. CASE pc[r] \in Open
  BY <1>1, <1>2, <1>5 DEF Open, InFlight, Booked, Forfeit
<1>6. CASE pc[r] \notin Open \cup {"settled", "released"}
  <2>1. charged[r] = 0
    BY <1>1, <1>6 DEF HoldRecord, RequestStates
  <2>2. QED
    BY <1>2, <1>6, <2>1 DEF Booked, Forfeit
<1>7. QED
  BY <1>3, <1>4, <1>5, <1>6

\* What a step of a request takes out of the balance it charges, and what it
\* takes out of the ledger it books: no update of either is lost.
LEMMA RequestMovesMoney ==
    ASSUME TypeInv, RowLocked, HoldsRecorded, NEW r \in Requests, RequestStep(r) \/ RequestFault(r),
           NEW u \in Users
    PROVE  /\ u = UserOf[r] => /\ balance'[u] = balance[u] - (charged'[r] - charged[r])
                               /\ ledger'[u] = ledger[u] - (Booked(r)' - Booked(r))
           /\ u # UserOf[r] => balance'[u] = balance[u] /\ ledger'[u] = ledger[u]
<1>1. /\ Estimate(r) \in Int /\ r \in Txns /\ balance[u] \in Int /\ ledger[u] \in Int
      /\ charged[r] \in Int /\ snap[r] \in Int
      /\ pc[r] \in LockedStates => snap[r] = balance[UserOf[r]]
      /\ pc[r] = "holding" => charged[r] = 0
      /\ pc[r] = "settled" => cost[r] \in Nat
  <2>1. HoldRecord(r) /\ Estimate(r) \in Int /\ r \in Txns
    BY RequestEstimate DEF HoldsRecorded, TypeInv, TypeOK, Txns
  <2>2. QED
    BY <2>1 DEF TypeInv, TypeOK, RowLocked, HoldRecord
<1> USE <1>1 DEF TypeInv, TypeOK, GoTo, accounts, alerts, inputs, LockedStates
<1>2. CASE \/ BeginHold(r) \/ Refuse(r) \/ HoldRollsBack(r) \/ Answer(r) \/ Abandon(r)
           \/ LockToRelease(r) \/ LockToSettle(r) \/ CloseRollsBack(r) \/ Expire(r)
           \/ FailCall(r) \/ PostProcess(r)
  <2>1. UNCHANGED <<balance, ledger, charged>>
    BY <1>2 DEF BeginHold, Refuse, HoldRollsBack, Answer, LockToRelease, LockToSettle,
       CloseRollsBack, Abandon, Expire, FailCall, PostProcess
  <2>2. (Booked(r) = 0 /\ Booked(r)' = 0) \/ Expire(r)
    BY <1>2 DEF BeginHold, Refuse, HoldRollsBack, Answer, LockToRelease, LockToSettle,
       CloseRollsBack, Abandon, FailCall, PostProcess, StartRelease, Booked
  <2>3. Expire(r) => Booked(r)' = Booked(r)
    BY DEF Expire, Booked
  <2>4. Booked(r) \in Int
    BY DEF Booked
  <2>5. QED
    BY <2>1, <2>2, <2>3, <2>4
<1>3. CASE CommitHold(r)
  <2>1. /\ charged[r] = 0 /\ charged'[r] = Estimate(r)
        /\ snap[r] = balance[UserOf[r]] /\ ledger' = ledger
        /\ balance' = [balance EXCEPT ![UserOf[r]] = snap[r] - Estimate(r)]
    BY <1>3 DEF CommitHold
  <2>2. Booked(r) = 0 /\ Booked(r)' = 0
    BY <1>3 DEF CommitHold, Booked
  <2>3. QED
    BY <2>1, <2>2
<1>4. CASE Restore(r)
  BY <1>4 DEF Restore, Booked, AmountsKnown
<1>5. CASE Settle(r)
  <2>1. SettledBalance(r) \in Int /\ cost[r] \in Nat
    BY <1>5 DEF Settle, SettledBalance, AmountsKnown
  <2>2. Booked(r) = 0 /\ Booked(r)' = cost[r]
    BY <1>5 DEF Settle, Booked
  <2>3. charged'[r] = charged[r] + snap[r] - SettledBalance(r)
    BY <1>5, <2>1 DEF Settle
  <2>4. balance' = [balance EXCEPT ![UserOf[r]] = SettledBalance(r)]
    BY <1>5 DEF Settle
  <2>5. ledger' = [ledger EXCEPT ![UserOf[r]] = @ - cost[r]] /\ snap[r] = balance[UserOf[r]]
    BY <1>5 DEF Settle
  <2>6. QED
    BY <2>1, <2>2, <2>3, <2>4, <2>5
<1>6. QED
  BY <1>2, <1>3, <1>4, <1>5 DEF RequestStep, RequestFault

\* The forfeits of a user can be summed over.
LEMMA ForfeitIsSummable ==
    TypeInv =>
        \A u \in Users :
            /\ IsFiniteSet(RequestsOf(u))
            /\ \A r \in RequestsOf(u) : Forfeit[r] \in Int
            /\ Forfeited(u) \in Int
<1> SUFFICES ASSUME TypeInv, NEW u \in Users
             PROVE  /\ IsFiniteSet(RequestsOf(u))
                    /\ \A r \in RequestsOf(u) : Forfeit[r] \in Int
                    /\ Forfeited(u) \in Int
  OBVIOUS
<1>1. RequestsOf(u) \in SUBSET Requests
  BY DEF RequestsOf
<1>2. IsFiniteSet(RequestsOf(u))
  BY <1>1, RequestAssumption, FS_Subset
<1>3. \A r \in RequestsOf(u) : Forfeit[r] \in Int
  BY <1>1, ForfeitIsInt
<1>4. QED
  BY <1>2, <1>3, SumIsInt DEF Forfeited

ForfeitsAreInts == \A r \in Requests : Forfeit[r] \in Int

\* The same of every request, for the state a step leads to.
LEMMA ForfeitsAreIntegers == TypeInv => ForfeitsAreInts
BY ForfeitIsInt DEF ForfeitsAreInts

\* A step of one request changes what is forfeited by its own forfeit.
LEMMA ForfeitedFollows ==
    ASSUME TypeInv, TypeInv', UNCHANGED ask, NEW r \in Requests, NEW u \in Users,
           \A x \in Requests : x # r => pc'[x] = pc[x] /\ seen'[x] = seen[x]
    PROVE  /\ u = UserOf[r] => Forfeited(u)' = Forfeited(u) + (Forfeit'[r] - Forfeit[r])
           /\ u # UserOf[r] => Forfeited(u)' = Forfeited(u)
<1>1. /\ IsFiniteSet(RequestsOf(u))
      /\ \A x \in RequestsOf(u) : Forfeit[x] \in Int
  BY ForfeitIsSummable
<1>2. \A x \in Requests : Forfeit'[x] \in Int
  <2>1. ForfeitsAreInts'
    BY ForfeitsAreIntegers, PTL
  <2>2. QED
    BY <2>1 DEF ForfeitsAreInts
<1>3. \A x \in Requests : x # r => Forfeit'[x] = Forfeit[x]
  BY DEF Forfeit, Estimate
<1>4. /\ Forfeited(u) = SumFunctionOnSet(Forfeit, RequestsOf(u))
      /\ Forfeited(u)' = SumFunctionOnSet(Forfeit', RequestsOf(u))
      /\ \A x \in RequestsOf(u) : x \in Requests
  BY DEF Forfeited, RequestsOf
<1>5. ASSUME u = UserOf[r]
      PROVE  Forfeited(u)' = Forfeited(u) + (Forfeit'[r] - Forfeit[r])
  <2>1. r \in RequestsOf(u)
    BY <1>5 DEF RequestsOf
  <2>2. Forfeit'[r] \in Int /\ \A x \in RequestsOf(u) : x # r => Forfeit'[x] = Forfeit[x]
    BY <1>2, <1>3, <1>4
  <2>3. SumFunctionOnSet(Forfeit', RequestsOf(u)) =
            SumFunctionOnSet(Forfeit, RequestsOf(u)) + (Forfeit'[r] - Forfeit[r])
    BY <1>1, <2>1, <2>2, SumMoves
  <2>4. QED
    BY <1>4, <2>3
<1>6. ASSUME u # UserOf[r]
      PROVE  Forfeited(u)' = Forfeited(u)
  <2>1. \A x \in RequestsOf(u) : Forfeit[x] \in Int /\ Forfeit'[x] = Forfeit[x]
    BY <1>1, <1>3, <1>4, <1>6 DEF RequestsOf
  <2>2. SumFunctionOnSet(Forfeit', RequestsOf(u)) = SumFunctionOnSet(Forfeit, RequestsOf(u))
    BY <1>1, <2>1, SumAgrees
  <2>3. QED
    BY <1>4, <2>2
<1>7. QED
  BY <1>5, <1>6

\* A step that closes nothing and reads no hold amount.
LEMMA ForfeitedStays ==
    ASSUME NEW u \in Users, UNCHANGED <<ask, seen>>,
           \A x \in Requests :
               \/ pc'[x] = pc[x]
               \/ {pc[x], pc'[x]} \cap {"settled", "released"} = {}
    PROVE  Forfeited(u)' = Forfeited(u)
<1>1. Forfeit' = Forfeit
  BY DEF Forfeit, Estimate
<1>2. QED
  BY <1>1 DEF Forfeited, RequestsOf

LEMMA AccountsStep ==
    TypeInv /\ RowLocked /\ HoldsRecorded /\ OwnStates /\ BalanceExplained /\ [Next]_vars
        => BalanceExplained'
<1> SUFFICES ASSUME TypeInv, RowLocked, HoldsRecorded, OwnStates, BalanceExplained,
                    [Next]_vars, NEW u \in Users
             PROVE  balance'[u] = ledger'[u] - OpenCharges(u)' - Forfeited(u)'
  BY DEF BalanceExplained, Forfeited, RequestsOf
<1>1. TypeInv' /\ HoldsRecorded' /\ OwnStates' /\ UNCHANGED ask
  BY TypeInvStep, HoldsRecordedStep, OwnStatesStep, AskIsFixed
<1>2. /\ balance[u] = ledger[u] - OpenCharges(u) - Forfeited(u)
      /\ balance[u] \in Int /\ ledger[u] \in Int /\ Forfeited(u) \in Int
      /\ OpenCharges(u) \in Int
  <2>1. OpenCharges(u) \in Int
    BY OpenAreSummable, SumIsInt DEF OpenCharges, OpenOf
  <2>2. QED
    BY <2>1, ForfeitIsSummable DEF BalanceExplained, Forfeited, TypeInv, TypeOK
<1>3. ASSUME NEW r \in Requests, RequestStep(r) \/ RequestFault(r)
      PROVE  balance'[u] = ledger'[u] - OpenCharges(u)' - Forfeited(u)'
  <2>1. \A x \in Requests : x # r => /\ pc'[x] = pc[x] /\ charged'[x] = charged[x]
                                     /\ seen'[x] = seen[x]
    BY <1>3, StepTouchesOneRequest
  <2>2. /\ Share(r, u) \in Int /\ Share(r, u)' \in Int
        /\ OpenCharges(u)' = OpenCharges(u) + (Share(r, u)' - Share(r, u))
    BY <1>1, <2>1, ChargesFollowShare
  <2>3. /\ u = UserOf[r] => Forfeited(u)' = Forfeited(u) + (Forfeit'[r] - Forfeit[r])
        /\ u # UserOf[r] => Forfeited(u)' = Forfeited(u)
    BY <1>1, <2>1, ForfeitedFollows
  <2>4. /\ u = UserOf[r] => /\ balance'[u] = balance[u] - (charged'[r] - charged[r])
                            /\ ledger'[u] = ledger[u] - (Booked(r)' - Booked(r))
        /\ u # UserOf[r] => balance'[u] = balance[u] /\ ledger'[u] = ledger[u]
    BY <1>3, RequestMovesMoney
  <2>5. CASE u # UserOf[r]
    <3>1. Share(r, u) = 0 /\ Share(r, u)' = 0
      BY <2>5 DEF Share, OpenOf
    <3>2. QED
      BY <1>2, <2>2, <2>3, <2>4, <2>5, <3>1
  <2>6. CASE u = UserOf[r]
    <3>1. /\ charged[r] = Share(r, u) + Booked(r) + Forfeit[r]
          /\ Booked(r) \in Int /\ Forfeit[r] \in Int
      BY <2>6, ChargesDoSplit DEF ChargesSplit
    <3>2. /\ charged'[r] = Share(r, u)' + Booked(r)' + Forfeit'[r]
          /\ Booked(r)' \in Int /\ Forfeit'[r] \in Int
      <4>1. ChargesSplit'
        BY <1>1, ChargesDoSplit, PTL
      <4>2. QED
        BY <2>6, <4>1 DEF ChargesSplit
    <3>3. QED
      BY <1>2, <2>2, <2>3, <2>4, <2>6, <3>1, <3>2
  <2>7. QED
    BY <2>5, <2>6
<1>4. CASE \/ \E p \in Payments : PaymentStep(p)
           \/ \E x \in Users : CooldownEnds(x)
           \/ Crash \/ UNCHANGED vars
  <2>1. /\ UNCHANGED <<charged, seen>>
        /\ \A x \in Requests :
               \/ pc'[x] = pc[x]
               \/ pc[x] = "holding" /\ pc'[x] = "failed"
               \/ pc[x] \in InFlight /\ pc'[x] = "lost"
    <3>1. UNCHANGED <<charged, seen>>
      BY <1>4 DEF PaymentStep, Deliver, CreditTopUp, TopUpRollsBack, CooldownEnds, Crash, vars,
         accounts, inputs
    <3>2. CASE \E p \in Payments : PaymentStep(p)
      BY <3>1, <3>2, UserAssumption DEF PaymentStep, Deliver, CreditTopUp, TopUpRollsBack,
         GoTo, TypeInv, TypeOK, Txns
    <3>3. CASE Crash
      <4>1. ASSUME NEW x \in Requests
            PROVE  \/ pc'[x] = pc[x]
                   \/ pc[x] = "holding" /\ pc'[x] = "failed"
                   \/ pc[x] \in InFlight /\ pc'[x] = "lost"
        <5>1. pc'[x] = AfterCrash(x) /\ pc[x] # "crediting"
          BY <3>3 DEF Crash, Txns, OwnStates, RequestStates, Open, InFlight
        <5>2. QED
          BY <5>1 DEF AfterCrash
      <4>2. QED
        BY <3>1, <4>1
    <3>4. CASE UNCHANGED pc
      BY <3>1, <3>4
    <3>5. QED
      BY <1>4, <3>2, <3>3, <3>4 DEF CooldownEnds, vars
  <2>2. OpenCharges(u)' = OpenCharges(u)
    BY <2>1, ChargesStay DEF Open, InFlight
  <2>3. Forfeited(u)' = Forfeited(u)
    BY <1>1, <2>1, ForfeitedStays DEF InFlight
  <2>4. ledger'[u] - balance'[u] = ledger[u] - balance[u]
    <3>1. ASSUME NEW p \in Payments, CreditTopUp(p)
          PROVE  ledger'[u] - balance'[u] = ledger[u] - balance[u]
      <4>1. snap[p] = balance[UserOf[p]] /\ UserOf[p] \in Users /\ TopUp[p] \in Nat
        BY <3>1, UserAssumption DEF CreditTopUp, RowLocked, LockedStates, Txns
      <4>2. CASE u = UserOf[p]
        <5>1. balance'[u] = balance[u] + TopUp[p] /\ ledger'[u] = ledger[u] + TopUp[p]
          BY <3>1, <4>1, <4>2 DEF CreditTopUp, TypeInv, TypeOK
        <5>2. QED
          BY <1>2, <4>1, <5>1
      <4>3. CASE u # UserOf[p]
        BY <3>1, <4>1, <4>3 DEF CreditTopUp, TypeInv, TypeOK
      <4>4. QED
        BY <4>2, <4>3
    <3>2. CASE UNCHANGED <<balance, ledger>>
      BY <3>2
    <3>3. QED
      BY <1>4, <3>1, <3>2
         DEF PaymentStep, Deliver, TopUpRollsBack, CooldownEnds, Crash, vars, accounts
  <2>5. balance'[u] \in Int /\ ledger'[u] \in Int
    BY <1>1 DEF TypeInv, TypeOK
  <2>6. QED
    BY <1>2, <2>2, <2>3, <2>4, <2>5
<1>5. QED
  BY <1>3, <1>4 DEF Next, Quiescent

\* An account is opened with its free credit booked and no hold.
LEMMA AccountsInit == Init => BalanceExplained
<1> SUFFICES ASSUME Init, NEW u \in Users
             PROVE  balance[u] = ledger[u] - OpenCharges(u) - Forfeited(u)
  BY DEF BalanceExplained, Forfeited
<1>1. \A r \in Requests : pc[r] = "new"
  BY DEF Init, Txns
<1>2. OpenCharges(u) = 0
  <2>1. { r \in Requests : UserOf[r] = u /\ pc[r] \in Open } = {}
    BY <1>1 DEF Open, InFlight
  <2>2. QED
    BY <2>1, SumOfNone DEF OpenCharges
<1>3. Forfeited(u) = 0
  <2>1. \A r \in RequestsOf(u) : Forfeit[r] = 0 /\ Forfeit[r] \in Nat
    BY <1>1 DEF RequestsOf, Forfeit
  <2>2. IsFiniteSet(RequestsOf(u))
    <3>1. RequestsOf(u) \in SUBSET Requests
      BY DEF RequestsOf
    <3>2. QED
      BY <3>1, RequestAssumption, FS_Subset
  <2>3. QED
    BY <2>1, <2>2, SumOfNaturals DEF Forfeited
<1>4. balance[u] \in Int /\ ledger[u] = balance[u]
  BY UserAssumption DEF Init
<1>5. QED
  BY <1>2, <1>3, <1>4

\* Whatever fails, in whatever order, for any number of requests and payments:
\* a balance is what was booked, less the open holds, less the holds whose key
\* was gone when they were closed.
THEOREM EveryBalanceIsExplained == Spec => []BalanceExplained
<1>1. Init => RowLocked
  BY DEF Init, RowLocked, LockedStates
<1>2. QED
  BY <1>1, TypeInvInit, TypeInvStep, RowLockedStep, HoldsRecordedInit, HoldsRecordedStep,
     OwnStatesInit, OwnStatesStep, AccountsInit, AccountsStep, PTL DEF Spec

\* As long as Redis keeps the keys nothing is forfeited, and in spite of crashes,
\* rollbacks and abandoned streams the balance is the booked transactions less
\* the open holds, whatever requests and payments of one user do at the same time.
THEOREM BooksAlwaysBalance ==
    ASSUME RedisIsReliable
    PROVE  Spec => []BooksBalance
<1>1. Init => RowLocked
  BY DEF Init, RowLocked, LockedStates
<1>2. TypeInv /\ HoldsRecorded /\ KeysKept /\ BalanceExplained => BooksBalance
  <2>1. SUFFICES ASSUME TypeInv, HoldsRecorded, KeysKept, BalanceExplained, NEW u \in Users
                 PROVE  balance[u] = ledger[u] - OpenCharges(u)
    BY DEF BooksBalance
  <2>2. IsFiniteSet(RequestsOf(u))
    BY <2>1, ForfeitIsSummable
  <2>3. \A r \in RequestsOf(u) : Forfeit[r] = 0
    <3>1. ASSUME NEW r \in RequestsOf(u) PROVE Forfeit[r] = 0
      <4>1. /\ r \in Requests /\ KeyKept(r) /\ HoldRecord(r)
            /\ Forfeit[r] \in Int /\ cost[r] \in Nat \cup {None}
        BY <2>1, <3>1, ForfeitIsInt DEF RequestsOf, KeysKept, HoldsRecorded, TypeInv, TypeOK
      <4>2. CASE pc[r] = "settled"
        BY <4>1, <4>2 DEF KeyKept, HoldRecord
      <4>3. CASE pc[r] = "released"
        BY <4>1, <4>3 DEF KeyKept, HoldRecord
      <4>4. CASE pc[r] \notin {"settled", "released"}
        BY <4>1, <4>4 DEF Forfeit
      <4>5. QED
        BY <4>2, <4>3, <4>4
    <3>2. QED
      BY <3>1
  <2>4. Forfeited(u) = 0
    BY <2>2, <2>3, SumOfNaturals DEF Forfeited
  <2>5. OpenCharges(u) \in Int /\ ledger[u] \in Int
    BY <2>1, OpenAreSummable, SumIsInt DEF OpenCharges, OpenOf, TypeInv, TypeOK
  <2>6. QED
    BY <2>1, <2>4, <2>5 DEF BalanceExplained, Forfeited
<1>3. QED
  BY <1>1, <1>2, TypeInvInit, TypeInvStep, RowLockedStep, HoldsRecordedInit,
     HoldsRecordedStep, KeysKeptInit, KeysKeptStep, OwnStatesInit, OwnStatesStep,
     AccountsInit, AccountsStep, PTL DEF Spec

===============================================================================
