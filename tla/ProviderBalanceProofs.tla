------------------------- MODULE ProviderBalanceProofs -------------------------
(***************************************************************************)
(* Theorems about ProviderBalance, for every set of tasks, edits and       *)
(* routers, every opening row and every cost and threshold.                *)
(***************************************************************************)
EXTENDS ProviderBalance, FiniteSetTheorems, TLAPS

-------------------------------------------------------------------------------
(* The strengthening.  TypeOK is not inductive: used stays a natural number *)
(* only because a task never drafts a higher balance than it read; and what *)
(* a task drafts is the new row only because nobody commits one meanwhile.  *)

\* What a task does to its copy of the row.
Drafted(t) ==
    /\ pc[t] = "locked" => draft[t] = snap[t]
    /\ pc[t] = "flushed" =>
           /\ draft[t].balance <= snap[t].balance
           /\ draft[t].warning = snap[t].warning
           /\ draft[t].hardStop = snap[t].hardStop
           /\ draft[t].balance < draft[t].hardStop => draft[t].status = "hard_stop"

\* A task has the row lock, and the row is the one it read, but for the hour
\* of the last warning running out.
TaskHolds(t) ==
    pc[t] \in {"locked", "flushed"} =>
        /\ lock = t
        /\ snap[t].balance = row.balance
        /\ snap[t].warning = row.warning
        /\ snap[t].hardStop = row.hardStop
        /\ snap[t].status = row.status

\* An edit that flushed a change has the row lock.
EditHolds(e) == pc[e] = "flushed" /\ draft[e] # snap[e] => lock = e

RowHeld ==
    /\ \A t \in Tasks : Drafted(t) /\ TaskHolds(t)
    /\ \A e \in Edits : EditHolds(e)

Inv == TypeOK /\ RowHeld /\ DeductionsKept

-------------------------------------------------------------------------------
(* Lemmas about rows.                                                      *)

\* Merging rows gives a row.
LEMMA MergeIsRow ==
    ASSUME NEW a \in Rows, NEW b \in Rows, NEW c \in Rows
    PROVE  Merge(a, b, c) \in Rows
BY DEF Merge, Rows, Statuses

\* A transaction that changed nothing leaves the row alone.
LEMMA MergeNothing ==
    ASSUME NEW a \in Rows, NEW b \in Rows
    PROVE  Merge(a, b, b) = a
BY DEF Merge, Rows

\* check_thresholds changes the status and the time of the last warning; below
\* the hard stop threshold the status is hard stop.
LEMMA ThresholdsChecked ==
    ASSUME NEW p \in Rows
    PROVE  /\ CheckThresholds(p) \in Rows
           /\ CheckThresholds(p).balance = p.balance
           /\ CheckThresholds(p).warning = p.warning
           /\ CheckThresholds(p).hardStop = p.hardStop
           /\ p.balance < p.hardStop => CheckThresholds(p).status = "hard_stop"
<1>1. StatusFor(p) \in Statuses
  BY DEF StatusFor, Rows, Statuses
<1>2. p.balance < p.hardStop => StatusFor(p) = "hard_stop"
  BY DEF StatusFor, Rows
<1>3. (p.warned \/ WarningDue(p)) \in BOOLEAN
  BY DEF Rows, WarningDue
<1>4. QED
  BY <1>1, <1>2, <1>3 DEF CheckThresholds, Rows

\* Subtracting a cost from a row gives a row.
LEMMA DeductedIsRow ==
    ASSUME NEW p \in Rows, NEW cost \in Costs
    PROVE  /\ [p EXCEPT !.balance = @ - cost] \in Rows
           /\ [p EXCEPT !.balance = @ - cost].balance = p.balance - cost
           /\ [p EXCEPT !.balance = @ - cost].warning = p.warning
           /\ [p EXCEPT !.balance = @ - cost].hardStop = p.hardStop
           /\ p.balance - cost <= p.balance
BY RowAssumption DEF Rows

\* An edit drafts a row.
LEMMA AssignedIsRow ==
    ASSUME TypeOK, NEW e \in Edits, Assignments(e)
    PROVE  \E p \in Rows : Assign(e, p)
<1>1. row \in Rows /\ Balances \subseteq Int /\ Thresholds \subseteq Nat
  BY RowAssumption DEF TypeOK
<1>2. CASE \E b \in Balances : Assign(e, [row EXCEPT !.balance = b])
  <2>1. PICK b \in Balances : Assign(e, [row EXCEPT !.balance = b])
    BY <1>2
  <2>2. [row EXCEPT !.balance = b] \in Rows
    BY <1>1 DEF Rows
  <2>3. QED
    BY <2>1, <2>2
<1>3. CASE \E w \in Thresholds, h \in Thresholds :
               Assign(e, [row EXCEPT !.warning = w, !.hardStop = h])
  <2>1. PICK w \in Thresholds, h \in Thresholds :
            Assign(e, [row EXCEPT !.warning = w, !.hardStop = h])
    BY <1>3
  <2>2. [row EXCEPT !.warning = w, !.hardStop = h] \in Rows
    BY <1>1 DEF Rows
  <2>3. QED
    BY <2>1, <2>2
<1>4. CASE Assign(e, [row EXCEPT !.status =
                        IF row.balance < row.warning THEN "warning" ELSE "normal"])
  <2>1. [row EXCEPT !.status = IF row.balance < row.warning THEN "warning" ELSE "normal"]
            \in Rows
    BY <1>1 DEF Rows, Statuses
  <2>2. QED
    BY <1>4, <2>1
<1>5. QED
  BY <1>2, <1>3, <1>4 DEF Assignments

\* What a task commits is what it drafted.
LEMMA TaskMerge ==
    ASSUME TypeOK, NEW t \in Tasks, pc[t] = "flushed", TaskHolds(t)
    PROVE  /\ Merged(t).balance = draft[t].balance
           /\ Merged(t).warning = row.warning
              \/ Merged(t).warning = draft[t].warning
           /\ Merged(t).hardStop = draft[t].hardStop
           /\ Merged(t).status = draft[t].status
BY DEF Merged, Merge, TaskHolds

\* The committed row of a writer is a row.
LEMMA MergedIsRow ==
    ASSUME TypeOK, NEW w \in Writers
    PROVE  Merged(w) \in Rows
BY MergeIsRow DEF Merged, TypeOK, Clients

-------------------------------------------------------------------------------
(* The invariant holds initially and every step keeps it.                  *)

LEMMA InvInit == Init => Inv
<1>1. SUFFICES ASSUME Init PROVE Inv
  OBVIOUS
<1>2. TypeOK
  <2>1. Opening.balance \in Int
    BY RowAssumption DEF Rows
  <2>2. QED
    BY <1>1, <2>1, RowAssumption DEF Init, TypeOK
<1>3. RowHeld
  BY <1>1, ClientAssumption DEF Init, RowHeld, Drafted, TaskHolds, EditHolds, Clients, Writers
<1>4. DeductionsKept
  BY <1>1, RowAssumption DEF Init, DeductionsKept, Rows
<1>5. QED
  BY <1>2, <1>3, <1>4 DEF Inv

\* The steps of a background task.
LEMMA TaskKeepsInv ==
    ASSUME Inv, NEW t \in Tasks, TaskStep(t)
    PROVE  Inv'
<1>1. TypeOK /\ RowHeld /\ DeductionsKept /\ t \in Writers /\ t \in Clients
  BY DEF Inv, Writers, Clients
<1>2. \A w \in Writers : w # None
  BY ClientAssumption
<1>3. CASE LockProvider(t)
  <2>1. TypeOK'
    BY <1>1, <1>3 DEF TypeOK, LockProvider, Acquire, CanLock, GoTo, books, emails
  <2>2. Drafted(t)' /\ TaskHolds(t)'
    BY <1>1, <1>3 DEF TypeOK, LockProvider, Acquire, GoTo, books, Drafted, TaskHolds
  <2>3. ASSUME NEW u \in Tasks, u # t PROVE Drafted(u)' /\ TaskHolds(u)'
    <3>1. pc[u] \notin {"locked", "flushed"}
      BY <1>1, <1>2, <1>3 DEF RowHeld, TaskHolds, LockProvider, Acquire, CanLock, Writers
    <3>2. QED
      BY <1>1, <1>3, <2>3, <3>1 DEF TypeOK, LockProvider, GoTo, Drafted, TaskHolds
  <2>4. ASSUME NEW e \in Edits PROVE EditHolds(e)'
    <3>1. e # t
      BY ClientAssumption
    <3>2. ~(pc[e] = "flushed" /\ draft[e] # snap[e])
      BY <1>1, <1>2, <1>3 DEF RowHeld, EditHolds, LockProvider, Acquire, CanLock, Writers
    <3>3. QED
      BY <1>1, <1>3, <3>1, <3>2 DEF TypeOK, LockProvider, GoTo, EditHolds
  <2>5. DeductionsKept'
    BY <1>1, <1>3 DEF DeductionsKept, LockProvider, books
  <2>6. QED
    BY <2>1, <2>2, <2>3, <2>4, <2>5 DEF Inv, RowHeld
<1>4. CASE Deduct(t)
  <2>1. PICK cost \in Costs :
            /\ draft' = [draft EXCEPT ![t] =
                             CheckThresholds([draft[t] EXCEPT !.balance = @ - cost])]
            /\ warnings' \in {warnings, warnings + 1}
            /\ stops' \in {stops, stops + 1}
    BY <1>4 DEF Deduct
  <2>2. draft[t] \in Rows /\ draft[t] = snap[t] /\ lock = t
    BY <1>1, <1>4 DEF TypeOK, RowHeld, Drafted, TaskHolds, Deduct
  <2>3. DEFINE p == [draft[t] EXCEPT !.balance = @ - cost]
  <2>4. p \in Rows /\ p.balance <= draft[t].balance
            /\ p.warning = draft[t].warning /\ p.hardStop = draft[t].hardStop
    BY <2>2, DeductedIsRow
  <2>5. draft'[t] = CheckThresholds(p)
    BY <1>1, <2>1 DEF TypeOK
  <2>6. /\ draft'[t] \in Rows
        /\ draft'[t].balance = p.balance
        /\ draft'[t].warning = p.warning
        /\ draft'[t].hardStop = p.hardStop
        /\ p.balance < p.hardStop => draft'[t].status = "hard_stop"
    <3>1. HIDE DEF p
    <3>2. QED
      BY <2>4, <2>5, ThresholdsChecked
  <2>7. cache' \in {None, cache} /\ UNCHANGED <<row, entered, used, lock, snap>>
            /\ pc' = [pc EXCEPT ![t] = "flushed"]
    BY <1>4 DEF Deduct, Invalidate, GoTo, books
  <2>8. draft' \in [Writers -> Rows]
    BY <1>1, <2>1, <2>5, <2>6 DEF TypeOK
  <2>9. TypeOK'
    BY <1>1, <2>1, <2>7, <2>8 DEF TypeOK
  <2>10. Drafted(t)' /\ TaskHolds(t)'
    <3>1. HIDE DEF p
    <3>2. pc'[t] = "flushed" /\ snap' = snap /\ row' = row /\ lock' = lock
      BY <1>1, <2>7 DEF TypeOK
    <3>3. TaskHolds(t)'
      BY <1>1, <1>4, <3>2 DEF TaskHolds, RowHeld, Deduct
    <3>4. Drafted(t)'
      BY <2>2, <2>4, <2>6, <3>2 DEF Drafted
    <3>5. QED
      BY <3>3, <3>4
  <2>11. \A u \in Tasks : u # t => Drafted(u)' /\ TaskHolds(u)'
    BY <1>1, <2>1, <2>7 DEF TypeOK, RowHeld, Drafted, TaskHolds
  <2>12. \A e \in Edits : EditHolds(e)'
    BY <1>1, <2>1, <2>7, ClientAssumption DEF TypeOK, RowHeld, EditHolds
  <2>13. DeductionsKept'
    BY <1>1, <2>7 DEF DeductionsKept
  <2>14. QED
    BY <2>9, <2>10, <2>11, <2>12, <2>13 DEF Inv, RowHeld
<1>5. CASE CommitDeduction(t)
  <2>1. pc[t] = "flushed" /\ Drafted(t) /\ TaskHolds(t) /\ lock = t
    BY <1>1, <1>5 DEF CommitDeduction, RowHeld, TaskHolds
  <2>2. /\ row' = Merged(t)
        /\ lock' = None
        /\ pc' = [pc EXCEPT ![t] = "done"]
        /\ stops' \in {stops, 0}
        /\ used' = used + snap[t].balance - draft[t].balance
        /\ UNCHANGED <<warnings, entered, cache, snap, draft>>
    BY <1>5, <2>1 DEF CommitDeduction, Commit, Unlock, GoTo
  <2>3. Merged(t) \in Rows /\ Merged(t).balance = draft[t].balance
    BY <1>1, <2>1, MergedIsRow, TaskMerge
  <2>4. snap[t].balance \in Int /\ draft[t].balance \in Int /\ used \in Nat /\ entered \in Int
    BY <1>1 DEF TypeOK, Rows
  <2>5. used' \in Nat
    BY <2>1, <2>2, <2>4 DEF Drafted
  <2>6. TypeOK'
    BY <1>1, <2>2, <2>3, <2>5 DEF TypeOK
  <2>7. ASSUME NEW u \in Tasks PROVE Drafted(u)' /\ TaskHolds(u)'
    <3>1. u # t => pc[u] \notin {"locked", "flushed"}
      BY <1>1, <2>1 DEF RowHeld, TaskHolds
    <3>2. pc'[u] \notin {"locked", "flushed"}
      BY <1>1, <2>2, <3>1 DEF TypeOK, Clients, Writers
    <3>3. QED
      BY <3>2 DEF Drafted, TaskHolds
  <2>8. ASSUME NEW e \in Edits PROVE EditHolds(e)'
    <3>1. e # t
      BY ClientAssumption
    <3>2. ~(pc[e] = "flushed" /\ draft[e] # snap[e])
      BY <1>1, <2>1, <3>1 DEF RowHeld, EditHolds
    <3>3. QED
      BY <1>1, <2>2, <3>1, <3>2 DEF TypeOK, EditHolds
  <2>9. DeductionsKept'
    BY <1>1, <2>1, <2>2, <2>3, <2>4 DEF DeductionsKept, TaskHolds
  <2>10. QED
    BY <2>6, <2>7, <2>8, <2>9 DEF Inv, RowHeld
<1>6. QED
  BY <1>3, <1>4, <1>5 DEF TaskStep

\* The steps of an admin endpoint.
LEMMA EditKeepsInv ==
    ASSUME Inv, NEW e \in Edits, EditStep(e)
    PROVE  Inv'
<1>1. TypeOK /\ RowHeld /\ DeductionsKept /\ e \in Writers /\ e \in Clients
  BY DEF Inv, Writers, Clients
<1>2. e \notin Tasks /\ \A w \in Writers : w # None
  BY ClientAssumption
<1>3. CASE ReadRow(e)
  <2>1. PICK p \in Rows : draft' = [draft EXCEPT ![e] = p]
    BY <1>1, <1>3, AssignedIsRow DEF ReadRow, Assign
  <2>2. /\ snap' = [snap EXCEPT ![e] = row]
        /\ pc' = [pc EXCEPT ![e] = "read"]
        /\ UNCHANGED <<row, entered, used, warnings, stops, lock, cache>>
    BY <1>3 DEF ReadRow, GoTo, books, emails
  <2>3. TypeOK'
    BY <1>1, <2>1, <2>2 DEF TypeOK
  <2>4. RowHeld'
    BY <1>1, <1>2, <2>1, <2>2 DEF TypeOK, RowHeld, Drafted, TaskHolds, EditHolds
  <2>5. DeductionsKept'
    BY <1>1, <2>2 DEF DeductionsKept
  <2>6. QED
    BY <2>3, <2>4, <2>5 DEF Inv
<1>4. CASE RefuseRelease(e)
  <2>1. /\ pc' = [pc EXCEPT ![e] = "done"]
        /\ UNCHANGED <<row, entered, used, warnings, stops, lock, cache, snap, draft>>
    BY <1>4 DEF RefuseRelease, GoTo, books, emails
  <2>2. TypeOK'
    BY <1>1, <2>1 DEF TypeOK
  <2>3. RowHeld'
    BY <1>1, <1>2, <2>1 DEF TypeOK, RowHeld, Drafted, TaskHolds, EditHolds
  <2>4. DeductionsKept'
    BY <1>1, <2>1 DEF DeductionsKept
  <2>5. QED
    BY <2>2, <2>3, <2>4 DEF Inv
<1>5. CASE Flush(e)
  <2>1. /\ pc' = [pc EXCEPT ![e] = "flushed"]
        /\ \/ lock = None /\ lock' = e
           \/ lock' = lock /\ draft[e] = snap[e]
        /\ cache' \in {None, cache}
        /\ UNCHANGED <<row, entered, used, warnings, stops, snap, draft>>
    BY <1>5 DEF Flush, Acquire, CanLock, Invalidate, GoTo, books, emails
  <2>2. TypeOK'
    BY <1>1, <2>1 DEF TypeOK
  <2>3. ASSUME NEW t \in Tasks PROVE Drafted(t)' /\ TaskHolds(t)'
    <3>1. pc'[t] = pc[t] /\ t \in Writers
      BY <1>1, <1>2, <2>1 DEF TypeOK, Writers
    <3>2. pc[t] \in {"locked", "flushed"} => lock' = lock
      BY <1>1, <1>2, <2>1, <3>1 DEF RowHeld, TaskHolds
    <3>3. QED
      BY <1>1, <2>1, <3>1, <3>2 DEF RowHeld, Drafted, TaskHolds
  <2>4. ASSUME NEW f \in Edits PROVE EditHolds(f)'
    <3>1. f # e => pc'[f] = pc[f] /\ f \in Writers
      BY <1>1, <2>1 DEF TypeOK, Writers
    <3>2. f # e => EditHolds(f)'
      BY <1>1, <1>2, <2>1, <3>1 DEF RowHeld, EditHolds
    <3>3. EditHolds(e)'
      BY <2>1 DEF EditHolds
    <3>4. QED
      BY <3>2, <3>3
  <2>5. DeductionsKept'
    BY <1>1, <2>1 DEF DeductionsKept
  <2>6. QED
    BY <2>2, <2>3, <2>4, <2>5 DEF Inv, RowHeld
<1>6. CASE CommitEdit(e)
  <2>1. /\ pc[e] = "flushed"
        /\ row' = Merged(e)
        /\ lock' = IF lock = e THEN None ELSE lock
        /\ pc' = [pc EXCEPT ![e] = "done"]
        /\ stops' \in {stops, 0}
        /\ IF draft[e].balance # snap[e].balance
           THEN entered' = draft[e].balance /\ used' = 0
           ELSE entered' = entered /\ used' = used
        /\ UNCHANGED <<warnings, cache, snap, draft>>
    BY <1>6 DEF CommitEdit, Commit, Unlock, GoTo
  <2>2. Merged(e) \in Rows
    BY <1>1, MergedIsRow
  <2>3. entered' \in Int /\ used' \in Nat
    BY <1>1, <2>1 DEF TypeOK, Rows
  <2>4. TypeOK'
    BY <1>1, <2>1, <2>2, <2>3 DEF TypeOK
  <2>5. lock = e \/ row' = row
    <3>1. draft[e] # snap[e] => lock = e
      BY <1>1, <2>1 DEF RowHeld, EditHolds
    <3>2. draft[e] = snap[e] => row' = row
      BY <1>1, <2>1, MergeNothing DEF Merged, TypeOK
    <3>3. QED
      BY <3>1, <3>2
  <2>6. ASSUME NEW t \in Tasks PROVE Drafted(t)' /\ TaskHolds(t)'
    <3>1. pc'[t] = pc[t]
      BY <1>1, <1>2, <2>1 DEF TypeOK
    <3>2. pc[t] \in {"locked", "flushed"} => row' = row /\ lock' = lock
      BY <1>1, <1>2, <2>1, <2>5 DEF RowHeld, TaskHolds
    <3>3. QED
      BY <1>1, <2>1, <3>1, <3>2 DEF RowHeld, Drafted, TaskHolds
  <2>7. ASSUME NEW f \in Edits PROVE EditHolds(f)'
    BY <1>1, <2>1 DEF TypeOK, RowHeld, EditHolds, Clients, Writers
  <2>8. DeductionsKept'
    <3>1. row'.balance = IF draft[e].balance = snap[e].balance
                         THEN row.balance ELSE draft[e].balance
      BY <2>1 DEF Merged, Merge
    <3>2. draft[e].balance \in Int
      BY <1>1 DEF TypeOK, Rows
    <3>3. QED
      BY <1>1, <2>1, <3>1, <3>2 DEF DeductionsKept
  <2>9. QED
    BY <2>4, <2>6, <2>7, <2>8 DEF Inv, RowHeld
<1>7. QED
  BY <1>3, <1>4, <1>5, <1>6 DEF EditStep

\* The gateway, time and the faults.
LEMMA OthersKeepInv ==
    ASSUME Inv,
           \/ \E r \in Routers : RouterStep(r)
           \/ \E w \in Writers : Rollback(w) \/ Unserved(w)
           \/ CacheExpires \/ WarningHourEnds \/ Crash
           \/ UNCHANGED vars
    PROVE  Inv'
<1>1. TypeOK /\ RowHeld /\ DeductionsKept
  BY DEF Inv
<1>2. ASSUME NEW r \in Routers, RouterStep(r) PROVE Inv'
  <2>1. r \notin Writers /\ r \in Clients
    BY ClientAssumption DEF Clients
  <2>2. /\ \E s \in {"loaded", "idle"} : pc' = [pc EXCEPT ![r] = s]
        /\ \/ snap' = [snap EXCEPT ![r] = row]
           \/ snap' = snap
        /\ cache' \in {cache, snap[r]}
        /\ UNCHANGED <<row, entered, used, warnings, stops, lock, draft>>
    BY <1>2 DEF RouterStep, CacheMiss, FillCache, GoTo, books, emails
  <2>3. TypeOK'
    <3>1. pc' \in [Clients -> {"idle", "locked", "read", "flushed", "loaded", "done", "failed"}]
      BY <1>1, <2>2 DEF TypeOK
    <3>2. snap' \in [Clients -> Rows]
      BY <1>1, <2>2 DEF TypeOK
    <3>3. cache' \in Rows \cup {None}
      BY <1>1, <2>1, <2>2 DEF TypeOK
    <3>4. QED
      BY <1>1, <2>2, <3>1, <3>2, <3>3 DEF TypeOK
  <2>4. ASSUME NEW w \in Writers PROVE pc'[w] = pc[w] /\ snap'[w] = snap[w]
    <3>1. w # r /\ w \in Clients
      BY <2>1 DEF Clients
    <3>2. pc'[w] = pc[w]
      BY <1>1, <2>2, <3>1 DEF TypeOK
    <3>3. snap'[w] = snap[w]
      BY <1>1, <2>2, <3>1 DEF TypeOK
    <3>4. QED
      BY <3>2, <3>3
  <2>5. RowHeld'
    BY <1>1, <2>2, <2>4 DEF RowHeld, Drafted, TaskHolds, EditHolds, Writers
  <2>6. QED
    BY <1>1, <2>2, <2>3, <2>5 DEF Inv, DeductionsKept
<1>3. ASSUME NEW w \in Writers, Rollback(w) \/ Unserved(w) PROVE Inv'
  <2>1. /\ pc' = [pc EXCEPT ![w] = "failed"]
        /\ lock' \in {lock, IF lock = w THEN None ELSE lock}
        /\ UNCHANGED <<row, entered, used, warnings, stops, cache, snap, draft>>
    BY <1>3 DEF Rollback, Unserved, Unlock, GoTo, books, emails
  <2>2. TypeOK'
    BY <1>1, <2>1 DEF TypeOK
  <2>3. \A x \in Writers : x # w => pc'[x] = pc[x] /\ (lock = x => lock' = x)
    BY <1>1, <2>1 DEF TypeOK, Clients
  <2>4. pc'[w] = "failed"
    BY <1>1, <2>1 DEF TypeOK, Clients
  <2>5. RowHeld'
    BY <1>1, <2>1, <2>3, <2>4 DEF RowHeld, Drafted, TaskHolds, EditHolds, Writers
  <2>6. QED
    BY <1>1, <2>1, <2>2, <2>5 DEF Inv, DeductionsKept
<1>4. CASE CacheExpires
  <2>1. cache' = None /\ UNCHANGED <<row, entered, used, warnings, stops, lock, pc, snap, draft>>
    BY <1>4 DEF CacheExpires, books, emails
  <2>2. QED
    BY <1>1, <2>1
    DEF Inv, TypeOK, RowHeld, Drafted, TaskHolds, EditHolds, DeductionsKept
<1>5. CASE WarningHourEnds
  <2>1. /\ row' = [row EXCEPT !.warned = FALSE]
        /\ warnings' = 0
        /\ UNCHANGED <<entered, used, stops, lock, cache, pc, snap, draft>>
    BY <1>5 DEF WarningHourEnds
  <2>2. /\ row' \in Rows
        /\ row'.balance = row.balance
        /\ row'.warning = row.warning
        /\ row'.hardStop = row.hardStop
        /\ row'.status = row.status
    BY <1>1, <2>1 DEF TypeOK, Rows
  <2>3. TypeOK'
    BY <1>1, <2>1, <2>2 DEF TypeOK
  <2>4. RowHeld'
    BY <1>1, <2>1, <2>2 DEF RowHeld, Drafted, TaskHolds, EditHolds
  <2>5. QED
    BY <1>1, <2>1, <2>2, <2>3, <2>4 DEF Inv, DeductionsKept
<1>6. CASE Crash
  <2>1. /\ pc' = [c \in Clients |->
                     CASE c \in Routers -> "idle"
                       [] pc[c] \in Resting -> pc[c]
                       [] OTHER -> "failed"]
        /\ lock' = None
        /\ UNCHANGED <<row, entered, used, warnings, stops, cache, snap, draft>>
    BY <1>6 DEF Crash, books, emails
  <2>2. \A c \in Clients : pc'[c] \in Resting
    BY <2>1 DEF Resting
  <2>3. TypeOK'
    BY <1>1, <2>1, <2>2 DEF TypeOK, Resting
  <2>4. RowHeld'
    BY <2>2 DEF RowHeld, Resting, Clients, Drafted, TaskHolds, EditHolds, Writers
  <2>5. QED
    BY <1>1, <2>1, <2>3, <2>4 DEF Inv, DeductionsKept
<1>7. CASE UNCHANGED vars
  BY <1>1, <1>7
  DEF vars, books, emails, Inv, TypeOK, RowHeld, Drafted, TaskHolds, EditHolds, DeductionsKept
<1>8. QED
  BY <1>2, <1>3, <1>4, <1>5, <1>6, <1>7

LEMMA InvStep == Inv /\ [Next]_vars => Inv'
BY TaskKeepsInv, EditKeepsInv, OthersKeepInv DEF Next

LEMMA Invariance == Spec => []Inv
BY InvInit, InvStep, PTL DEF Spec

-------------------------------------------------------------------------------
(* The theorems.                                                           *)

\* The variables keep their types.
THEOREM TypeCorrect == Spec => []TypeOK
<1>1. Inv => TypeOK
  BY DEF Inv
<1>2. QED
  BY <1>1, Invariance, PTL

\* No deduction from a provider's balance is lost, whatever tasks and
\* administrators do at the same time and whatever fails
\* (deduct_provider_balance).
THEOREM NoDeductionLost == Spec => []DeductionsKept
<1>1. Inv => DeductionsKept
  BY DEF Inv
<1>2. QED
  BY <1>1, Invariance, PTL

\* A committed deduction that leaves less than the hard stop threshold leaves
\* the provider in hard stop (check_thresholds).
THEOREM DeductionsEnforceHardStop == Spec => DeductionStopsProvider
<1>1. ASSUME Inv, [Next]_vars, NEW t \in Tasks,
             pc[t] = "flushed", pc'[t] = "done", row' # row,
             row'.balance < row'.hardStop
      PROVE  row'.status = "hard_stop"
  <2>1. TypeOK /\ Drafted(t) /\ TaskHolds(t) /\ t \in Writers /\ t \in Clients
            /\ t \notin Edits /\ t \notin Routers
    BY <1>1, ClientAssumption DEF Inv, RowHeld, Writers, Clients
  <2>2. row' = Merged(t)
    <3>1. ASSUME NEW u \in Clients, GoTo(u, "done") PROVE u = t
      BY <1>1, <2>1, <3>1 DEF GoTo, TypeOK
    <3>2. CASE \E u \in Tasks : TaskStep(u)
      <4>1. PICK u \in Tasks : TaskStep(u)
        BY <3>2
      <4>2. CommitDeduction(u)
        BY <1>1, <4>1 DEF TaskStep, LockProvider, Deduct, books
      <4>3. u = t
        BY <3>1, <4>2 DEF CommitDeduction, Commit, Clients, Writers
      <4>4. QED
        BY <4>2, <4>3 DEF CommitDeduction, Commit
    <3>3. CASE \E e \in Edits : EditStep(e)
      <4>1. PICK e \in Edits : EditStep(e)
        BY <3>3
      <4>2. CommitEdit(e)
        BY <1>1, <4>1 DEF EditStep, ReadRow, RefuseRelease, Flush, books
      <4>3. e = t
        BY <3>1, <4>2 DEF CommitEdit, Commit, Clients, Writers
      <4>4. QED
        BY <2>1, <4>3
    <3>4. CASE WarningHourEnds
      BY <1>1, <3>4 DEF WarningHourEnds
    <3>5. QED
      BY <1>1, <3>2, <3>3, <3>4
      DEF Next, vars, books, RouterStep, CacheMiss, FillCache, Rollback, Unserved, CacheExpires, Crash
  <2>3. row'.balance = draft[t].balance /\ row'.hardStop = draft[t].hardStop
            /\ row'.status = draft[t].status
    BY <1>1, <2>1, <2>2, TaskMerge
  <2>4. QED
    BY <1>1, <2>1, <2>3 DEF Drafted
<1>2. Inv /\ [Next]_vars =>
          [ \A t \in Tasks :
              (pc[t] = "flushed" /\ pc'[t] = "done" /\ row' # row) =>
                  (row'.balance < row'.hardStop => row'.status = "hard_stop") ]_vars
  BY <1>1
<1>3. QED
  BY <1>2, Invariance, PTL DEF Spec, DeductionStopsProvider

-------------------------------------------------------------------------------
(* Emails.  One is sent before the COMMIT that makes it the last of its      *)
(* kind, so the bounds are not inductive: the strengthening counts the       *)
(* emails of a row that still allows another one while no task has flushed.  *)

Failed == { t \in Tasks : pc[t] = "failed" }

\* What a transaction knows of the last warning: a task that read none still
\* has none in the row, and no edit writes that column.
WarningRead ==
    /\ \A t \in Tasks :
           /\ pc[t] \in {"locked", "flushed"} => (row.warned => snap[t].warned)
           /\ pc[t] = "flushed" => (snap[t].warned => draft[t].warned)
    /\ \A e \in Edits :
           pc[e] \in {"read", "flushed"} => draft[e].warned = snap[e].warned

StopsCounted ==
    /\ stops <= Cardinality(Failed) + 1
    /\ row.status # "hard_stop" /\ (\A t \in Tasks : pc[t] # "flushed") =>
           stops <= Cardinality(Failed)

WarningsCounted ==
    /\ warnings <= Cardinality(Failed) + 1
    /\ ~row.warned
       /\ (\A t \in Tasks : pc[t] = "flushed" => draft[t].warned = snap[t].warned) =>
           warnings <= Cardinality(Failed)

EmailInv == WarningRead /\ StopsCounted /\ WarningsCounted

\* The failed tasks can be counted, before and after a step.
LEMMA FailedIsFinite ==
    /\ IsFiniteSet(Failed) /\ Cardinality(Failed) \in Nat
    /\ IsFiniteSet(Failed') /\ Cardinality(Failed') \in Nat
<1>1. Failed \in SUBSET Tasks /\ Failed' \in SUBSET Tasks
  BY DEF Failed
<1>2. IsFiniteSet(Failed) /\ IsFiniteSet(Failed')
  BY <1>1, TaskAssumption, FS_Subset
<1>3. QED
  BY <1>2, FS_CardinalityType

\* Nobody sends an email, and whoever had sent one fails or has yet to commit.
LEMMA QuietStepsKeepCounts ==
    ASSUME TypeOK, StopsCounted, WarningsCounted, UNCHANGED <<stops, warnings>>,
           row'.status = row.status, row'.warned = row.warned,
           \A t \in Tasks : pc[t] = "failed" => pc'[t] = "failed",
           \A t \in Tasks : pc[t] = "flushed" =>
               \/ pc'[t] = "failed"
               \/ pc'[t] = "flushed" /\ draft'[t] = draft[t] /\ snap'[t] = snap[t]
    PROVE  StopsCounted' /\ WarningsCounted'
<1>1. /\ Cardinality(Failed) \in Nat /\ Cardinality(Failed') \in Nat
      /\ stops \in Nat /\ warnings \in Nat
  BY FailedIsFinite DEF TypeOK
<1>2. Failed \in SUBSET Failed'
  BY DEF Failed
<1>3. Cardinality(Failed) <= Cardinality(Failed')
  BY <1>2, FailedIsFinite, FS_Subset
<1>4. CASE \E t \in Tasks : pc[t] = "flushed" /\ pc'[t] = "failed"
  <2>1. PICK t \in Tasks : pc[t] = "flushed" /\ pc'[t] = "failed"
    BY <1>4
  <2>2. t \notin Failed /\ Failed \cup {t} \in SUBSET Failed'
    BY <1>2, <2>1 DEF Failed
  <2>3. IsFiniteSet(Failed \cup {t}) /\ Cardinality(Failed \cup {t}) = Cardinality(Failed) + 1
    BY <2>2, FailedIsFinite, FS_AddElement
  <2>4. Cardinality(Failed) + 1 <= Cardinality(Failed')
    BY <2>2, <2>3, FailedIsFinite, FS_Subset
  <2>5. QED
    BY <1>1, <2>4 DEF StopsCounted, WarningsCounted
<1>5. CASE \A t \in Tasks : pc[t] = "flushed" =>
               pc'[t] = "flushed" /\ draft'[t] = draft[t] /\ snap'[t] = snap[t]
  BY <1>1, <1>3, <1>5 DEF StopsCounted, WarningsCounted
<1>6. QED
  BY <1>4, <1>5

\* The steps of a background task.
LEMMA TaskKeepsEmails ==
    ASSUME Inv, EmailInv, NEW t \in Tasks, TaskStep(t)
    PROVE  EmailInv'
<1>1. /\ TypeOK /\ RowHeld /\ WarningRead /\ StopsCounted /\ WarningsCounted
      /\ t \in Writers /\ t \in Clients /\ Tasks \subseteq Clients /\ t \notin Edits
      /\ Edits \subseteq Writers /\ Tasks \subseteq Writers /\ Edits \subseteq Clients
  BY ClientAssumption DEF Inv, EmailInv, Writers, Clients
<1>2. \A x \in Tasks : lock = None \/ (pc[t] \in {"locked", "flushed"} /\ x # t) =>
          pc[x] \notin {"locked", "flushed"}
  BY <1>1, ClientAssumption DEF RowHeld, TaskHolds
<1>3. /\ stops \in Nat /\ warnings \in Nat /\ row \in Rows
      /\ pc \in [Clients -> {"idle", "locked", "read", "flushed", "loaded", "done", "failed"}]
      /\ snap \in [Clients -> Rows] /\ draft \in [Writers -> Rows]
      /\ Cardinality(Failed) \in Nat
  BY <1>1, FailedIsFinite DEF TypeOK
<1>4. CASE LockProvider(t)
  <2>1. /\ pc[t] = "idle" /\ lock = None
        /\ snap' = [snap EXCEPT ![t] = row] /\ draft' = [draft EXCEPT ![t] = row]
        /\ pc' = [pc EXCEPT ![t] = "locked"] /\ UNCHANGED <<row, stops, warnings>>
    BY <1>4 DEF LockProvider, Acquire, CanLock, GoTo, books, emails
  <2>2. WarningRead'
    <3>1. \A x \in Tasks : x # t => pc'[x] \notin {"locked", "flushed"}
      BY <1>1, <1>2, <1>3, <2>1
    <3>2. pc'[t] = "locked" /\ snap'[t] = row'
      BY <1>1, <1>3, <2>1
    <3>3. \A e \in Edits : pc'[e] = pc[e] /\ draft'[e] = draft[e] /\ snap'[e] = snap[e]
      BY <1>1, <1>3, <2>1
    <3>4. QED
      BY <1>1, <3>1, <3>2, <3>3 DEF WarningRead
  <2>3. \A x \in Tasks : x # t => pc'[x] = pc[x] /\ draft'[x] = draft[x] /\ snap'[x] = snap[x]
    BY <1>1, <1>3, <2>1
  <2>4. QED
    BY <1>1, <2>1, <2>2, <2>3, QuietStepsKeepCounts DEF EmailInv
<1>5. CASE Deduct(t)
  <2>1. PICK cost \in Costs :
            LET p == [draft[t] EXCEPT !.balance = @ - cost]
            IN  /\ draft'    = [draft EXCEPT ![t] = CheckThresholds(p)]
                /\ warnings' = IF WarningDue(p) THEN warnings + 1 ELSE warnings
                /\ stops'    = IF StopDue(p) THEN stops + 1 ELSE stops
    BY <1>5 DEF Deduct
  <2> DEFINE p == [draft[t] EXCEPT !.balance = @ - cost]
  <2>2. /\ pc[t] = "locked" /\ pc' = [pc EXCEPT ![t] = "flushed"]
        /\ UNCHANGED <<row, snap>>
    BY <1>5 DEF Deduct, GoTo, books
  <2>3. /\ draft[t] \in Rows /\ draft[t] = snap[t] /\ row.status = snap[t].status
        /\ row.warned => snap[t].warned
    BY <1>1, <1>3, <2>2 DEF RowHeld, Drafted, TaskHolds, WarningRead
  <2>4. p.status = snap[t].status /\ p.warned = snap[t].warned
    BY <2>3 DEF Rows
  <2>5. draft'[t].warned = (p.warned \/ WarningDue(p))
    <3>1. draft'[t] = CheckThresholds(p) /\ p \in Rows
      BY <1>1, <1>3, <2>1, <2>3, DeductedIsRow
    <3>2. QED
      BY <3>1 DEF CheckThresholds, Rows
  <2>6. /\ warnings' = IF WarningDue(p) THEN warnings + 1 ELSE warnings
        /\ stops' = IF StopDue(p) THEN stops + 1 ELSE stops
    BY <2>1
  <2>7. /\ WarningDue(p) => ~p.warned
        /\ StopDue(p) => p.status # "hard_stop"
    BY DEF WarningDue, StopDue
  <2> HIDE DEF p
  <2>8. /\ pc'[t] = "flushed"
        /\ \A x \in Tasks : x # t =>
               pc'[x] = pc[x] /\ pc[x] \notin {"locked", "flushed"}
        /\ \A e \in Edits : pc'[e] = pc[e] /\ draft'[e] = draft[e]
    BY <1>1, <1>2, <1>3, <2>1, <2>2
  <2>9. Failed' = Failed
    BY <2>2, <2>8 DEF Failed
  <2>10. WarningRead'
    BY <1>1, <2>2, <2>3, <2>4, <2>5, <2>8 DEF WarningRead
  <2>11. StopsCounted'
    <3>1. StopDue(p) => stops <= Cardinality(Failed)
      BY <1>1, <2>2, <2>3, <2>4, <2>7, <2>8 DEF StopsCounted
    <3>2. QED
      BY <1>1, <1>3, <2>6, <2>8, <2>9, <3>1 DEF StopsCounted
  <2>12. WarningsCounted'
    <3>1. \A x \in Tasks : pc[x] # "flushed"
      BY <2>2, <2>8
    <3>2. CASE WarningDue(p)
      <4>1. ~row.warned /\ draft'[t].warned /\ ~snap'[t].warned
        BY <2>2, <2>3, <2>4, <2>5, <2>7, <3>2
      <4>2. warnings <= Cardinality(Failed)
        BY <1>1, <3>1, <4>1 DEF WarningsCounted
      <4>3. warnings' <= Cardinality(Failed') + 1
        BY <1>3, <2>6, <2>9, <3>2, <4>2
      <4>4. QED
        BY <2>8, <4>1, <4>3 DEF WarningsCounted
    <3>3. CASE ~WarningDue(p)
      BY <1>1, <2>2, <2>6, <2>9, <3>1, <3>3 DEF WarningsCounted
    <3>4. QED
      BY <3>2, <3>3
  <2>13. QED
    BY <2>10, <2>11, <2>12 DEF EmailInv
<1>6. CASE CommitDeduction(t)
  <2>1. /\ pc[t] = "flushed" /\ pc' = [pc EXCEPT ![t] = "done"]
        /\ row' = Merged(t) /\ stops' = IF row'.status = "hard_stop" THEN stops ELSE 0
        /\ UNCHANGED <<warnings, snap, draft>>
    BY <1>6 DEF CommitDeduction, Commit, GoTo
  <2>2. /\ \A x \in Tasks : pc'[x] \notin {"locked", "flushed"}
        /\ \A x \in Tasks : x # t => pc'[x] = pc[x] /\ pc[x] # "flushed"
        /\ pc'[t] = "done"
        /\ \A e \in Edits : pc'[e] = pc[e]
    BY <1>1, <1>2, <1>3, <2>1
  <2>3. Failed' = Failed
    BY <2>1, <2>2 DEF Failed
  <2>4. row'.warned = IF draft[t].warned = snap[t].warned THEN row.warned ELSE draft[t].warned
    BY <2>1 DEF Merged, Merge
  <2>5. WarningRead'
    BY <1>1, <2>1, <2>2 DEF WarningRead
  <2>6. StopsCounted'
    BY <1>1, <1>3, <2>1, <2>3 DEF StopsCounted
  <2>7. WarningsCounted'
    <3>1. snap[t].warned => draft[t].warned
      BY <1>1, <2>1 DEF WarningRead
    <3>2. draft[t].warned \in BOOLEAN /\ snap[t].warned \in BOOLEAN
      BY <1>1, <1>3 DEF Rows
    <3>3. ~row'.warned => ~row.warned /\ draft[t].warned = snap[t].warned
      BY <2>4, <3>1, <3>2
    <3>4. ~row'.warned => warnings <= Cardinality(Failed)
      BY <1>1, <2>2, <3>3 DEF WarningsCounted
    <3>5. QED
      BY <1>1, <2>1, <2>3, <3>4 DEF WarningsCounted
  <2>8. QED
    BY <2>5, <2>6, <2>7 DEF EmailInv
<1>7. QED
  BY <1>4, <1>5, <1>6 DEF TaskStep

\* What an edit writes leaves the time of the last warning alone.
LEMMA AssignedWarned ==
    ASSUME TypeOK, NEW e \in Edits, Assignments(e)
    PROVE  \E p \in Rows : Assign(e, p) /\ p.warned = row.warned
<1>1. row \in Rows /\ Balances \subseteq Int /\ Thresholds \subseteq Nat
  BY RowAssumption DEF TypeOK
<1>2. \A b \in Balances :
          LET p == [row EXCEPT !.balance = b] IN p \in Rows /\ p.warned = row.warned
  BY <1>1 DEF Rows
<1>3. \A w \in Thresholds, h \in Thresholds :
          LET p == [row EXCEPT !.warning = w, !.hardStop = h]
          IN  p \in Rows /\ p.warned = row.warned
  BY <1>1 DEF Rows
<1>4. LET p == [row EXCEPT !.status = IF row.balance < row.warning THEN "warning" ELSE "normal"]
      IN  p \in Rows /\ p.warned = row.warned
  BY <1>1 DEF Rows, Statuses
<1>5. QED
  BY <1>2, <1>3, <1>4 DEF Assignments

\* The steps of an admin endpoint.
LEMMA EditKeepsEmails ==
    ASSUME Inv, EmailInv, NEW e \in Edits, EditStep(e)
    PROVE  EmailInv'
<1>1. /\ TypeOK /\ RowHeld /\ WarningRead /\ StopsCounted /\ WarningsCounted
      /\ e \in Writers /\ e \in Clients /\ e \notin Tasks
      /\ Edits \subseteq Writers /\ Tasks \subseteq Writers
      /\ Edits \subseteq Clients /\ Tasks \subseteq Clients
  BY ClientAssumption DEF Inv, EmailInv, Writers, Clients
<1>2. /\ stops \in Nat /\ warnings \in Nat /\ row \in Rows
      /\ pc \in [Clients -> {"idle", "locked", "read", "flushed", "loaded", "done", "failed"}]
      /\ snap \in [Clients -> Rows] /\ draft \in [Writers -> Rows]
      /\ Cardinality(Failed) \in Nat
  BY <1>1, FailedIsFinite DEF TypeOK
<1>3. ASSUME NEW s, pc' = [pc EXCEPT ![e] = s],
             draft' = [draft EXCEPT ![e] = draft'[e]],
             snap' = [snap EXCEPT ![e] = snap'[e]],
             s \in {"read", "flushed"} => draft'[e].warned = snap'[e].warned,
             row'.warned = row.warned
      PROVE  /\ WarningRead'
             /\ \A t \in Tasks : pc'[t] = pc[t] /\ draft'[t] = draft[t] /\ snap'[t] = snap[t]
  <2>1. \A t \in Tasks : pc'[t] = pc[t] /\ draft'[t] = draft[t] /\ snap'[t] = snap[t]
    BY <1>1, <1>2, <1>3
  <2>2. \A f \in Edits :
            f # e => pc'[f] = pc[f] /\ draft'[f] = draft[f] /\ snap'[f] = snap[f]
    BY <1>1, <1>2, <1>3
  <2>3. pc'[e] = s
    BY <1>1, <1>2, <1>3
  <2>4. QED
    BY <1>1, <1>3, <2>1, <2>2, <2>3 DEF WarningRead
<1>4. CASE ReadRow(e)
  <2>1. PICK p \in Rows : draft' = [draft EXCEPT ![e] = p] /\ p.warned = row.warned
    BY <1>1, <1>4, AssignedWarned DEF ReadRow, Assign
  <2>2. /\ pc' = [pc EXCEPT ![e] = "read"] /\ snap' = [snap EXCEPT ![e] = row]
        /\ UNCHANGED <<row, stops, warnings>>
    BY <1>4 DEF ReadRow, GoTo, books, emails
  <2>3. draft'[e] = p /\ snap'[e] = row
    BY <1>1, <1>2, <2>1, <2>2
  <2>4. QED
    BY <1>1, <1>3, <2>1, <2>2, <2>3, QuietStepsKeepCounts DEF EmailInv
<1>5. CASE RefuseRelease(e) \/ Flush(e)
  <2>1. /\ \/ pc' = [pc EXCEPT ![e] = "done"]
           \/ (pc' = [pc EXCEPT ![e] = "flushed"] /\ pc[e] = "read")
        /\ UNCHANGED <<row, stops, warnings, snap, draft>>
    BY <1>5 DEF RefuseRelease, Flush, GoTo, books, emails
  <2>2. draft' = [draft EXCEPT ![e] = draft'[e]] /\ snap' = [snap EXCEPT ![e] = snap'[e]]
    BY <1>2, <2>1
  <2>3. pc[e] = "read" => draft'[e].warned = snap'[e].warned
    BY <1>1, <2>1 DEF WarningRead
  <2>4. QED
    BY <1>1, <1>3, <2>1, <2>2, <2>3, QuietStepsKeepCounts DEF EmailInv
<1>6. CASE CommitEdit(e)
  <2>1. /\ pc[e] = "flushed" /\ pc' = [pc EXCEPT ![e] = "done"]
        /\ row' = Merged(e) /\ stops' = IF row'.status = "hard_stop" THEN stops ELSE 0
        /\ UNCHANGED <<warnings, snap, draft>>
    BY <1>6 DEF CommitEdit, Commit, GoTo
  <2>2. draft' = [draft EXCEPT ![e] = draft'[e]] /\ snap' = [snap EXCEPT ![e] = snap'[e]]
    BY <1>2, <2>1
  <2>3. row'.warned = row.warned
    BY <1>1, <2>1 DEF Merged, Merge, WarningRead
  <2>4. /\ WarningRead'
        /\ \A t \in Tasks : pc'[t] = pc[t] /\ draft'[t] = draft[t] /\ snap'[t] = snap[t]
    BY <1>3, <2>1, <2>2, <2>3
  <2>5. Failed' = Failed
    BY <2>4 DEF Failed
  <2>6. StopsCounted'
    BY <1>1, <1>2, <2>1, <2>5 DEF StopsCounted
  <2>7. WarningsCounted'
    BY <1>1, <2>1, <2>3, <2>4, <2>5 DEF WarningsCounted
  <2>8. QED
    BY <2>4, <2>6, <2>7 DEF EmailInv
<1>7. QED
  BY <1>4, <1>5, <1>6 DEF EditStep

\* The gateway, time and the faults.
LEMMA OthersKeepEmails ==
    ASSUME Inv, EmailInv,
           \/ \E r \in Routers : RouterStep(r)
           \/ \E w \in Writers : Rollback(w) \/ Unserved(w)
           \/ CacheExpires \/ WarningHourEnds \/ Crash
           \/ UNCHANGED vars
    PROVE  EmailInv'
<1>1. /\ TypeOK /\ WarningRead /\ StopsCounted /\ WarningsCounted
      /\ Edits \subseteq Writers /\ Tasks \subseteq Writers
      /\ Writers \subseteq Clients /\ Writers \cap Routers = {}
  BY ClientAssumption DEF Inv, EmailInv, Writers, Clients
<1>2. /\ row \in Rows /\ stops \in Nat /\ Cardinality(Failed) \in Nat
      /\ pc \in [Clients -> {"idle", "locked", "read", "flushed", "loaded", "done", "failed"}]
      /\ snap \in [Clients -> Rows] /\ draft \in [Writers -> Rows]
  BY <1>1, FailedIsFinite DEF TypeOK
<1>3. ASSUME UNCHANGED <<row, stops, warnings, draft>>,
             \A w \in Writers : snap'[w] = snap[w],
             \A w \in Writers : pc'[w] = pc[w] \/ pc'[w] = "failed"
      PROVE  EmailInv'
  <2>1. WarningRead'
    BY <1>1, <1>3 DEF WarningRead
  <2>2. StopsCounted' /\ WarningsCounted'
    BY <1>1, <1>3, QuietStepsKeepCounts
  <2>3. QED
    BY <2>1, <2>2 DEF EmailInv
<1>4. ASSUME NEW r \in Routers, RouterStep(r) PROVE EmailInv'
  <2>1. /\ UNCHANGED <<row, stops, warnings, draft>>
        /\ snap' = [snap EXCEPT ![r] = row] \/ snap' = snap
        /\ pc' = [pc EXCEPT ![r] = "loaded"] \/ pc' = [pc EXCEPT ![r] = "idle"]
    BY <1>4 DEF RouterStep, CacheMiss, FillCache, GoTo, books, emails
  <2>2. \A w \in Writers : pc'[w] = pc[w] /\ snap'[w] = snap[w]
    BY <1>1, <1>2, <2>1
  <2>3. QED
    BY <1>3, <2>1, <2>2
<1>5. ASSUME NEW w \in Writers, Rollback(w) \/ Unserved(w) PROVE EmailInv'
  <2>1. UNCHANGED <<row, stops, warnings, draft, snap>> /\ pc' = [pc EXCEPT ![w] = "failed"]
    BY <1>5 DEF Rollback, Unserved, GoTo, books, emails
  <2>2. \A x \in Writers : pc'[x] = pc[x] \/ pc'[x] = "failed"
    BY <1>1, <1>2, <2>1
  <2>3. QED
    BY <1>3, <2>1, <2>2
<1>6. CASE Crash
  <2>1. /\ UNCHANGED <<row, stops, warnings, draft, snap>>
        /\ pc' = [c \in Clients |->
                     CASE c \in Routers -> "idle"
                       [] pc[c] \in Resting -> pc[c]
                       [] OTHER -> "failed"]
    BY <1>6 DEF Crash, books, emails
  <2>2. \A w \in Writers : pc'[w] = pc[w] \/ pc'[w] = "failed"
    BY <1>1, <2>1
  <2>3. QED
    BY <1>3, <2>1, <2>2
<1>7. CASE CacheExpires \/ UNCHANGED vars
  BY <1>3, <1>7 DEF CacheExpires, vars, books, emails
<1>8. CASE WarningHourEnds
  <2>1. /\ row' = [row EXCEPT !.warned = FALSE] /\ warnings' = 0
        /\ UNCHANGED <<stops, pc, snap, draft>>
    BY <1>8 DEF WarningHourEnds
  <2>2. ~row'.warned /\ row'.status = row.status
    BY <1>2, <2>1 DEF Rows
  <2>3. Failed' = Failed
    BY <2>1 DEF Failed
  <2>4. QED
    BY <1>1, <1>2, <2>1, <2>2, <2>3 DEF EmailInv, WarningRead, StopsCounted, WarningsCounted
<1>9. QED
  BY <1>4, <1>5, <1>6, <1>7, <1>8

LEMMA EmailInvInit == Init => EmailInv
<1>1. SUFFICES ASSUME Init PROVE EmailInv
  OBVIOUS
<1>2. \A w \in Writers : pc[w] = "idle"
  BY <1>1 DEF Init, Clients
<1>3. stops = 0 /\ warnings = 0 /\ Cardinality(Failed) \in Nat
  BY <1>1, FailedIsFinite DEF Init
<1>4. QED
  BY <1>2, <1>3 DEF EmailInv, WarningRead, StopsCounted, WarningsCounted, Writers

\* Administrators get one email for a hard stop and one warning an hour, and
\* one more at most for each task that failed after sending it
\* (check_thresholds), however tasks, edits and time interleave.
THEOREM OneEmailUnlessFailed == Spec => []OneEmailPerEvent
<1>1. Inv /\ EmailInv /\ [Next]_vars => EmailInv'
  BY TaskKeepsEmails, EditKeepsEmails, OthersKeepEmails DEF Next
<1>2. Inv /\ EmailInv => OneEmailPerEvent
  <2>1. SUFFICES ASSUME Inv, EmailInv
                 PROVE  /\ stops <= 1 + Cardinality(Failed)
                        /\ warnings <= 1 + Cardinality(Failed)
    BY DEF OneEmailPerEvent, Failed
  <2>2. stops \in Nat /\ warnings \in Nat /\ Cardinality(Failed) \in Nat
    BY <2>1, FailedIsFinite DEF Inv, TypeOK
  <2>3. QED
    BY <2>1, <2>2 DEF EmailInv, StopsCounted, WarningsCounted
<1>3. QED
  BY <1>1, <1>2, EmailInvInit, Invariance, PTL DEF Spec

-------------------------------------------------------------------------------
(* What the gateway sees of a hard stop.                                    *)

\* The copy of the row, and every lookup about to store one, has the hard stop.
StopSeen ==
    /\ cache # None => cache.status = "hard_stop"
    /\ \A r \in Routers : pc[r] = "loaded" => snap[r].status = "hard_stop"

\* While the provider stays in hard stop, a lookup that once came after it is
\* never followed by one that came before: no copy of an older row comes back
\* to be routed by, although lookups keep what they read over an await.
THEOREM HardStopStaysSeen ==
    Spec => [][row.status = "hard_stop" /\ StopSeen => StopSeen']_vars
<1>1. ASSUME Inv, [Next]_vars, row.status = "hard_stop", StopSeen PROVE StopSeen'
  <2>1. /\ pc   = [c \in Clients |-> pc[c]]
        /\ snap = [c \in Clients |-> snap[c]]
        /\ Routers \subseteq Clients /\ Writers \subseteq Clients
        /\ Writers \cap Routers = {} /\ Tasks \cup Edits = Writers
    BY <1>1, ClientAssumption DEF Inv, TypeOK, Clients, Writers
  <2>2. ASSUME NEW w \in Writers, cache' \in {None, cache},
               \E s : GoTo(w, s),
               snap' = snap \/ \E p : snap' = [snap EXCEPT ![w] = p]
        PROVE  StopSeen'
    BY <1>1, <2>1, <2>2 DEF StopSeen, GoTo
  <2>3. ASSUME NEW t \in Tasks, TaskStep(t) PROVE StopSeen'
    <3>1. cache' \in {None, cache} /\ (\E s : GoTo(t, s))
          /\ (snap' = snap \/ \E p : snap' = [snap EXCEPT ![t] = p])
      BY <2>3 DEF TaskStep, LockProvider, Deduct, CommitDeduction, Commit, Invalidate
    <3>2. QED
      BY <2>1, <2>2, <3>1
  <2>4. ASSUME NEW e \in Edits, EditStep(e) PROVE StopSeen'
    <3>1. cache' \in {None, cache} /\ (\E s : GoTo(e, s))
          /\ (snap' = snap \/ \E p : snap' = [snap EXCEPT ![e] = p])
      BY <2>4 DEF EditStep, ReadRow, RefuseRelease, Flush, CommitEdit, Commit, Invalidate
    <3>2. QED
      BY <2>1, <2>2, <3>1
  <2>5. ASSUME NEW r \in Routers, RouterStep(r) PROVE StopSeen'
    <3>1. CASE CacheMiss(r)
      BY <1>1, <2>1, <3>1 DEF CacheMiss, StopSeen, GoTo
    <3>2. CASE FillCache(r)
      BY <1>1, <2>1, <3>2 DEF FillCache, StopSeen, GoTo
    <3>3. QED
      BY <2>5, <3>1, <3>2 DEF RouterStep
  <2>6. ASSUME NEW w \in Writers, Rollback(w) \/ Unserved(w) PROVE StopSeen'
    BY <2>2, <2>6 DEF Rollback, Unserved
  <2>7. CASE Crash
    BY <1>1, <2>1, <2>7 DEF Crash, StopSeen
  <2>8. CASE CacheExpires \/ WarningHourEnds \/ UNCHANGED vars
    BY <1>1, <2>8 DEF CacheExpires, WarningHourEnds, StopSeen, vars
  <2>9. QED
    BY <1>1, <2>3, <2>4, <2>5, <2>6, <2>7, <2>8 DEF Next
<1>2. Inv /\ [Next]_vars => [row.status = "hard_stop" /\ StopSeen => StopSeen']_vars
  BY <1>1
<1>3. QED
  BY <1>2, Invariance, PTL DEF Spec
===============================================================================
