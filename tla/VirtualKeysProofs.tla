--------------------------- MODULE VirtualKeysProofs ---------------------------
(***************************************************************************)
(* Theorems about VirtualKeys, for every set of keys, revocations and      *)
(* requests, and whatever fails.                                           *)
(***************************************************************************)
EXTENDS VirtualKeys, FiniteSetTheorems, TLAPS

Places ==
    {"idle", "counted", "refused", "created", "read", "flushed", "revoked", "failed",
     "rejected", "hit", "miss", "loaded", "accepted", "touching", "touched", "done"}

TypeOK ==
    /\ row     \in [Keys -> Rows]
    /\ cache   \in [Keys -> BOOLEAN \cup {None}]
    /\ pc      \in [Clients -> Places]
    /\ snap    \in [Clients -> Rows]
    /\ late    \in SUBSET Requests
    /\ counted \in SUBSET Requests
    /\ raced   \in SUBSET Keys

\* A key has no row until it is inserted, and nobody deals with it before.
Lifecycle ==
    /\ \A k \in Keys \ Existing : pc[k] \in {"idle", "counted"} => row[k] = NewRow("absent")
    /\ \A k \in Keys : pc[k] = "counted" => k \notin Existing
    /\ \A c \in Revocations \cup Requests :
          pc[c] # "idle" => row[KeyOf[c]].status # "absent"

\* What says that a key is revoked says so because its row does.
OnlyRevokedRefused ==
    /\ \A k \in Keys : cache[k] = FALSE => row[k].status = "revoked"
    /\ \A a \in Requests :
          /\ pc[a] = "rejected" => row[KeyOf[a]].status = "revoked"
          /\ pc[a] = "loaded" =>
                \/ snap[a].status = "active"
                \/ snap[a].status = "revoked" /\ row[KeyOf[a]].status = "revoked"

\* A request that came late sees a revoked row wherever it looks.
LateSeesRevoked ==
    \A a \in late :
        /\ row[KeyOf[a]].status = "revoked"
        /\ pc[a] \in {"hit", "miss", "loaded", "rejected"}
        /\ pc[a] = "loaded" => snap[a].status = "revoked"

\* A request is counted once.
CountedOnce ==
    /\ IsFiniteSet(counted)
    /\ \A a \in counted : pc[a] = "done"

UsersOf(k) == { a \in counted : KeyOf[a] = k }

-------------------------------------------------------------------------------
(* Types, and what an UPDATE writes.                                       *)

\* The task that touches a row leaves status and counter as they are.
LEMMA TouchWrites ==
    ASSUME TypeOK, NEW k \in Keys, NEW read \in Rows
    PROVE  LET new == Written(k, read, [read EXCEPT !.touched = TRUE])
           IN  new \in Rows /\ new.status = row[k].status /\ new.total = row[k].total
BY DEF Written, Rows, TypeOK

\* A revocation leaves the counter as it is, and the row revoked.
LEMMA RevocationWrites ==
    ASSUME TypeOK, NEW k \in Keys, NEW read \in Rows, read.status = "active"
    PROVE  LET new == Written(k, read, [read EXCEPT !.status = "revoked"])
           IN  new \in Rows /\ new.status = "revoked" /\ new.total = row[k].total
BY DEF Written, Rows, TypeOK

LEMMA TypeInit == Init => TypeOK
BY DEF Init, TypeOK, NewRow, Rows, Places

\* A revocation under way has read an active row.
ReadActive ==
    \A v \in Revocations : pc[v] \in {"read", "flushed"} => snap[v].status = "active"

LEMMA TypeStep == TypeOK /\ ReadActive /\ [Next]_vars => TypeOK'
<1> SUFFICES ASSUME TypeOK, ReadActive, [Next]_vars PROVE TypeOK'
  OBVIOUS
<1> USE KeyAssumption DEF TypeOK, Clients, GoTo, Places
<1>1. ASSUME NEW k \in Keys, CreateStep(k) \/ CacheExpires(k) PROVE TypeOK'
  <2>1. CASE CountKeys(k) \/ RollBackCreation(k)
    BY <1>1, <2>1 DEF CountKeys, Pending, RollBackCreation
  <2>2. CASE InsertKey(k)
    BY <1>1, <2>2 DEF InsertKey, NewRow, Rows
  <2>3. CASE CacheExpires(k)
    BY <1>1, <2>3 DEF CacheExpires
  <2>4. QED
    BY <1>1, <2>1, <2>2, <2>3 DEF CreateStep
<1>2. ASSUME NEW v \in Revocations, RevokeStep(v) PROVE TypeOK'
  <2>1. CASE ReadKey(v)
    BY <1>2, <2>1 DEF ReadKey
  <2>2. CASE FlushRevocation(v)
    BY <1>2, <2>2 DEF FlushRevocation, Invalidate
  <2>3. CASE CommitRevocation(v)
    BY <1>2, <2>3, RevocationWrites DEF CommitRevocation, ReadActive
  <2>4. CASE RollBackRevocation(v)
    BY <1>2, <2>4 DEF RollBackRevocation
  <2>5. QED
    BY <1>2, <2>1, <2>2, <2>3, <2>4 DEF RevokeStep
<1>3. ASSUME NEW a \in Requests, RequestStep(a) PROVE TypeOK'
  <2>1. CASE LookUpCache(a)
    BY <1>3, <2>1 DEF LookUpCache
  <2>2. CASE SelectOnHit(a) \/ SelectOnMiss(a)
    BY <1>3, <2>2 DEF SelectOnHit, SelectOnMiss, Admit
  <2>3. CASE FillCache(a)
    BY <1>3, <2>3 DEF FillCache, Admit
  <2>4. CASE ReadForTouch(a)
    BY <1>3, <2>4 DEF ReadForTouch
  <2>5. CASE Touch(a)
    BY <1>3, <2>5, TouchWrites DEF Touch
  <2>6. CASE CountUsage(a)
    BY <1>3, <2>6 DEF CountUsage, Rows
  <2>7. QED
    BY <1>3, <2>1, <2>2, <2>3, <2>4, <2>5, <2>6 DEF RequestStep
<1>4. CASE UNCHANGED vars
  BY <1>4 DEF vars
<1>5. QED
  BY <1>1, <1>2, <1>3, <1>4 DEF Next

LEMMA ReadActiveStep == TypeOK /\ ReadActive /\ [Next]_vars => ReadActive'
<1> SUFFICES ASSUME TypeOK, ReadActive, [Next]_vars, NEW v \in Revocations
             PROVE  pc'[v] \in {"read", "flushed"} => snap'[v].status = "active"
  BY DEF ReadActive
<1> USE KeyAssumption DEF TypeOK, Clients, GoTo, ReadActive
<1>1. ASSUME NEW k \in Keys, CreateStep(k) \/ CacheExpires(k)
      PROVE  pc'[v] \in {"read", "flushed"} => snap'[v].status = "active"
  BY <1>1 DEF CreateStep, CountKeys, InsertKey, RollBackCreation, CacheExpires
<1>2. ASSUME NEW u \in Revocations, RevokeStep(u)
      PROVE  pc'[v] \in {"read", "flushed"} => snap'[v].status = "active"
  BY <1>2 DEF RevokeStep, ReadKey, FlushRevocation, CommitRevocation, RollBackRevocation
<1>3. ASSUME NEW a \in Requests, RequestStep(a)
      PROVE  pc'[v] \in {"read", "flushed"} => snap'[v].status = "active"
  BY <1>3 DEF RequestStep, LookUpCache, SelectOnHit, SelectOnMiss, FillCache, ReadForTouch,
     Touch, CountUsage, Admit
<1>4. CASE UNCHANGED vars
  BY <1>4 DEF vars
<1>5. QED
  BY <1>1, <1>2, <1>3, <1>4 DEF Next

-------------------------------------------------------------------------------
(* The life of a key: absent, active, revoked, and never back.             *)

Base == TypeOK /\ ReadActive /\ Lifecycle

\* Nothing but its insertion changes the status of an absent key, and nothing
\* changes that of a revoked one.
LEMMA StatusStep ==
    ASSUME Base, [Next]_vars, NEW k \in Keys
    PROVE  /\ row[k].status = "revoked" => row'[k].status = "revoked"
           /\ row[k].status # "absent" => row'[k].status # "absent"
           /\ row[k].status = "absent" => row'[k] = row[k] \/ InsertKey(k)
<1> USE KeyAssumption DEF Base, TypeOK, Clients, Lifecycle, NewRow
<1> DEFINE Goal == /\ row[k].status = "revoked" => row'[k].status = "revoked"
                   /\ row[k].status # "absent" => row'[k].status # "absent"
                   /\ row[k].status = "absent" => row'[k] = row[k] \/ InsertKey(k)
<1>1. ASSUME NEW i \in Keys, CreateStep(i) \/ CacheExpires(i) PROVE Goal
  BY <1>1 DEF CreateStep, CountKeys, InsertKey, RollBackCreation, CacheExpires
<1>2. ASSUME NEW v \in Revocations, RevokeStep(v) PROVE Goal
  <2>1. CASE CommitRevocation(v)
    BY <1>2, <2>1, RevocationWrites DEF CommitRevocation, ReadActive
  <2>2. CASE UNCHANGED row
    BY <1>2, <2>2
  <2>3. QED
    BY <1>2, <2>1, <2>2 DEF RevokeStep, ReadKey, FlushRevocation, RollBackRevocation
<1>3. ASSUME NEW a \in Requests, RequestStep(a) PROVE Goal
  <2>1. CASE Touch(a)
    BY <1>3, <2>1, TouchWrites DEF Touch
  <2>2. CASE CountUsage(a)
    BY <1>3, <2>2 DEF CountUsage, Rows
  <2>3. CASE UNCHANGED row
    BY <1>3, <2>3
  <2>4. QED
    BY <1>3, <2>1, <2>2, <2>3 DEF RequestStep, LookUpCache, SelectOnHit, SelectOnMiss, FillCache,
       ReadForTouch
<1>4. CASE UNCHANGED vars
  BY <1>4 DEF vars
<1>5. QED
  BY <1>1, <1>2, <1>3, <1>4 DEF Next

LEMMA LifecycleStep == Base /\ [Next]_vars => Lifecycle'
<1> SUFFICES ASSUME Base, [Next]_vars PROVE Lifecycle'
  OBVIOUS
<1>1. ASSUME NEW k \in Keys \ Existing, pc'[k] \in {"idle", "counted"}
      PROVE  row'[k] = NewRow("absent")
  <2>1. pc[k] \in {"idle", "counted"} /\ ~InsertKey(k)
    <3> DEFINE Earlier == pc[k] \in {"idle", "counted"} /\ ~InsertKey(k)
    <3> USE <1>1, KeyAssumption DEF Base, TypeOK, Clients, GoTo, InsertKey
    <3>1. ASSUME NEW i \in Keys, CreateStep(i) \/ CacheExpires(i) PROVE Earlier
      BY <3>1 DEF CreateStep, CountKeys, RollBackCreation, CacheExpires
    <3>2. ASSUME NEW v \in Revocations, RevokeStep(v) PROVE Earlier
      BY <3>2 DEF RevokeStep, ReadKey, FlushRevocation, CommitRevocation, RollBackRevocation
    <3>3. ASSUME NEW a \in Requests, RequestStep(a) PROVE Earlier
      BY <3>3 DEF RequestStep, LookUpCache, SelectOnHit, SelectOnMiss, FillCache, ReadForTouch,
         Touch, CountUsage, Admit
    <3>4. QED
      BY <3>1, <3>2, <3>3 DEF Next, vars
  <2>2. row[k] = NewRow("absent")
    BY <1>1, <2>1 DEF Base, Lifecycle
  <2>3. QED
    BY <2>1, <2>2, StatusStep DEF NewRow
<1>2. ASSUME NEW k \in Keys, pc'[k] = "counted" PROVE k \notin Existing
  BY <1>2, KeyAssumption DEF Base, Lifecycle, TypeOK, Clients, GoTo, Next, vars, CreateStep,
     CountKeys, InsertKey, RollBackCreation, CacheExpires, RevokeStep, ReadKey, FlushRevocation, CommitRevocation,
     RollBackRevocation, RequestStep, LookUpCache, SelectOnHit, SelectOnMiss, FillCache,
     ReadForTouch, Touch, CountUsage, Admit
<1>3. ASSUME NEW c \in Revocations \cup Requests, pc'[c] # "idle"
      PROVE  row'[KeyOf[c]].status # "absent"
  <2>1. KeyOf[c] \in Keys
    BY KeyAssumption
  <2>2. row[KeyOf[c]].status # "absent"
    <3> USE <1>3, KeyAssumption DEF Base, Lifecycle, TypeOK, Clients, GoTo
    <3>1. ASSUME NEW k \in Keys, CreateStep(k) \/ CacheExpires(k)
          PROVE  row[KeyOf[c]].status # "absent"
      BY <3>1 DEF CreateStep, CountKeys, InsertKey, RollBackCreation, CacheExpires
    <3>2. ASSUME NEW v \in Revocations, RevokeStep(v)
          PROVE  row[KeyOf[c]].status # "absent"
      BY <3>2 DEF RevokeStep, ReadKey, FlushRevocation, CommitRevocation, RollBackRevocation
    <3>3. ASSUME NEW a \in Requests, RequestStep(a)
          PROVE  row[KeyOf[c]].status # "absent"
      BY <3>3 DEF RequestStep, LookUpCache, SelectOnHit, SelectOnMiss, FillCache, ReadForTouch,
         Touch, CountUsage, Admit
    <3>4. QED
      BY <3>1, <3>2, <3>3 DEF Next, vars
  <2>3. QED
    BY <2>1, <2>2, StatusStep
<1>4. QED
  BY <1>1, <1>2, <1>3 DEF Lifecycle

LEMMA BaseInit == Init => Base
<1>1. Init => ReadActive /\ Lifecycle
  BY KeyAssumption DEF Init, ReadActive, Lifecycle, NewRow, Clients
<1>2. QED
  BY <1>1, TypeInit DEF Base

LEMMA BaseStep == Base /\ [Next]_vars => Base'
BY TypeStep, ReadActiveStep, LifecycleStep DEF Base

-------------------------------------------------------------------------------
(* What requests are told.                                                 *)

LEMMA RefusedStep == Base /\ OnlyRevokedRefused /\ [Next]_vars => OnlyRevokedRefused'
<1> SUFFICES ASSUME Base, OnlyRevokedRefused, [Next]_vars PROVE OnlyRevokedRefused'
  OBVIOUS
<1> DEFINE Kept == /\ \A k \in Keys : cache'[k] = FALSE => row[k].status = "revoked"
                   /\ \A a \in Requests :
                         /\ pc'[a] = "rejected" => row[KeyOf[a]].status = "revoked"
                         /\ pc'[a] = "loaded" =>
                               \/ snap'[a].status = "active"
                               \/ /\ snap'[a].status = "revoked"
                                  /\ row[KeyOf[a]].status = "revoked"
<1>a. Kept
  <2> USE KeyAssumption DEF Base, TypeOK, Lifecycle, OnlyRevokedRefused, Clients, GoTo
  <2>1. ASSUME NEW k \in Keys, CreateStep(k) PROVE Kept
    BY <2>1 DEF CreateStep, CountKeys, InsertKey, RollBackCreation
  <2>2. CASE UNCHANGED vars \/ \E k \in Keys : CacheExpires(k)
    BY <2>2 DEF CacheExpires, vars
  <2>3. ASSUME NEW v \in Revocations, RevokeStep(v) PROVE Kept
    <3>1. CASE ReadKey(v)
      BY <2>3, <3>1 DEF ReadKey
    <3>2. CASE FlushRevocation(v)
      <4>1. \A k \in Keys : cache'[k] = FALSE => cache[k] = FALSE
        BY <2>3, <3>2 DEF FlushRevocation, Invalidate
      <4>2. \A a \in Requests : pc'[a] = pc[a] /\ snap'[a] = snap[a]
        BY <2>3, <3>2 DEF FlushRevocation
      <4>3. QED
        BY <4>1, <4>2
    <3>3. CASE CommitRevocation(v) \/ RollBackRevocation(v)
      BY <2>3, <3>3 DEF CommitRevocation, RollBackRevocation
    <3>4. QED
      BY <2>3, <3>1, <3>2, <3>3 DEF RevokeStep
  <2>4. ASSUME NEW a \in Requests, RequestStep(a) PROVE Kept
    <3>0. row[KeyOf[a]] \in Rows /\ snap[a] \in Rows
      BY <2>4
    <3>1. CASE LookUpCache(a)
      BY <2>4, <3>1 DEF LookUpCache
    <3>2. CASE SelectOnHit(a)
      BY <2>4, <3>0, <3>2 DEF SelectOnHit, Admit, Rows
    <3>3. CASE SelectOnMiss(a)
      BY <2>4, <3>0, <3>3 DEF SelectOnMiss, Rows
    <3>4. CASE FillCache(a)
      BY <2>4, <3>0, <3>4 DEF FillCache, Admit
    <3>5. CASE ReadForTouch(a)
      BY <2>4, <3>5 DEF ReadForTouch
    <3>6. CASE Touch(a) \/ CountUsage(a)
      BY <2>4, <3>6 DEF Touch, CountUsage
    <3>7. QED
      BY <2>4, <3>1, <3>2, <3>3, <3>4, <3>5, <3>6 DEF RequestStep
  <2>5. QED
    BY <2>1, <2>2, <2>3, <2>4 DEF Next
<1>b. \A k \in Keys : row[k].status = "revoked" => row'[k].status = "revoked"
  BY StatusStep
<1>c. QED
  BY <1>a, <1>b, KeyAssumption DEF OnlyRevokedRefused

LEMMA LateStep == Base /\ LateSeesRevoked /\ [Next]_vars => LateSeesRevoked'
<1> SUFFICES ASSUME Base, LateSeesRevoked, [Next]_vars PROVE LateSeesRevoked'
  OBVIOUS
<1> DEFINE Kept ==
        \A b \in Requests : b \in late' =>
            /\ row[KeyOf[b]].status = "revoked"
            /\ pc'[b] \in {"hit", "miss", "loaded", "rejected"}
            /\ pc'[b] = "loaded" => snap'[b].status = "revoked"
<1>a. Kept
  <2> USE KeyAssumption DEF Base, TypeOK, LateSeesRevoked, Clients, GoTo
  <2>1. ASSUME NEW k \in Keys, CreateStep(k) \/ CacheExpires(k) PROVE Kept
    BY <2>1 DEF CreateStep, CountKeys, InsertKey, RollBackCreation, CacheExpires
  <2>2. ASSUME NEW v \in Revocations, RevokeStep(v) PROVE Kept
    BY <2>2 DEF RevokeStep, ReadKey, FlushRevocation, CommitRevocation, RollBackRevocation
  <2>3. ASSUME NEW a \in Requests, RequestStep(a) PROVE Kept
    <3>1. CASE LookUpCache(a)
      BY <2>3, <3>1 DEF LookUpCache
    <3>2. CASE SelectOnHit(a) \/ SelectOnMiss(a) \/ FillCache(a)
      BY <2>3, <3>2 DEF SelectOnHit, SelectOnMiss, FillCache, Admit
    <3>3. CASE ReadForTouch(a) \/ Touch(a) \/ CountUsage(a)
      BY <2>3, <3>3 DEF ReadForTouch, Touch, CountUsage
    <3>4. QED
      BY <2>3, <3>1, <3>2, <3>3 DEF RequestStep
  <2>4. CASE UNCHANGED vars
    BY <2>4 DEF vars
  <2>5. QED
    BY <2>1, <2>2, <2>3, <2>4 DEF Next
<1>b. \A k \in Keys : row[k].status = "revoked" => row'[k].status = "revoked"
  BY StatusStep
<1>c. late' \subseteq Requests
  BY BaseStep DEF Base, TypeOK
<1>d. QED
  BY <1>a, <1>b, <1>c, KeyAssumption DEF LateSeesRevoked

-------------------------------------------------------------------------------
(* The usage counter.                                                      *)

\* Only the counting of a request changes a counter.
LEMMA TotalStep ==
    ASSUME Base, Next, \A a \in Requests : ~CountUsage(a)
    PROVE  /\ \A k \in Keys : row'[k].total = row[k].total
           /\ counted' = counted
<1> USE KeyAssumption DEF Base, TypeOK, Clients
<1> DEFINE Goal == (\A k \in Keys : row'[k].total = row[k].total) /\ counted' = counted
<1>1. ASSUME NEW i \in Keys, CreateStep(i) \/ CacheExpires(i) PROVE Goal
  BY <1>1 DEF CreateStep, CountKeys, InsertKey, RollBackCreation, CacheExpires, Lifecycle, NewRow
<1>2. ASSUME NEW v \in Revocations, RevokeStep(v) PROVE Goal
  <2>1. CASE CommitRevocation(v)
    BY <1>2, <2>1, RevocationWrites DEF CommitRevocation, ReadActive
  <2>2. CASE UNCHANGED <<row, counted>>
    BY <1>2, <2>2
  <2>3. QED
    BY <1>2, <2>1, <2>2 DEF RevokeStep, ReadKey, FlushRevocation, RollBackRevocation
<1>3. ASSUME NEW a \in Requests, RequestStep(a) PROVE Goal
  <2>1. CASE Touch(a)
    BY <1>3, <2>1, TouchWrites DEF Touch
  <2>2. CASE UNCHANGED <<row, counted>>
    BY <1>3, <2>2
  <2>3. QED
    BY <1>3, <2>1, <2>2 DEF RequestStep, LookUpCache, SelectOnHit, SelectOnMiss, FillCache,
       ReadForTouch
<1>4. QED
  BY <1>1, <1>2, <1>3 DEF Next

\* A request that is done has nothing left to do.
LEMMA DoneStep ==
    ASSUME Base, Next, NEW a \in Requests, pc[a] = "done"
    PROVE  pc'[a] = "done"
<1> USE KeyAssumption DEF Base, TypeOK, Clients, GoTo
<1>1. ASSUME NEW k \in Keys, CreateStep(k) \/ CacheExpires(k) PROVE pc'[a] = "done"
  BY <1>1 DEF CreateStep, CountKeys, InsertKey, RollBackCreation, CacheExpires
<1>2. ASSUME NEW v \in Revocations, RevokeStep(v) PROVE pc'[a] = "done"
  BY <1>2 DEF RevokeStep, ReadKey, FlushRevocation, CommitRevocation, RollBackRevocation
<1>3. ASSUME NEW b \in Requests, RequestStep(b) PROVE pc'[a] = "done"
  BY <1>3 DEF RequestStep, LookUpCache, SelectOnHit, SelectOnMiss, FillCache, ReadForTouch,
     Touch, CountUsage, Admit
<1>4. QED
  BY <1>1, <1>2, <1>3 DEF Next

Counting == CountedOnce /\ UsageIsCounted

LEMMA CountingInit == Init => Counting
<1> SUFFICES ASSUME Init PROVE Counting
  OBVIOUS
<1>1. counted = {}
  BY DEF Init
<1>2. CountedOnce
  BY <1>1, FS_EmptySet DEF CountedOnce
<1>3. ASSUME NEW k \in Keys PROVE row[k].total = Cardinality({ a \in counted : KeyOf[a] = k })
  <2>1. { a \in counted : KeyOf[a] = k } = {}
    BY <1>1
  <2>2. QED
    BY <2>1, FS_EmptySet DEF Init, NewRow
<1>4. QED
  BY <1>2, <1>3 DEF Counting, UsageIsCounted

LEMMA CountingStep == Base /\ Counting /\ [Next]_vars => Counting'
<1> SUFFICES ASSUME Base, Counting, [Next]_vars PROVE Counting'
  OBVIOUS
<1>1. ASSUME NEW a \in Requests, CountUsage(a) PROVE Counting'
  <2> USE KeyAssumption
  <2>1. a \notin counted /\ counted' = counted \cup {a} /\ pc'[a] = "done"
    BY <1>1 DEF CountUsage, Counting, CountedOnce, GoTo, Base, TypeOK, Clients
  <2>2. IsFiniteSet(counted)
    BY DEF Counting, CountedOnce
  <2>3. CountedOnce'
    <3>1. IsFiniteSet(counted')
      BY <2>1, <2>2, FS_AddElement
    <3>2. \A b \in counted : pc'[b] = pc[b] \/ b = a
      BY <1>1 DEF CountUsage, GoTo, Base, TypeOK, Clients
    <3>3. QED
      BY <2>1, <3>1, <3>2 DEF Counting, CountedOnce
  <2>4. ASSUME NEW k \in Keys PROVE row'[k].total = Cardinality(UsersOf(k)')
    <3>1. row[k].total = Cardinality(UsersOf(k))
      BY <2>4 DEF Counting, UsageIsCounted, UsersOf
    <3>2. IsFiniteSet(UsersOf(k)) /\ a \notin UsersOf(k)
      BY <2>1, <2>2, FS_Subset DEF UsersOf
    <3>3. CASE k = KeyOf[a]
      <4>1. UsersOf(k)' = UsersOf(k) \cup {a}
        BY <2>1, <3>3 DEF UsersOf
      <4>2. row'[k].total = row[k].total + 1
        BY <1>1, <3>3 DEF CountUsage, Base, TypeOK, Rows
      <4>3. QED
        BY <3>1, <3>2, <4>1, <4>2, FS_AddElement
    <3>4. CASE k # KeyOf[a]
      <4>1. UsersOf(k)' = UsersOf(k)
        BY <2>1, <3>4 DEF UsersOf
      <4>2. row'[k].total = row[k].total
        BY <1>1, <2>4, <3>4 DEF CountUsage, Base, TypeOK
      <4>3. QED
        BY <3>1, <4>1, <4>2
    <3>5. QED
      BY <3>3, <3>4
  <2>5. QED
    BY <2>3, <2>4 DEF Counting, UsageIsCounted, UsersOf
<1>2. CASE Next /\ \A a \in Requests : ~CountUsage(a)
  <2>1. (\A k \in Keys : row'[k].total = row[k].total) /\ counted' = counted
    BY <1>2, TotalStep
  <2>2. \A a \in counted : pc'[a] = "done"
    BY <1>2, DoneStep DEF Counting, CountedOnce, Base, TypeOK
  <2>3. QED
    BY <2>1, <2>2 DEF Counting, CountedOnce, UsageIsCounted
<1>3. CASE UNCHANGED vars
  BY <1>3 DEF vars, Counting, CountedOnce, UsageIsCounted
<1>4. QED
  BY <1>1, <1>2, <1>3

-------------------------------------------------------------------------------
(* The limit of keys.  A creation that overlaps no other still sees room     *)
(* when it commits; of those that overlap, the first one to commit does.     *)

Overrun == ActiveKeys \cap raced

LimitInv ==
    /\ \A k \in Pending : k \notin raced =>
           Pending = {k} /\ Cardinality(ActiveKeys) < MaxKeysPerUser
    /\ Pending # {} /\ Overrun = {} => Cardinality(ActiveKeys) < MaxKeysPerUser
    /\ LimitOverrunByOverlap

\* Sets of keys can be counted.
LEMMA KeysAreFinite ==
    ASSUME NEW S \in SUBSET Keys
    PROVE  /\ IsFiniteSet(S) /\ Cardinality(S) \in Nat
           /\ \A T \in SUBSET S : Cardinality(T) <= Cardinality(S)
           /\ Cardinality(S) = 0 <=> S = {}
<1>1. IsFiniteSet(S)
  BY KeyAssumption, FS_Subset
<1>2. QED
  BY <1>1, FS_CardinalityType, FS_Subset, FS_EmptySet

\* What a step does to the active and the pending keys.
LEMMA KeySetsStep ==
    ASSUME Base, [Next]_vars
    PROVE  \/ ActiveKeys' = ActiveKeys /\ Pending' = Pending /\ raced' = raced
           \/ \E k \in Keys : CountKeys(k) /\ ActiveKeys' = ActiveKeys
           \/ \E k \in Pending : /\ ActiveKeys' = ActiveKeys \cup {k}
                                 /\ Pending' = Pending \ {k}
                                 /\ raced' = raced
           \/ \E k \in Pending : /\ ActiveKeys' = ActiveKeys
                                 /\ Pending' = Pending \ {k}
                                 /\ raced' = raced
           \/ \E k \in Keys : /\ ActiveKeys' = ActiveKeys \ {k}
                              /\ Pending' = Pending
                              /\ raced' = raced
<1> USE KeyAssumption DEF Base, TypeOK, Clients, GoTo
<1> DEFINE Same == ActiveKeys' = ActiveKeys /\ Pending' = Pending /\ raced' = raced
<1>1. ASSUME \A k \in Keys : row'[k].status = row[k].status PROVE ActiveKeys' = ActiveKeys
  BY <1>1 DEF ActiveKeys
<1>2. ASSUME \A k \in Keys : pc'[k] = pc[k] PROVE Pending' = Pending
  BY <1>2 DEF Pending
<1>3. ASSUME NEW k \in Keys, CountKeys(k) PROVE ActiveKeys' = ActiveKeys
  BY <1>1, <1>3 DEF CountKeys
<1>4. ASSUME NEW k \in Keys, InsertKey(k)
      PROVE  /\ k \in Pending /\ ActiveKeys' = ActiveKeys \cup {k}
             /\ Pending' = Pending \ {k} /\ raced' = raced
  <2>1. /\ pc[k] = "counted" /\ \A i \in Keys : pc'[i] = IF i = k THEN "created" ELSE pc[i]
        /\ \A i \in Keys : row'[i] = IF i = k THEN NewRow("active") ELSE row[i]
        /\ raced' = raced
    BY <1>4 DEF InsertKey
  <2>2. NewRow("active").status = "active"
    BY DEF NewRow
  <2>3. QED
    BY <2>1, <2>2 DEF Pending, ActiveKeys
<1>5. ASSUME NEW k \in Keys, RollBackCreation(k)
      PROVE  /\ k \in Pending /\ ActiveKeys' = ActiveKeys
             /\ Pending' = Pending \ {k} /\ raced' = raced
  <2>1. /\ pc[k] = "counted" /\ \A i \in Keys : pc'[i] = IF i = k THEN "failed" ELSE pc[i]
        /\ UNCHANGED <<row, raced>>
    BY <1>5 DEF RollBackCreation
  <2>2. QED
    BY <2>1 DEF Pending, ActiveKeys
<1>6. ASSUME NEW k \in Keys, CacheExpires(k) PROVE Same
  BY <1>1, <1>2, <1>6 DEF CacheExpires
<1>7. ASSUME NEW v \in Revocations, CommitRevocation(v)
      PROVE  /\ KeyOf[v] \in Keys /\ ActiveKeys' = ActiveKeys \ {KeyOf[v]}
             /\ Pending' = Pending /\ raced' = raced
  <2>1. /\ KeyOf[v] \in Keys
        /\ \A i \in Keys : pc'[i] = pc[i]
        /\ \A i \in Keys : i # KeyOf[v] => row'[i] = row[i]
        /\ row'[KeyOf[v]].status = "revoked"
        /\ raced' = raced
    BY <1>7, RevocationWrites DEF CommitRevocation, ReadActive
  <2>2. QED
    BY <1>2, <2>1 DEF ActiveKeys
<1>8. ASSUME NEW v \in Revocations, RevokeStep(v), ~CommitRevocation(v) PROVE Same
  BY <1>1, <1>2, <1>8 DEF RevokeStep, ReadKey, FlushRevocation, RollBackRevocation
<1>9. ASSUME NEW a \in Requests, RequestStep(a) PROVE Same
  <2>1. \A k \in Keys : pc'[k] = pc[k]
    BY <1>9 DEF RequestStep, LookUpCache, SelectOnHit, SelectOnMiss, FillCache, ReadForTouch,
       Touch, CountUsage, Admit
  <2>2. \A k \in Keys : row'[k].status = row[k].status
    <3>1. CASE Touch(a)
      BY <1>9, <3>1, TouchWrites DEF Touch
    <3>2. CASE CountUsage(a)
      BY <1>9, <3>2 DEF CountUsage, Rows
    <3>3. CASE UNCHANGED row
      BY <3>3
    <3>4. QED
      BY <1>9, <3>1, <3>2, <3>3 DEF RequestStep, LookUpCache, SelectOnHit, SelectOnMiss,
         FillCache, ReadForTouch
  <2>3. raced' = raced
    BY <1>9 DEF RequestStep, LookUpCache, SelectOnHit, SelectOnMiss, FillCache, ReadForTouch,
       Touch, CountUsage
  <2>4. QED
    BY <1>1, <1>2, <2>1, <2>2, <2>3
<1>10. CASE UNCHANGED vars
  BY <1>1, <1>2, <1>10 DEF vars
<1>11. QED
  BY <1>3, <1>4, <1>5, <1>6, <1>7, <1>8, <1>9, <1>10 DEF Next, CreateStep

LEMMA LimitInvStep == Base /\ LimitInv /\ [Next]_vars => LimitInv'
<1> SUFFICES ASSUME Base, LimitInv, [Next]_vars PROVE LimitInv'
  OBVIOUS
<1> DEFINE active == Cardinality(ActiveKeys)
           over   == Cardinality(Overrun)
<1>1. /\ ActiveKeys \in SUBSET Keys /\ Overrun \in SUBSET Keys /\ Pending \in SUBSET Keys
      /\ ActiveKeys' \in SUBSET Keys /\ Overrun' \in SUBSET Keys
  BY DEF ActiveKeys, Overrun, Pending
<1>2. /\ active \in Nat /\ over \in Nat /\ active' \in Nat /\ over' \in Nat
      /\ MaxKeysPerUser \in Nat
      /\ over = 0 <=> Overrun = {}
      /\ over' = 0 <=> Overrun' = {}
  BY <1>1, KeysAreFinite, KeyAssumption
<1>3. ActiveKeys \cap Pending = {}
  BY DEF Base, Lifecycle, ActiveKeys, Pending, NewRow
<1>4. active <= MaxKeysPerUser \/ active < MaxKeysPerUser + over
  BY DEF LimitInv, LimitOverrunByOverlap, Overrun
<1>5. CASE ActiveKeys' = ActiveKeys /\ Pending' = Pending /\ raced' = raced
  BY <1>5 DEF LimitInv, LimitOverrunByOverlap, Overrun
<1>6. ASSUME NEW k \in Keys, CountKeys(k), ActiveKeys' = ActiveKeys
      PROVE  LimitInv'
  <2>1. \A i \in Keys : i # k => pc'[i] = pc[i]
    BY <1>6 DEF CountKeys, GoTo, Base, TypeOK, Clients
  <2>2. pc[k] = "idle" /\ pc'[k] = IF UnderLimit THEN "counted" ELSE "refused"
    BY <1>6 DEF CountKeys, GoTo, Base, TypeOK, Clients
  <2>3. Pending' = IF UnderLimit THEN Pending \cup {k} ELSE Pending
    BY <2>1, <2>2 DEF Pending
  <2>4. CASE ~UnderLimit
    BY <1>6, <2>3, <2>4 DEF CountKeys, LimitInv, LimitOverrunByOverlap, Overrun
  <2>5. CASE UnderLimit
    <3>1. active' < MaxKeysPerUser
      BY <1>6, <2>5 DEF UnderLimit
    <3>2. \A i \in Pending' : i \notin raced' => Pending' = {i}
      BY <1>6, <2>3, <2>5 DEF CountKeys
    <3>3. QED
      BY <1>2, <3>1, <3>2 DEF LimitInv, LimitOverrunByOverlap
  <2>6. QED
    BY <2>4, <2>5
<1>7. ASSUME NEW k \in Pending, ActiveKeys' = ActiveKeys \cup {k},
             Pending' = Pending \ {k}, raced' = raced
      PROVE  LimitInv'
  <2>1. k \notin ActiveKeys /\ active' = active + 1
    BY <1>1, <1>3, <1>7, KeysAreFinite, FS_AddElement
  <2>2. CASE k \in raced
    <3>1. Overrun' = Overrun \cup {k} /\ k \notin Overrun
      BY <1>7, <2>1, <2>2 DEF Overrun
    <3>2. over' = over + 1
      BY <1>1, <3>1, KeysAreFinite, FS_AddElement
    <3>3. over = 0 => active < MaxKeysPerUser
      BY <1>2 DEF LimitInv
    <3>4. active' <= MaxKeysPerUser \/ active' < MaxKeysPerUser + over'
      BY <1>2, <1>4, <2>1, <3>2, <3>3
    <3>5. \A i \in Pending' : i \in raced'
      BY <1>7, <2>2 DEF LimitInv
    <3>6. QED
      BY <3>1, <3>4, <3>5 DEF LimitInv, LimitOverrunByOverlap, Overrun
  <2>3. CASE k \notin raced
    <3>1. Pending = {k} /\ active < MaxKeysPerUser
      BY <2>3 DEF LimitInv
    <3>2. Pending' = {} /\ active' <= MaxKeysPerUser
      BY <1>2, <1>7, <2>1, <3>1
    <3>3. QED
      BY <3>2 DEF LimitInv, LimitOverrunByOverlap
  <2>4. QED
    BY <2>2, <2>3
<1>8. ASSUME NEW k \in Pending, ActiveKeys' = ActiveKeys,
             Pending' = Pending \ {k}, raced' = raced
      PROVE  LimitInv'
  BY <1>8 DEF LimitInv, LimitOverrunByOverlap, Overrun
<1>9. ASSUME NEW k \in Keys, ActiveKeys' = ActiveKeys \ {k}, Pending' = Pending, raced' = raced
      PROVE  LimitInv'
  <2>1. Overrun' = Overrun \ {k}
    BY <1>9 DEF Overrun
  <2>2. /\ active' = IF k \in ActiveKeys THEN active - 1 ELSE active
        /\ over' = IF k \in Overrun THEN over - 1 ELSE over
    BY <1>1, <1>9, <2>1, KeysAreFinite, FS_RemoveElement
  <2>3. k \in Overrun => k \in ActiveKeys
    BY DEF Overrun
  <2>4. active' <= MaxKeysPerUser \/ active' < MaxKeysPerUser + over'
    BY <1>2, <1>4, <2>2, <2>3
  <2>5. Pending' # {} /\ Overrun' = {} => active' < MaxKeysPerUser
    <3>1. Overrun = {} /\ Pending # {} => active < MaxKeysPerUser
      BY DEF LimitInv
    <3>2. QED
      BY <1>2, <1>4, <1>9, <2>2, <2>3, <3>1
  <2>6. \A i \in Pending' : i \notin raced' => Pending' = {i} /\ active' < MaxKeysPerUser
    BY <1>2, <1>9, <2>2 DEF LimitInv
  <2>7. QED
    BY <2>4, <2>5, <2>6 DEF LimitInv, LimitOverrunByOverlap, Overrun
<1>10. QED
  BY <1>5, <1>6, <1>7, <1>8, <1>9, KeySetsStep

-------------------------------------------------------------------------------

\* A revoked key stays revoked.
THEOREM RevokedForGood == Spec => RevocationIsFinal
<1>1. Base /\ [Next]_vars =>
         [\A k \in Keys : row[k].status = "revoked" => row'[k].status = "revoked"]_vars
  BY StatusStep
<1>2. QED
  BY <1>1, BaseInit, BaseStep, PTL DEF Spec, RevocationIsFinal

\* No copy of a revoked key lets a request in that arrives after the COMMIT.
THEOREM RevokedKeysAreRejected == Spec => []RevokedKeyIsRejected
<1>1. Init => LateSeesRevoked
  BY DEF Init, LateSeesRevoked
<1>2. LateSeesRevoked => RevokedKeyIsRejected
  BY DEF LateSeesRevoked, RevokedKeyIsRejected
<1>3. QED
  BY <1>1, <1>2, BaseInit, BaseStep, LateStep, PTL DEF Spec

\* No copy of an active key keeps a request out.
THEOREM ActiveKeysAreAccepted == Spec => []ActiveKeyIsAccepted
<1>1. Init => OnlyRevokedRefused
  BY KeyAssumption DEF Init, OnlyRevokedRefused, Clients
<1>2. OnlyRevokedRefused => ActiveKeyIsAccepted
  BY DEF OnlyRevokedRefused, ActiveKeyIsAccepted
<1>3. QED
  BY <1>1, <1>2, BaseInit, BaseStep, RefusedStep, PTL DEF Spec

\* No update of a row loses the count of a request.
THEOREM UsageIsKept == Spec => []UsageIsCounted
<1>1. Counting => UsageIsCounted
  BY DEF Counting
<1>2. QED
  BY <1>1, BaseInit, BaseStep, CountingInit, CountingStep, PTL DEF Spec

\* Only creations that overlap exceed the limit of keys, and never by as many
\* keys as overlapped (create_virtual_key counts without a lock).
THEOREM LimitOverrunBound == Spec => []LimitOverrunByOverlap
<1>1. Init => LimitInv
  <2>1. SUFFICES ASSUME Init PROVE LimitInv
    OBVIOUS
  <2>2. ActiveKeys = Existing /\ Pending = {}
    BY <2>1, KeyAssumption DEF Init, ActiveKeys, Pending, NewRow, Clients
  <2>3. QED
    BY <2>2, KeyAssumption DEF LimitInv, LimitOverrunByOverlap
<1>2. LimitInv => LimitOverrunByOverlap
  BY DEF LimitInv
<1>3. QED
  BY <1>1, <1>2, BaseInit, BaseStep, LimitInvStep, PTL DEF Spec
===============================================================================
