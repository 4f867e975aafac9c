------------------------------ MODULE VirtualKeys ------------------------------
(***************************************************************************)
(* The virtual keys of one user: services/virtual_key.py, the              *)
(* authentication of middleware/virtual_key_auth.py with its background    *)
(* task, and the usage counter that post-processing increments.            *)
(*                                                                         *)
(* Creating, revoking and using keys are separate database sessions that   *)
(* interleave at every await.  Redis keeps a copy of a key for 30 seconds; *)
(* authentication reads the row all the same and lets the copy only refuse.*)
(***************************************************************************)
EXTENDS Integers, FiniteSets

CONSTANTS
    Keys,           \* the keys ever generated for the user, default key first
    Existing,       \* the keys the user has at the start
    Revocations,    \* DELETE /api/keys/{id} requests
    Requests,       \* gateway requests
    KeyOf,          \* the key a revocation or a request is for
    MaxKeysPerUser,
    Faults,         \* what may go wrong in this instance
    None            \* not cached, no lock holder

Clients == Keys \cup Revocations \cup Requests

ASSUME KeyAssumption ==
    /\ Existing \subseteq Keys
    /\ Keys \cap Revocations = {}
    /\ Keys \cap Requests = {}
    /\ Revocations \cap Requests = {}
    /\ KeyOf \in [Revocations \cup Requests -> Keys]
    /\ IsFiniteSet(Keys)
    /\ MaxKeysPerUser \in Nat
    /\ Cardinality(Existing) <= MaxKeysPerUser
    /\ Faults \subseteq {"redis", "rollback"}
    /\ None \notin Clients \cup BOOLEAN

Rows == [status : {"absent", "active", "revoked"}, touched : BOOLEAN, total : Nat]

VARIABLES
    row,        \* virtual_keys: is_active, last_used_at, total_requests
    lock,       \* the session holding the row lock of a key
    cache,      \* is_active under vk:{key_hash}
    pc,         \* how far creating a key, a revocation or a request has got
    snap,       \* the row as a session read it
    \* history
    late,       \* requests that arrived after their key was revoked
    counted,    \* requests whose usage was recorded
    raced       \* creations that were under way at the same time as another

vars == <<row, lock, cache, pc, snap, late, counted, raced>>

ActiveKeys == { k \in Keys : row[k].status = "active" }

NewRow(s) == [status |-> s, touched |-> FALSE, total |-> 0]

Init ==
    /\ row     = [k \in Keys |-> NewRow(IF k \in Existing THEN "active" ELSE "absent")]
    /\ lock    = [k \in Keys |-> None]
    /\ cache   = [k \in Keys |-> None]
    /\ pc      = [c \in Clients |-> "idle"]
    /\ snap    = [c \in Clients |-> NewRow("absent")]
    /\ late    = {}
    /\ counted = {}
    /\ raced   = {}

GoTo(c, state) == pc' = [pc EXCEPT ![c] = state]

\* Mutant of Written: the UPDATE names every column.
WholeRow(k, read, new) == new

\* A flush writes the columns the session changed since it read the row.
Written(k, read, new) ==
    [ status  |-> IF new.status  = read.status  THEN row[k].status  ELSE new.status,
      touched |-> IF new.touched = read.touched THEN row[k].touched ELSE new.touched,
      total   |-> IF new.total   = read.total   THEN row[k].total   ELSE new.total ]

-------------------------------------------------------------------------------
(* create_virtual_key: one client per key to be created.                   *)

\* Mutant of UnderLimit: one key too many.
UpToLimit == Cardinality(ActiveKeys) <= MaxKeysPerUser

UnderLimit == Cardinality(ActiveKeys) < MaxKeysPerUser

\* Counted, and not committed yet.
Pending == { k \in Keys : pc[k] = "counted" }

\* The count sees committed keys only, and locks nothing.
CountKeys(k) ==
    /\ k \notin Existing
    /\ pc[k] = "idle"
    /\ GoTo(k, IF UnderLimit THEN "counted" ELSE "refused")
    /\ raced' = IF UnderLimit /\ Pending # {} THEN raced \cup Pending \cup {k} ELSE raced
    /\ UNCHANGED <<row, lock, cache, snap, late, counted>>

InsertKey(k) ==
    /\ pc[k] = "counted"
    /\ row' = [row EXCEPT ![k] = NewRow("active")]
    /\ GoTo(k, "created")
    /\ UNCHANGED <<lock, cache, snap, late, counted, raced>>

RollBackCreation(k) ==
    /\ "rollback" \in Faults
    /\ pc[k] = "counted"
    /\ GoTo(k, "failed")
    /\ UNCHANGED <<row, lock, cache, snap, late, counted, raced>>

-------------------------------------------------------------------------------
(* revoke_virtual_key.                                                     *)

ReadKey(v) ==
    LET k == KeyOf[v]
    IN  /\ pc[v] = "idle"
        /\ row[k].status # "absent"
        /\ snap' = [snap EXCEPT ![v] = row[k]]
        /\ GoTo(v, IF row[k].status = "active" THEN "read" ELSE "refused")
        /\ UNCHANGED <<row, lock, cache, late, counted, raced>>

\* Mutant of Invalidate: the copy is marked instead of deleted.
MarkRevoked(k) == cache' = [cache EXCEPT ![k] = FALSE]

\* A Redis error is swallowed: "cache will expire naturally".
Invalidate(k) ==
    \/ cache' = [cache EXCEPT ![k] = None]
    \/ "redis" \in Faults /\ UNCHANGED cache

\* The flush waits for the row lock; the copy goes before the COMMIT.
FlushRevocation(v) ==
    LET k == KeyOf[v]
    IN  /\ pc[v] = "read"
        /\ lock[k] = None
        /\ lock' = [lock EXCEPT ![k] = v]
        /\ Invalidate(k)
        /\ GoTo(v, "flushed")
        /\ UNCHANGED <<row, snap, late, counted, raced>>

CommitRevocation(v) ==
    LET k == KeyOf[v]
    IN  /\ pc[v] = "flushed"
        /\ row'  = [row EXCEPT ![k] =
                       Written(k, snap[v], [snap[v] EXCEPT !.status = "revoked"])]
        /\ lock' = [lock EXCEPT ![k] = None]
        /\ GoTo(v, "revoked")
        /\ UNCHANGED <<cache, snap, late, counted, raced>>

RollBackRevocation(v) ==
    LET k == KeyOf[v]
    IN  /\ "rollback" \in Faults
        /\ pc[v] = "flushed"
        /\ lock' = [lock EXCEPT ![k] = None]
        /\ GoTo(v, "failed")
        /\ UNCHANGED <<row, cache, snap, late, counted, raced>>

-------------------------------------------------------------------------------
(* require_virtual_key.                                                    *)

\* Arrivals at an absent key are left out: its plaintext was never handed out.
LookUpCache(a) ==
    LET k == KeyOf[a]
    IN  /\ pc[a] = "idle"
        /\ row[k].status # "absent"
        /\ late' = IF row[k].status = "revoked" THEN late \cup {a} ELSE late
        /\ \/ cache[k] = FALSE /\ GoTo(a, "rejected")
           \/ cache[k] = TRUE  /\ GoTo(a, "hit")
           \/ cache[k] = None /\ GoTo(a, "miss")
           \/ "redis" \in Faults /\ GoTo(a, "miss")
        /\ UNCHANGED <<row, lock, cache, snap, counted, raced>>

Admit(a, read) == GoTo(a, IF read.status = "active" THEN "accepted" ELSE "rejected")

\* Mutant of SelectOnHit: what Redis says is enough.
TrustCache(a) ==
    /\ pc[a] = "hit"
    /\ GoTo(a, "accepted")
    /\ UNCHANGED <<row, lock, cache, snap, late, counted, raced>>

\* The row decides, also when the copy says the key is active.
SelectOnHit(a) ==
    /\ pc[a] = "hit"
    /\ Admit(a, row[KeyOf[a]])
    /\ UNCHANGED <<row, lock, cache, snap, late, counted, raced>>

SelectOnMiss(a) ==
    /\ pc[a] = "miss"
    /\ snap' = [snap EXCEPT ![a] = row[KeyOf[a]]]
    /\ GoTo(a, "loaded")
    /\ UNCHANGED <<row, lock, cache, late, counted, raced>>

FillCache(a) ==
    /\ pc[a] = "loaded"
    /\ \/ cache' = [cache EXCEPT ![KeyOf[a]] = (snap[a].status = "active")]
       \/ "redis" \in Faults /\ UNCHANGED cache
    /\ Admit(a, snap[a])
    /\ UNCHANGED <<row, lock, snap, late, counted, raced>>

\* The copy outlives its 30 second TTL.
CacheExpires(k) ==
    /\ cache[k] # None
    /\ cache' = [cache EXCEPT ![k] = None]
    /\ UNCHANGED <<row, lock, pc, snap, late, counted, raced>>

-------------------------------------------------------------------------------
(* Background tasks of an accepted request.                                *)

\* _update_last_used_at reads the row and commits a new last_used_at; the
\* task swallows what goes wrong.
ReadForTouch(a) ==
    /\ pc[a] = "accepted"
    /\ snap' = [snap EXCEPT ![a] = row[KeyOf[a]]]
    /\ GoTo(a, "touching")
    /\ UNCHANGED <<row, lock, cache, late, counted, raced>>

Touch(a) ==
    LET k == KeyOf[a]
    IN  /\ pc[a] = "touching"
        /\ lock[k] = None
        /\ \/ row' = [row EXCEPT ![k] =
                         Written(k, snap[a], [snap[a] EXCEPT !.touched = TRUE])]
           \/ "rollback" \in Faults /\ UNCHANGED row
        /\ GoTo(a, "touched")
        /\ UNCHANGED <<lock, cache, snap, late, counted, raced>>

\* post_process_usage, a later task of the same request: UPDATE ... SET
\* total_requests = total_requests + 1.
CountUsage(a) ==
    LET k == KeyOf[a]
    IN  /\ pc[a] = "touched"
        /\ lock[k] = None
        /\ row' = [row EXCEPT ![k].total = @ + 1]
        /\ counted' = counted \cup {a}
        /\ GoTo(a, "done")
        /\ UNCHANGED <<lock, cache, snap, late, raced>>

-------------------------------------------------------------------------------
CreateStep(k) == CountKeys(k) \/ InsertKey(k) \/ RollBackCreation(k)

RevokeStep(v) ==
    ReadKey(v) \/ FlushRevocation(v) \/ CommitRevocation(v) \/ RollBackRevocation(v)

RequestStep(a) ==
    \/ LookUpCache(a) \/ SelectOnHit(a) \/ SelectOnMiss(a) \/ FillCache(a)
    \/ CountUsage(a) \/ ReadForTouch(a) \/ Touch(a)

Next ==
    \/ \E k \in Keys : CreateStep(k) \/ CacheExpires(k)
    \/ \E v \in Revocations : RevokeStep(v)
    \/ \E a \in Requests : RequestStep(a)

Spec == Init /\ [][Next]_vars

-------------------------------------------------------------------------------
(* What must hold.                                                         *)

\* A request that arrives after its key was revoked is rejected, whatever copy
\* of the key Redis still holds (requirements.md:82).
RevokedKeyIsRejected ==
    \A a \in late : pc[a] \notin {"accepted", "touching", "touched", "done"}

\* A key that is active is never refused on account of a stale copy, not even
\* after a revocation that failed.
ActiveKeyIsAccepted ==
    \A a \in Requests : pc[a] = "rejected" => row[KeyOf[a]].status = "revoked"

\* A revoked key stays revoked: no background task of a request that was
\* accepted earlier brings it back.
RevocationIsFinal ==
    [][ \A k \in Keys : row[k].status = "revoked" => row'[k].status = "revoked" ]_vars

\* Every request whose usage was recorded is in the counter of its key,
\* however updates of the row interleave.
UsageIsCounted ==
    \A k \in Keys :
        row[k].total = Cardinality({ a \in counted : KeyOf[a] = k })

\* A user has more active keys than the limit only if creations overlapped, and
\* then fewer more than of these keys are still active: the first of them to
\* commit stayed within the limit (services/virtual_key.py:7).
LimitOverrunByOverlap ==
    \/ Cardinality(ActiveKeys) <= MaxKeysPerUser
    \/ Cardinality(ActiveKeys) < MaxKeysPerUser + Cardinality(ActiveKeys \cap raced)
===============================================================================
