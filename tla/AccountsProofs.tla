----------------------------- MODULE AccountsProofs -----------------------------
(***************************************************************************)
(* Theorems about Accounts: whatever registrations, logins and failures    *)
(* there are, an address gets one complete user at most.                   *)
(***************************************************************************)
EXTENDS Accounts, FiniteSetTheorems, TLAPS

InTransaction(c) == pc[c] \in {"user", "account", "key"}

SignupStates == {"absent", "conflict", "linking", "user", "account", "key",
                 "registered", "welcomed", "failed", "logged in"}

LoginStates == {"refused", "locked", "right", "wrong", "counted", "reset",
                "logged in", "failed"}

States == {"idle"} \cup SignupStates \cup LoginStates

\* The variables that sign-ups depend on have their types.
SignupTypes ==
    /\ rows \in [Tables -> SUBSET Registrants]
    /\ pc   \in [Clients -> States]
    /\ welcomed \subseteq Registrants

\* The index entry belongs to the transaction that is open, and there is none
\* once a user is committed.
IndexGuards ==
    \A c \in Registrants : InTransaction(c) => holder = c /\ rows["users"] = {}

\* The committed users are one registrant, or none.
OneRegistrant ==
    rows["users"] = {} \/ \E c \in Registrants : rows["users"] = {c}

\* Only a registration that was committed gets to its background task.
AnsweredIsCommitted ==
    \A c \in Registrants : pc[c] = "registered" => c \in rows["users"]

SignupInv ==
    /\ SignupTypes
    /\ IndexGuards
    /\ OneRegistrant
    /\ AnsweredIsCommitted
    /\ EveryUserIsComplete
    /\ WelcomeOnlyToUsers

\* At the start nobody is registered and nobody is under way.
LEMMA SignupInit == Init => SignupInv
BY AccountAssumption
   DEF Init, SignupInv, SignupTypes, IndexGuards, OneRegistrant, AnsweredIsCommitted,
       EveryUserIsComplete, WelcomeOnlyToUsers, InTransaction, Tables, Clients,
       Registrants, States, NewRow

\* A step of a login, and one that leaves sign-ups where they are, keeps the
\* invariant.
LEMMA Elsewhere ==
    ASSUME SignupInv,
           UNCHANGED <<rows, welcomed>>,
           UNCHANGED holder,
           NEW d \in Clients, NEW s \in States,
           s \notin {"user", "account", "key", "registered"},
           pc' = [pc EXCEPT ![d] = s]
    PROVE  SignupInv'
BY DEF SignupInv, SignupTypes, IndexGuards, OneRegistrant, AnsweredIsCommitted,
       EveryUserIsComplete, WelcomeOnlyToUsers, InTransaction, Clients

\* The INSERT finds the index free: no other transaction is open.
LEMMA InsertKeeps ==
    ASSUME SignupInv, NEW c \in Registrants, InsertUser(c)
    PROVE  SignupInv'
<1> USE DEF SignupInv, SignupTypes, States, SignupStates, LoginStates, Registered, GoTo
<1>1. CASE Registered
  BY <1>1, Elsewhere DEF InsertUser, Clients
<1>2. CASE ~Registered
  <2>1. /\ holder = None /\ holder' = c /\ rows["users"] = {}
        /\ UNCHANGED <<rows, welcomed>>
        /\ pc' = [pc EXCEPT ![c] = "user"]
    BY <1>2 DEF InsertUser, AddressIsFree
  <2>2. \A d \in Registrants : ~InTransaction(d)
    BY <2>1, AccountAssumption DEF IndexGuards, Clients
  <2>3. c \in Clients /\ \A d \in Registrants \ {c} : pc'[d] = pc[d]
    BY <2>1 DEF Clients
  <2>4. IndexGuards'
    BY <2>1, <2>2, <2>3 DEF IndexGuards, InTransaction
  <2>5. AnsweredIsCommitted'
    BY <2>1, <2>3 DEF AnsweredIsCommitted
  <2> QED
    BY <2>1, <2>3, <2>4, <2>5 DEF OneRegistrant, EveryUserIsComplete, WelcomeOnlyToUsers
<1> QED
  BY <1>1, <1>2

\* The account and the key are inserted by the transaction that holds the index.
LEMMA FlushKeeps ==
    ASSUME SignupInv, NEW c \in Registrants, InsertAccount(c) \/ InsertKey(c)
    PROVE  SignupInv'
<1> USE DEF SignupInv, SignupTypes, States, SignupStates, LoginStates, GoTo
<1>1. /\ InTransaction(c) /\ UNCHANGED <<rows, holder, welcomed>>
      /\ \E s \in {"account", "key"} : pc' = [pc EXCEPT ![c] = s]
  BY DEF InsertAccount, InsertKey, InTransaction, tables
<1>2. pc' \in [Clients -> States] /\ \A d \in Registrants \ {c} : pc'[d] = pc[d]
  BY <1>1 DEF Clients
<1>3. pc'[c] \in {"account", "key"}
  BY <1>1 DEF Clients
<1>4. IndexGuards'
  BY <1>1, <1>2 DEF IndexGuards, InTransaction
<1>5. AnsweredIsCommitted'
  BY <1>1, <1>2, <1>3 DEF AnsweredIsCommitted
<1> QED
  BY <1>1, <1>2, <1>4, <1>5 DEF OneRegistrant, EveryUserIsComplete, WelcomeOnlyToUsers

\* The COMMIT makes all three rows visible at once; no other transaction is
\* open, since the index entry was this one's.
LEMMA CommitKeeps ==
    ASSUME SignupInv, NEW c \in Registrants, CommitUser(c)
    PROVE  SignupInv'
<1> USE DEF SignupInv, SignupTypes, States, SignupStates, LoginStates, GoTo
<1>1. InTransaction(c) /\ Flushed(c) = Tables
  BY DEF CommitUser, Complete, InTransaction, Flushed
<1>2. /\ holder = c /\ rows["users"] = {}
      /\ \A d \in Registrants \ {c} : ~InTransaction(d)
  BY <1>1 DEF IndexGuards
<1>3. rows' = [t \in Tables |-> {c}]
  BY <1>1, <1>2 DEF CommitUser, EveryUserIsComplete, Tables
<1>4. pc' = [pc EXCEPT ![c] = "registered"] /\ UNCHANGED welcomed
  BY DEF CommitUser
<1>5. \A d \in Registrants \ {c} : pc'[d] = pc[d]
  BY <1>4 DEF Clients
<1>6. pc'[c] = "registered" /\ pc' \in [Clients -> States]
  BY <1>4 DEF Clients
<1>7. IndexGuards'
  BY <1>2, <1>5, <1>6 DEF IndexGuards, InTransaction
<1>8. AnsweredIsCommitted'
  BY <1>2, <1>3, <1>5 DEF AnsweredIsCommitted, Tables
<1>9. EveryUserIsComplete' /\ OneRegistrant' /\ rows' \in [Tables -> SUBSET Registrants]
  BY <1>3 DEF EveryUserIsComplete, OneRegistrant, Tables
<1>10. WelcomeOnlyToUsers' /\ welcomed' \subseteq Registrants
  BY <1>2, <1>3, <1>4 DEF WelcomeOnlyToUsers
<1> QED
  BY <1>6, <1>7, <1>8, <1>9, <1>10

\* A transaction that rolls back leaves no row behind.
LEMMA RollBackKeeps ==
    ASSUME SignupInv, NEW c \in Registrants, RollBackUser(c)
    PROVE  SignupInv'
<1> USE DEF SignupInv, SignupTypes, States, SignupStates, LoginStates, GoTo
<1>1. InTransaction(c) /\ UNCHANGED <<rows, welcomed>> /\ pc' = [pc EXCEPT ![c] = "failed"]
  BY DEF RollBackUser, InTransaction
<1>2. \A d \in Registrants \ {c} : ~InTransaction(d) /\ pc'[d] = pc[d]
  BY <1>1 DEF IndexGuards, Clients
<1>3. pc'[c] = "failed" /\ pc' \in [Clients -> States]
  BY <1>1 DEF Clients
<1>4. IndexGuards'
  BY <1>2, <1>3 DEF IndexGuards, InTransaction
<1>5. AnsweredIsCommitted'
  BY <1>1, <1>2, <1>3 DEF AnsweredIsCommitted
<1> QED
  BY <1>1, <1>3, <1>4, <1>5 DEF OneRegistrant, EveryUserIsComplete, WelcomeOnlyToUsers

\* The background task runs for a committed registration only.
LEMMA WelcomeKeeps ==
    ASSUME SignupInv, NEW c \in Registrants, SendWelcome(c)
    PROVE  SignupInv'
<1> USE DEF SignupInv, SignupTypes, States, SignupStates, LoginStates, GoTo
<1>1. /\ c \in rows["users"] /\ welcomed' = welcomed \cup {c}
      /\ UNCHANGED <<rows, holder>> /\ pc' = [pc EXCEPT ![c] = "welcomed"]
  BY DEF SendWelcome, AnsweredIsCommitted, tables
<1>2. pc' \in [Clients -> States] /\ pc'[c] = "welcomed"
  BY <1>1 DEF Clients
<1>3. \A d \in Registrants \ {c} : pc'[d] = pc[d]
  BY <1>1 DEF Clients
<1>4. IndexGuards'
  BY <1>1, <1>2, <1>3 DEF IndexGuards, InTransaction
<1>5. AnsweredIsCommitted'
  BY <1>1, <1>2, <1>3 DEF AnsweredIsCommitted
<1> QED
  BY <1>1, <1>2, <1>4, <1>5 DEF OneRegistrant, EveryUserIsComplete, WelcomeOnlyToUsers

\* Looking for the address and linking a user row insert nothing.
LEMMA LookUpKeeps ==
    ASSUME SignupInv, NEW c \in Registrants,
           FindAddress(c) \/ CommitLink(c) \/ RollBackLink(c)
    PROVE  SignupInv'
<1>1. PICK s \in {"absent", "conflict", "logged in", "linking", "failed"} :
          pc' = [pc EXCEPT ![c] = s]
  BY DEF FindAddress, CommitLink, RollBackLink, GoTo
<1>2. UNCHANGED <<rows, welcomed>> /\ UNCHANGED holder
  BY DEF FindAddress, CommitLink, RollBackLink, tables
<1> QED
  BY <1>1, <1>2, Elsewhere DEF Clients, States, SignupStates

\* Logins do not touch what sign-ups depend on.
LEMMA LoginKeeps ==
    ASSUME SignupInv, NEW l \in Logins, LoginStep(l) \/ RedisFails(l)
    PROVE  SignupInv'
<1>1. UNCHANGED <<rows, welcomed>> /\ UNCHANGED holder
  BY DEF LoginStep, StartLogin, CountFailure, RecordFailure, ResetFailures,
         CommitLogin, RedisFails, tables
<1>2. \E s \in LoginStates : pc' = [pc EXCEPT ![l] = s]
  <2>1. CASE StartLogin(l)
    <3>1. PICK verdict \in {"right", "wrong"} :
              GoTo(l, CASE ~Registered \/ (~row.locked /\ ~row.password) -> "refused"
                        [] Registered /\ row.locked                      -> "locked"
                        [] OTHER                                         -> verdict)
      BY <2>1, Zenon DEF StartLogin
    <3> DEFINE refused == ~Registered \/ (~row.locked /\ ~row.password)
               locked  == Registered /\ row.locked
    <3>2. CASE refused
      <4>1. ~locked
        BY <3>2
      <4> QED
        BY <3>1, <3>2, <4>1 DEF GoTo, LoginStates
    <3>3. CASE ~refused /\ locked
      BY <3>1, <3>3 DEF GoTo, LoginStates
    <3>4. CASE ~refused /\ ~locked
      BY <3>1, <3>4 DEF GoTo, LoginStates
    <3> QED
      BY <3>2, <3>3, <3>4
  <2>2. CASE CountFailure(l) \/ RecordFailure(l) \/ ResetFailures(l)
             \/ CommitLogin(l) \/ RedisFails(l)
    BY <2>2 DEF CountFailure, RecordFailure, ResetFailures, CommitLogin, RedisFails,
                GoTo, LoginStates
  <2> QED
    BY <2>1, <2>2 DEF LoginStep
<1> QED
  BY <1>1, <1>2, Elsewhere DEF Clients, States, LoginStates

\* Every step keeps the invariant.
LEMMA SignupNext == SignupInv /\ [Next]_vars => SignupInv'
<1> SUFFICES ASSUME SignupInv, [Next]_vars PROVE SignupInv'
  OBVIOUS
<1>1. CASE \E c \in Registrants : SignupStep(c) \/ RollBackUser(c) \/ RollBackLink(c)
  BY <1>1, InsertKeeps, FlushKeeps, CommitKeeps, RollBackKeeps, WelcomeKeeps, LookUpKeeps
     DEF SignupStep
<1>2. CASE \E l \in Logins : LoginStep(l) \/ RedisFails(l)
  BY <1>2, LoginKeeps
<1>3. CASE WindowEnds \/ UNCHANGED vars
  <2>1. UNCHANGED <<rows, holder, pc, welcomed>>
    BY <1>3 DEF WindowEnds, vars, tables
  <2> QED
    BY <2>1 DEF SignupInv, SignupTypes, IndexGuards, OneRegistrant, AnsweredIsCommitted,
                EveryUserIsComplete, WelcomeOnlyToUsers, InTransaction
<1> QED
  BY <1>1, <1>2, <1>3 DEF Next

\* The invariant holds in every behaviour.
LEMMA SignupInvariant == Spec => []SignupInv
BY SignupInit, SignupNext, PTL DEF Spec

\* However many registrations and Google logins there are for an address, and
\* whichever of them roll back, one user at most is created for it.
THEOREM NoSecondUser == Spec => []OneUserPerEmail
<1>1. SignupInv => OneUserPerEmail
  <2>1. SUFFICES ASSUME OneRegistrant PROVE Cardinality(rows["users"]) <= 1
    BY DEF SignupInv, OneUserPerEmail
  <2>2. CASE rows["users"] = {}
    BY <2>2, FS_EmptySet
  <2>3. CASE \E c \in Registrants : rows["users"] = {c}
    BY <2>3, FS_Singleton
  <2> QED
    BY <2>1, <2>2, <2>3 DEF OneRegistrant
<1> QED
  BY <1>1, SignupInvariant, PTL

\* A user has a credit account and a default key, and neither is there without
\* the user, whatever rolls back.
THEOREM UsersAreComplete == Spec => []EveryUserIsComplete
<1>1. SignupInv => EveryUserIsComplete
  BY DEF SignupInv
<1> QED
  BY <1>1, SignupInvariant, PTL

\* The welcome email goes to users that exist only.
THEOREM OnlyUsersAreWelcomed == Spec => []WelcomeOnlyToUsers
<1>1. SignupInv => WelcomeOnlyToUsers
  BY DEF SignupInv
<1> QED
  BY <1>1, SignupInvariant, PTL

-------------------------------------------------------------------------------
(* The counter of failed logins.                                           *)

CounterInv ==
    /\ attempts \in Nat
    /\ seen \in [Logins -> Nat]
    /\ CounterEnds

\* What does not touch the counter keeps the login that created it.
LEMMA CounterKept ==
    ASSUME CounterInv, UNCHANGED <<attempts, expiring, starter, seen>>,
           \A l \in Logins : pc[l] \in {"counted", "failed"} => pc'[l] = pc[l]
    PROVE  CounterInv'
BY DEF CounterInv, CounterEnds, FirstFailure

\* Signing up does not touch it.
LEMMA SignupKeepsCounter ==
    ASSUME SignupInv, CounterInv, NEW c \in Registrants,
           SignupStep(c) \/ RollBackUser(c) \/ RollBackLink(c)
    PROVE  CounterInv'
<1>1. UNCHANGED <<attempts, expiring, starter, seen>>
  BY DEF SignupStep, FindAddress, InsertUser, InsertAccount, InsertKey, CommitUser, SendWelcome,
     CommitLink, RollBackUser, RollBackLink, counter
<1>2. \A l \in Logins : pc'[l] = pc[l]
  <2>1. ASSUME NEW s, GoTo(c, s) PROVE \A l \in Logins : pc'[l] = pc[l]
    BY <2>1, AccountAssumption DEF GoTo, SignupInv, SignupTypes, Clients
  <2>2. CASE FindAddress(c)
    BY <2>1, <2>2, Zenon DEF FindAddress
  <2>3. CASE InsertUser(c)
    BY <2>1, <2>3 DEF InsertUser
  <2>4. CASE InsertAccount(c) \/ InsertKey(c) \/ CommitUser(c) \/ SendWelcome(c)
             \/ CommitLink(c) \/ RollBackUser(c) \/ RollBackLink(c)
    BY <2>1, <2>4 DEF InsertAccount, InsertKey, CommitUser, SendWelcome, CommitLink,
       RollBackUser, RollBackLink
  <2> QED
    BY <2>2, <2>3, <2>4 DEF SignupStep
<1> QED
  BY <1>1, <1>2, CounterKept

\* An INCR that was carried out: the login has its answer, or raised.
IncrCounts(l) ==
    \/ GoTo(l, "counted") /\ seen' = [seen EXCEPT ![l] = attempts + 1]
    \/ GoTo(l, "failed") /\ UNCHANGED seen

\* A login counts up and sets the TTL, or deletes the counter, or fails.
LEMMA LoginKeepsCounter ==
    ASSUME SignupInv, CounterInv, NEW l \in Logins, LoginStep(l) \/ RedisFails(l)
    PROVE  CounterInv'
<1>0. pc \in [Clients -> States] /\ l \in Clients /\ Logins \subseteq Clients
  BY DEF SignupInv, SignupTypes, Clients
<1>1. CASE StartLogin(l)
  <2>1. \E s : pc' = [pc EXCEPT ![l] = s]
    BY <1>1, Zenon DEF StartLogin, GoTo
  <2>2. pc[l] = "idle" /\ UNCHANGED <<attempts, expiring, starter, seen>>
    BY <1>1 DEF StartLogin, counter
  <2> QED
    BY <1>0, <2>1, <2>2, CounterKept
<1>2. CASE pc[l] = "wrong" /\ Incr(l) /\ IncrCounts(l)
  <2>1. CASE attempts = 0
    BY <1>0, <1>2, <2>1 DEF Incr, IncrCounts, GoTo, CounterInv, CounterEnds, FirstFailure
  <2>2. CASE attempts > 0
    <3>1. /\ attempts' > 0 /\ attempts' \in Nat /\ UNCHANGED <<expiring, starter>>
          /\ seen' \in [Logins -> Nat]
          /\ \A x \in Logins : x # l => pc'[x] = pc[x] /\ seen'[x] = seen[x]
      BY <1>0, <1>2, <2>2 DEF Incr, IncrCounts, GoTo, CounterInv
    <3> QED
      BY <1>2, <2>2, <3>1 DEF CounterInv, CounterEnds, FirstFailure
  <2> QED
    BY <2>1, <2>2 DEF CounterInv
<1>3. CASE RecordFailure(l)
  BY <1>0, <1>3 DEF RecordFailure, StartWindow, GoTo, CounterInv, CounterEnds, FirstFailure
<1>4. CASE Del /\ UNCHANGED seen
  BY <1>4 DEF Del, CounterInv, CounterEnds
<1>5. CASE CommitLogin(l)
  BY <1>0, <1>5, CounterKept DEF CommitLogin, GoTo, counter
<1>6. CASE RedisFails(l)
  <2>1. pc' = [pc EXCEPT ![l] = "failed"] /\ UNCHANGED seen
    BY <1>6 DEF RedisFails, GoTo
  <2>2. CASE UNCHANGED counter
    <3>1. UNCHANGED <<attempts, expiring, starter, seen>>
      BY <2>1, <2>2 DEF counter
    <3> QED
      BY <1>0, <2>1, <3>1 DEF CounterInv, CounterEnds, FirstFailure
  <2>3. CASE pc[l] = "wrong" /\ Incr(l)
    BY <1>2, <2>1, <2>3 DEF IncrCounts, GoTo
  <2>4. CASE FirstFailure(l) /\ StartWindow(l)
    BY <1>0, <2>1, <2>4 DEF StartWindow, CounterInv, CounterEnds, FirstFailure
  <2>5. CASE Del
    BY <1>4, <2>1, <2>5
  <2> QED
    BY <1>6, <2>2, <2>3, <2>4, <2>5 DEF RedisFails, IncrFails, ExpireFails, DelFails
<1>7. CountFailure(l) => pc[l] = "wrong" /\ Incr(l) /\ IncrCounts(l)
  BY DEF CountFailure, IncrCounts
<1>8. ResetFailures(l) => Del /\ UNCHANGED seen
  BY DEF ResetFailures
<1> QED
  BY <1>1, <1>2, <1>3, <1>4, <1>5, <1>6, <1>7, <1>8 DEF LoginStep

LEMMA CounterNext == SignupInv /\ CounterInv /\ [Next]_vars => CounterInv'
<1> SUFFICES ASSUME SignupInv, CounterInv, [Next]_vars PROVE CounterInv'
  OBVIOUS
<1>1. CASE WindowEnds
  BY <1>1 DEF WindowEnds, Del, CounterInv, CounterEnds
<1>2. CASE UNCHANGED vars
  BY <1>2, CounterKept DEF vars, counter
<1> QED
  BY <1>1, <1>2, SignupKeepsCounter, LoginKeepsCounter DEF Next

\* The counter has a TTL, so that it ends with its window, unless the login that
\* created it is about to set the TTL or failed before it could.
THEOREM FailureCounterEnds == Spec => []CounterEnds
<1>1. Init => CounterInv
  BY DEF Init, CounterInv, CounterEnds
<1>2. CounterInv => CounterEnds
  BY DEF CounterInv
<1> QED
  BY <1>1, <1>2, SignupInit, SignupNext, CounterNext, PTL DEF Spec
===============================================================================
