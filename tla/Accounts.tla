-------------------------------- MODULE Accounts --------------------------------
(***************************************************************************)
(* Signing up and logging in with one email address: api/auth.py, with the *)
(* default key of services/virtual_key.py and the sessions of database.py. *)
(*                                                                         *)
(* A registration and a first Google login both look for the address, find *)
(* nothing, and insert a user, a credit account and a default key in one   *)
(* transaction.  The unique index on users.email decides between those that*)
(* overlap: an INSERT waits for the transaction that inserted the address  *)
(* before it.  A login counts its failures in Redis and in the user row;   *)
(* any of its Redis commands may fail, before or after it took effect.     *)
(*                                                                         *)
(* Left out: deactivated users, since nothing deactivates one, and Google  *)
(* identities that share an address.                                       *)
(***************************************************************************)
EXTENDS Naturals, FiniteSets

CONSTANTS
    Signups,            \* POST /auth/register requests for the address
    Googles,            \* POST /auth/oauth/google requests for the address
    Logins,             \* POST /auth/login requests for the address
    MaxFailedAttempts,
    Faults,             \* what may go wrong in this instance
    None                \* nobody: the address is free, there is no counter

Registrants == Signups \cup Googles
Clients     == Registrants \cup Logins

ASSUME AccountAssumption ==
    /\ Signups \cap Googles = {}
    /\ Registrants \cap Logins = {}
    /\ MaxFailedAttempts \in Nat \ {0}
    /\ Faults \subseteq {"rollback", "redis"}
    /\ None \notin Clients

Tables == {"users", "credit_accounts", "virtual_keys"}

\* The columns of the user row that somebody changes.
Rows == [password : BOOLEAN, google : BOOLEAN, failed : Nat, locked : BOOLEAN]

VARIABLES
    rows,       \* who inserted the committed rows of a table
    row,        \* the user row of the address
    holder,     \* the transaction that inserted the address and is still open
    attempts,   \* login_attempts:{user_id} in Redis, 0 when there is no key
    expiring,   \* the key has a TTL
    starter,    \* whose INCR created the key: what happened, not kept in Redis
    pc,         \* how far a request has got
    seen,       \* what INCR returned to a login
    welcomed    \* the registrants the welcome email was sent to

tables  == <<rows, row, holder>>
counter == <<attempts, expiring, starter>>
vars    == <<tables, counter, pc, seen, welcomed>>

NewRow(password) ==
    [password |-> password, google |-> ~password, failed |-> 0, locked |-> FALSE]

Init ==
    /\ rows     = [t \in Tables |-> {}]
    /\ row      = NewRow(TRUE)
    /\ holder   = None
    /\ attempts = 0
    /\ expiring = FALSE
    /\ starter  = None
    /\ pc       = [c \in Clients |-> "idle"]
    /\ seen     = [l \in Logins |-> 0]
    /\ welcomed = {}

GoTo(c, state) == pc' = [pc EXCEPT ![c] = state]

Registered == rows["users"] # {}

\* get_db commits what a handler returned from and rolls back what it raised
\* from, an HTTPException included.
AfterHandler(outcome, draft) == IF outcome = "returned" THEN draft ELSE row

-------------------------------------------------------------------------------
(* Signing up: register, and oauth_google for an address it does not know. *)

\* An address that is taken answers 409 to a registration; a Google login
\* links the user row to Google unless it is linked already.
FindAddress(c) ==
    /\ pc[c] = "idle"
    /\ GoTo(c, CASE ~Registered                         -> "absent"
                 [] Registered /\ c \in Signups         -> "conflict"
                 [] Registered /\ c \in Googles /\ row.google -> "logged in"
                 [] OTHER                               -> "linking")
    /\ UNCHANGED <<tables, counter, seen, welcomed>>

\* Mutant of AddressIsFree: there is no unique index.
NoIndex == TRUE

\* The INSERT waits for an open transaction that inserted the address.
AddressIsFree == holder = None

\* The unique index refuses an address that was committed since it was looked
\* for: IntegrityError, answered 500.
InsertUser(c) ==
    /\ pc[c] = "absent"
    /\ AddressIsFree
    /\ IF Registered
       THEN GoTo(c, "failed") /\ UNCHANGED holder
       ELSE GoTo(c, "user") /\ holder' = c
    /\ UNCHANGED <<rows, row, counter, seen, welcomed>>

\* The credit account and the transaction that records its free credit.
InsertAccount(c) ==
    /\ pc[c] = "user"
    /\ GoTo(c, "account")
    /\ UNCHANGED <<tables, counter, seen, welcomed>>

\* Mutant of InsertKey: the welcome email does not wait for the response.
WelcomeAtOnce(c) ==
    /\ pc[c] = "account"
    /\ GoTo(c, "key")
    /\ welcomed' = welcomed \cup {c}
    /\ UNCHANGED <<tables, counter, seen>>

\* The default key; the welcome email is queued as a background task.
InsertKey(c) ==
    /\ pc[c] = "account"
    /\ GoTo(c, "key")
    /\ UNCHANGED <<tables, counter, seen, welcomed>>

\* Mutant of Complete: the first flush is already committed.
UserFlushed(c) == pc[c] \in {"user", "account", "key"}

Complete(c) == pc[c] = "key"

\* What the open transaction of a registrant has flushed so far.
Flushed(c) ==
    CASE pc[c] = "user"    -> {"users"}
      [] pc[c] = "account" -> {"users", "credit_accounts"}
      [] OTHER             -> Tables

CommitUser(c) ==
    /\ Complete(c)
    /\ rows'   = [t \in Tables |-> IF t \in Flushed(c) THEN rows[t] \cup {c} ELSE rows[t]]
    /\ row'    = NewRow(c \in Signups)
    /\ holder' = None
    /\ GoTo(c, "registered")
    /\ UNCHANGED <<counter, seen, welcomed>>

\* Mutant of Vacate: the index entry outlives the transaction.
KeepEntry(c) == UNCHANGED holder

Vacate(c) == holder' = None

RollBackUser(c) ==
    /\ "rollback" \in Faults
    /\ pc[c] \in {"user", "account", "key"}
    /\ Vacate(c)
    /\ GoTo(c, "failed")
    /\ UNCHANGED <<rows, row, counter, seen, welcomed>>

\* Background tasks run once the response is sent, hence after the COMMIT.
SendWelcome(c) ==
    /\ pc[c] = "registered"
    /\ welcomed' = welcomed \cup {c}
    /\ GoTo(c, "welcomed")
    /\ UNCHANGED <<tables, counter, seen>>

CommitLink(g) ==
    /\ pc[g] = "linking"
    /\ row' = AfterHandler("returned", [row EXCEPT !.google = TRUE])
    /\ GoTo(g, "logged in")
    /\ UNCHANGED <<rows, holder, counter, seen, welcomed>>

RollBackLink(g) ==
    /\ "rollback" \in Faults
    /\ pc[g] = "linking"
    /\ GoTo(g, "failed")
    /\ UNCHANGED <<tables, counter, seen, welcomed>>

-------------------------------------------------------------------------------
(* Logging in: login.                                                      *)

\* 401 for an unknown address or one without a password, 423 while the
\* account is locked; otherwise the password is right or wrong.
StartLogin(l) ==
    /\ pc[l] = "idle"
    /\ \E verdict \in {"right", "wrong"} :
           GoTo(l, CASE ~Registered \/ (~row.locked /\ ~row.password) -> "refused"
                     [] Registered /\ row.locked                      -> "locked"
                     [] OTHER                                         -> verdict)
    /\ UNCHANGED <<tables, counter, seen, welcomed>>

\* INCR creates the key that is not there; DEL and the end of the TTL remove it.
Incr(l) ==
    /\ attempts' = attempts + 1
    /\ starter' = IF attempts = 0 THEN l ELSE starter
    /\ UNCHANGED expiring

Del ==
    /\ attempts' = 0
    /\ expiring' = FALSE
    /\ starter' = None

CountFailure(l) ==
    /\ pc[l] = "wrong"
    /\ Incr(l)
    /\ seen' = [seen EXCEPT ![l] = attempts + 1]
    /\ GoTo(l, "counted")
    /\ UNCHANGED <<tables, welcomed>>

\* Mutant of FirstFailure: off by one.
SecondFailure(l) == seen[l] = 2

FirstFailure(l) == seen[l] = 1

\* EXPIRE does nothing to a key that is gone.
StartWindow(l) ==
    /\ expiring' = (expiring \/ (FirstFailure(l) /\ attempts > 0))
    /\ UNCHANGED <<attempts, starter>>

\* _record_failed_login after its INCR; the login then raises its 401.
RecordFailure(l) ==
    /\ pc[l] = "counted"
    /\ StartWindow(l)
    /\ row' = AfterHandler("raised",
                  [row EXCEPT !.failed = seen[l],
                              !.locked = @ \/ seen[l] >= MaxFailedAttempts])
    /\ GoTo(l, "refused")
    /\ UNCHANGED <<rows, holder, seen, welcomed>>

ResetFailures(l) ==
    /\ pc[l] = "right"
    /\ Del
    /\ GoTo(l, "reset")
    /\ UNCHANGED <<tables, seen, welcomed>>

CommitLogin(l) ==
    /\ pc[l] = "reset"
    /\ row' = AfterHandler("returned", [row EXCEPT !.failed = 0, !.locked = FALSE])
    /\ GoTo(l, "logged in")
    /\ UNCHANGED <<rows, holder, counter, seen, welcomed>>

\* None of the three commands is guarded: the login is answered 500 when one
\* raises, which it may do although it was carried out.  A process that ends
\* after INCR, before EXPIRE, leaves what an EXPIRE that did nothing leaves.
IncrFails(l) ==
    /\ pc[l] = "wrong"
    /\ UNCHANGED counter \/ Incr(l)

ExpireFails(l) ==
    /\ pc[l] = "counted"
    /\ FirstFailure(l)
    /\ UNCHANGED counter \/ StartWindow(l)

DelFails(l) ==
    /\ pc[l] = "right"
    /\ UNCHANGED counter \/ Del

RedisFails(l) ==
    /\ "redis" \in Faults
    /\ IncrFails(l) \/ ExpireFails(l) \/ DelFails(l)
    /\ GoTo(l, "failed")
    /\ UNCHANGED <<tables, seen, welcomed>>

\* The key reaches its TTL of 15 minutes; a lock lasts as long and is taken
\* to end with it.
WindowEnds ==
    /\ expiring
    /\ Del
    /\ row' = [row EXCEPT !.locked = FALSE]
    /\ UNCHANGED <<rows, holder, pc, seen, welcomed>>

-------------------------------------------------------------------------------
SignupStep(c) ==
    \/ FindAddress(c) \/ InsertUser(c) \/ InsertAccount(c) \/ InsertKey(c)
    \/ CommitUser(c) \/ SendWelcome(c) \/ CommitLink(c)

LoginStep(l) ==
    \/ StartLogin(l) \/ CountFailure(l) \/ RecordFailure(l)
    \/ ResetFailures(l) \/ CommitLogin(l)

Next ==
    \/ \E c \in Registrants : SignupStep(c) \/ RollBackUser(c) \/ RollBackLink(c)
    \/ \E l \in Logins : LoginStep(l) \/ RedisFails(l)
    \/ WindowEnds

Spec == Init /\ [][Next]_vars

\* The event loop runs every ready coroutine, and PostgreSQL lets an INSERT
\* that waits for an index entry go on once the entry is decided.
Fairness == \A c \in Registrants : WF_vars(SignupStep(c))

FairSpec == Spec /\ Fairness

-------------------------------------------------------------------------------
(* What must hold.                                                         *)

\* However registrations and Google logins overlap, one user at most is
\* created for the address.
OneUserPerEmail == Cardinality(rows["users"]) <= 1

\* Whatever rolls back, a user has a credit account with the free credit and
\* a default key, and neither exists without its user.
EveryUserIsComplete == \A t \in Tables : rows[t] = rows["users"]

\* Nobody is welcomed whose registration was rolled back.
WelcomeOnlyToUsers == welcomed \subseteq rows["users"]

\* A counter of failed logins without a TTL never ends.  It has one although
\* INCR and EXPIRE are two commands and a login that succeeds may delete the key
\* between them: but for the login that created it, which is about to set the
\* TTL or failed before it could.
CounterEnds ==
    attempts > 0 /\ ~expiring =>
        /\ starter \in Logins
        /\ \/ pc[starter] = "counted" /\ FirstFailure(starter)
           \/ pc[starter] = "failed"

\* A registration that found the address free is answered, also when it has
\* to wait for another one that rolls back.
SignupIsAnswered ==
    \A c \in Registrants : pc[c] = "absent" ~> pc[c] \in {"welcomed", "failed"}

-------------------------------------------------------------------------------
\* "Lock account for 15 min after 10 consecutive failures (Redis counter)"
\* (api/auth.py:13): once no login is under way, an account whose counter has
\* reached the limit is locked.
LockedAfterMaxFailures ==
    /\ attempts >= MaxFailedAttempts
    /\ \A l \in Logins : pc[l] \notin {"wrong", "counted", "right", "reset"}
    => row.locked
===============================================================================
