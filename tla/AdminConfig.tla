------------------------------ MODULE AdminConfig ------------------------------
(***************************************************************************)
(* What administrators configure and requests read through Redis: markup   *)
(* rates (services/markup.py, services/admin_markup.py) and the keywords of*)
(* the guardrail (services/guardrail.py), with their endpoints in          *)
(* api/admin.py.                                                           *)
(*                                                                         *)
(* An endpoint reads the row it is to change, flushes the change, drops    *)
(* the cached copies, and is committed by get_db only afterwards.  A       *)
(* request that finds no copy reads the tables and stores one: the rate of *)
(* a model for 60 seconds, the keywords for 300.  Resolving a rate takes   *)
(* up to three SELECTs.                                                    *)
(*                                                                         *)
(* All models belong to one provider; rates are numbers, keywords names.   *)
(***************************************************************************)
EXTENDS Naturals, FiniteSets

CONSTANTS
    Models,
    Rates,          \* markup rates an administrator may enter
    DefaultRate,    \* DEFAULT_MARKUP_RATE
    Words,          \* keywords an administrator may enter
    Edits,          \* requests of administrators
    Requests,       \* gateway requests, each of them repeated
    Faults,         \* what may go wrong in this instance
    None            \* no rate, no row, nothing cached

Scopes == {"global", "provider"}

\* What an administrator asks for.
Orders ==
    [kind : Scopes, rate : Rates]
        \cup [kind : {"model"}, model : Models, rate : Rates \cup {None}]
        \cup [kind : {"add", "change"}, word : Words]
        \cup [kind : {"remove"}]

\* The rows of markup_config; one that an edit inserts has the edit as its id.
ConfigRows == [id : Edits, scope : Scopes, rate : Rates]

ASSUME ConfigAssumption ==
    /\ Rates \cup {DefaultRate} \subseteq Nat
    /\ Edits \cap Requests = {}
    /\ Faults \subseteq {"redis", "rollback"}
    /\ None \notin Nat \cup Edits \cup Words \cup ConfigRows

VARIABLES
    modelRate,  \* models.markup_rate
    configs,    \* rows of markup_config
    keywords,   \* active rows of guardrail_keywords
    rateCache,  \* markup:{model_id}
    wordCache,  \* guardrails:keywords
    order,      \* what an edit asks for
    found,      \* the row an edit read, None when there was none
    pc,         \* how far an edit or a request has got
    model,      \* the model a request is for
    rate,       \* the markup rate a request resolved
    banned,     \* the keywords a request loaded
    \* history
    raced       \* scopes in which two edits found no row at the same time

tables == <<modelRate, configs, keywords>>
caches == <<rateCache, wordCache>>
vars   == <<tables, caches, order, found, pc, model, rate, banned, raced>>

\* markup_config is not seeded; one keyword is there from the start.
Init ==
    /\ modelRate = [m \in Models |-> None]
    /\ configs   = {}
    /\ keywords  \in { {[id |-> None, word |-> w]} : w \in Words }
    /\ rateCache = [m \in Models |-> None]
    /\ wordCache = None
    /\ order     \in [Edits -> Orders]
    /\ found     = [e \in Edits |-> None]
    /\ pc        = [c \in Edits \cup Requests |-> "idle"]
    /\ model     \in [Requests -> Models]
    /\ rate      = [r \in Requests |-> DefaultRate]
    /\ banned    = [r \in Requests |-> {}]
    /\ raced     = {}

GoTo(c, state) == pc' = [pc EXCEPT ![c] = state]

\* The edit is of a markup rate, not of a keyword.
IsMarkup(e) == order[e].kind \in Scopes \cup {"model"}

ActiveWords == { k.word : k \in keywords }

RowsOf(scope) == { c \in configs : c.scope = scope }

-------------------------------------------------------------------------------
(* The admin endpoints: read, flush and invalidate, commit.                *)

\* Mutant of SelectConfig: the row of the other scope is looked for.
SelectOther(scope) == configs \ RowsOf(scope)

SelectConfig(scope) == RowsOf(scope)

InsertsInto(e, scope) ==
    order[e].kind = scope /\ pc[e] \in {"read", "flushed"} /\ found[e] = None

\* scalar_one_or_none raises on a second row: answered 500.
ReadConfig(e) ==
    LET scope == order[e].kind
        rows  == SelectConfig(scope)
    IN  /\ pc[e] = "idle"
        /\ scope \in Scopes
        /\ GoTo(e, IF Cardinality(rows) > 1 THEN "failed" ELSE "read")
        /\ found' = [found EXCEPT ![e] = IF rows = {} THEN None ELSE CHOOSE c \in rows : TRUE]
        /\ raced' = IF rows = {} /\ \E f \in Edits : InsertsInto(f, scope)
                    THEN raced \cup {scope} ELSE raced
        /\ UNCHANGED <<tables, caches, order, model, rate, banned>>

ReadModel(e) ==
    /\ pc[e] = "idle"
    /\ order[e].kind = "model"
    /\ found' = [found EXCEPT ![e] =
                    [id |-> order[e].model, rate |-> modelRate[order[e].model]]]
    /\ GoTo(e, "read")
    /\ UNCHANGED <<tables, caches, order, model, rate, banned, raced>>

\* create_guardrail_keyword: 409 if the keyword is there, 500 if there are two.
CheckKeyword(e) ==
    /\ pc[e] = "idle"
    /\ order[e].kind = "add"
    /\ GoTo(e, IF order[e].word \in ActiveWords THEN "failed" ELSE "read")
    /\ UNCHANGED <<tables, caches, order, found, model, rate, banned, raced>>

\* update_ and delete_guardrail_keyword: 404 if the row is inactive.
ReadKeyword(e) ==
    /\ pc[e] = "idle"
    /\ order[e].kind \in {"change", "remove"}
    /\ \/ \E k \in keywords : found' = [found EXCEPT ![e] = k] /\ GoTo(e, "read")
       \/ keywords = {} /\ GoTo(e, "failed") /\ UNCHANGED found
    /\ UNCHANGED <<tables, caches, order, model, rate, banned, raced>>

\* The ORM sees no change when the new value is the one it read.
Changes(e) ==
    CASE order[e].kind = "remove" -> TRUE
      [] order[e].kind = "change" -> order[e].word # found[e].word
      [] OTHER                    -> order[e].rate # found[e].rate

UpdatesRow(e) == found[e] # None /\ Changes(e)

\* The UPDATE waits for the transaction that has the row.
RowIsFree(e) ==
    ~ \E f \in Edits \ {e} :
        /\ pc[f] = "flushed"
        /\ UpdatesRow(e) /\ UpdatesRow(f)
        /\ IsMarkup(e) = IsMarkup(f)
        /\ found[e].id = found[f].id

\* A model's own rate concerns one copy, any other rate all of them.
DropRates(e) ==
    IF order[e].kind = "model"
    THEN rateCache' = [rateCache EXCEPT ![order[e].model] = None]
    ELSE rateCache' = [m \in Models |-> None]

\* A Redis error is swallowed: the copies expire on their own.
Invalidate(e) ==
    \/ IF IsMarkup(e)
       THEN DropRates(e) /\ UNCHANGED wordCache
       ELSE wordCache' = None /\ UNCHANGED rateCache
    \/ "redis" \in Faults /\ UNCHANGED caches

Flush(e) ==
    /\ pc[e] = "read"
    /\ RowIsFree(e)
    /\ Invalidate(e)
    /\ GoTo(e, "flushed")
    /\ UNCHANGED <<tables, order, found, model, rate, banned, raced>>

WriteConfig(e) ==
    LET scope == order[e].kind
    IN  configs' =
            IF found[e] = None
            THEN configs \cup {[id |-> e, scope |-> scope, rate |-> order[e].rate]}
            ELSE { IF c.id = found[e].id /\ Changes(e)
                   THEN [c EXCEPT !.rate = order[e].rate] ELSE c : c \in configs }

WriteKeyword(e) ==
    LET others == { k \in keywords : found[e] = None \/ k.id # found[e].id }
    IN  CASE order[e].kind = "remove" -> keywords' = others
          [] order[e].kind = "add"    ->
                 keywords' = keywords \cup {[id |-> e, word |-> order[e].word]}
          [] OTHER ->
                 keywords' =
                     IF others = keywords \/ ~Changes(e) THEN keywords
                     ELSE others \cup {[id |-> found[e].id, word |-> order[e].word]}

Commit(e) ==
    /\ pc[e] = "flushed"
    /\ CASE order[e].kind \in Scopes ->
                WriteConfig(e) /\ UNCHANGED <<modelRate, keywords>>
         [] order[e].kind = "model" ->
                /\ modelRate' = IF Changes(e)
                                THEN [modelRate EXCEPT ![found[e].id] = order[e].rate]
                                ELSE modelRate
                /\ UNCHANGED <<configs, keywords>>
         [] OTHER -> WriteKeyword(e) /\ UNCHANGED <<modelRate, configs>>
    /\ GoTo(e, "done")
    /\ UNCHANGED <<caches, order, found, model, rate, banned, raced>>

\* The answer to an UPDATE of a rate reads updated_at, which onupdate has left
\* expired; loading it outside of an await raises, and get_db rolls back.
AnswerRaises(e) == pc[e] = "flushed" /\ IsMarkup(e) /\ UpdatesRow(e)

RollBack(e) ==
    /\ pc[e] \in {"read", "flushed"}
    /\ "rollback" \in Faults \/ AnswerRaises(e)
    /\ GoTo(e, "failed")
    /\ UNCHANGED <<tables, caches, order, found, model, rate, banned, raced>>

-------------------------------------------------------------------------------
(* resolve_markup_rate.                                                    *)

Resolved(r, value) == rate' = [rate EXCEPT ![r] = value]

LookUpRate(r) ==
    /\ pc[r] = "idle"
    /\ \/ /\ rateCache[model[r]] # None
          /\ Resolved(r, rateCache[model[r]])
          /\ GoTo(r, "priced")
       \/ /\ rateCache[model[r]] = None \/ "redis" \in Faults
          /\ GoTo(r, "model")
          /\ UNCHANGED rate
    /\ UNCHANGED <<tables, caches, order, found, model, banned, raced>>

ReadModelRate(r) ==
    /\ pc[r] = "model"
    /\ IF modelRate[model[r]] # None
       THEN Resolved(r, modelRate[model[r]]) /\ GoTo(r, "resolved")
       ELSE GoTo(r, "provider") /\ UNCHANGED rate
    /\ UNCHANGED <<tables, caches, order, found, model, banned, raced>>

\* The level a request goes on to when a scope has no row.
NextLevel(scope) == IF scope = "provider" THEN "global" ELSE "resolved"

\* A second row makes scalar_one_or_none raise: the request is answered 500.
ReadScope(r, scope) ==
    /\ pc[r] = scope
    /\ LET rows == RowsOf(scope)
       IN  \/ Cardinality(rows) > 1 /\ GoTo(r, "error") /\ UNCHANGED rate
           \/ /\ Cardinality(rows) = 1
              /\ \E c \in rows : Resolved(r, c.rate)
              /\ GoTo(r, "resolved")
           \/ /\ rows = {}
              /\ GoTo(r, NextLevel(scope))
              /\ Resolved(r, DefaultRate)
    /\ UNCHANGED <<tables, caches, order, found, model, banned, raced>>

CacheRate(r) ==
    /\ pc[r] = "resolved"
    /\ \/ rateCache' = [rateCache EXCEPT ![model[r]] = rate[r]]
       \/ "redis" \in Faults /\ UNCHANGED rateCache
    /\ GoTo(r, "priced")
    /\ UNCHANGED <<tables, wordCache, order, found, model, rate, banned, raced>>

-------------------------------------------------------------------------------
(* check_input and check_output.                                           *)

LookUpKeywords(r) ==
    /\ pc[r] = "priced"
    /\ \/ wordCache # None /\ banned' = [banned EXCEPT ![r] = wordCache] /\ GoTo(r, "idle")
       \/ /\ wordCache = None \/ "redis" \in Faults
          /\ GoTo(r, "loading")
          /\ UNCHANGED banned
    /\ UNCHANGED <<tables, caches, order, found, model, rate, raced>>

LoadKeywords(r) ==
    /\ pc[r] = "loading"
    /\ banned' = [banned EXCEPT ![r] = ActiveWords]
    /\ GoTo(r, "loaded")
    /\ UNCHANGED <<tables, caches, order, found, model, rate, raced>>

CacheKeywords(r) ==
    /\ pc[r] = "loaded"
    /\ \/ wordCache' = banned[r]
       \/ "redis" \in Faults /\ UNCHANGED wordCache
    /\ GoTo(r, "idle")
    /\ UNCHANGED <<tables, rateCache, order, found, model, rate, banned, raced>>

\* Mutant of RateExpires: stored without a TTL.
RateStays(m) == FALSE /\ UNCHANGED vars

RateExpires(m) ==
    /\ rateCache[m] # None
    /\ rateCache' = [rateCache EXCEPT ![m] = None]
    /\ UNCHANGED <<tables, wordCache, order, found, pc, model, rate, banned, raced>>

\* Mutant of KeywordsExpire: stored without a TTL.
KeywordsStay == FALSE /\ UNCHANGED vars

KeywordsExpire ==
    /\ wordCache # None
    /\ wordCache' = None
    /\ UNCHANGED <<tables, rateCache, order, found, pc, model, rate, banned, raced>>

-------------------------------------------------------------------------------
EditStep(e) ==
    \/ ReadConfig(e) \/ ReadModel(e) \/ CheckKeyword(e) \/ ReadKeyword(e)
    \/ Flush(e) \/ Commit(e)

RequestStep(r) ==
    \/ LookUpRate(r) \/ ReadModelRate(r)
    \/ \E scope \in Scopes : ReadScope(r, scope)
    \/ CacheRate(r)
    \/ LookUpKeywords(r) \/ LoadKeywords(r) \/ CacheKeywords(r)

Next ==
    \/ \E e \in Edits : EditStep(e) \/ RollBack(e)
    \/ \E r \in Requests : RequestStep(r)
    \/ \E m \in Models : RateExpires(m)
    \/ KeywordsExpire

Spec == Init /\ [][Next]_vars

\* The event loop runs every ready coroutine, PostgreSQL grants a row lock to
\* its waiters in turn, and Redis drops a key whose TTL has run out.
Fairness ==
    /\ \A e \in Edits : WF_vars(EditStep(e))
    /\ \A r \in Requests : WF_vars(RequestStep(r))
    /\ \A m \in Models : WF_vars(RateExpires(m))
    /\ WF_vars(KeywordsExpire)

FairSpec == Spec /\ Fairness

-------------------------------------------------------------------------------
(* What must hold.                                                         *)

\* The rate the priorities select; no rate if a scope has two rows.
EffectiveRates(m) ==
    LET RatesOf(scope) ==
            IF Cardinality(RowsOf(scope)) > 1 THEN {} ELSE { c.rate : c \in RowsOf(scope) }
    IN  IF modelRate[m] # None THEN {modelRate[m]}
        ELSE IF RowsOf("provider") # {} THEN RatesOf("provider")
        ELSE IF RowsOf("global") # {} THEN RatesOf("global")
        ELSE {DefaultRate}

\* The rates stored and charged are those.
RatesReached ==
    /\ \A m \in Models : rateCache[m] # None => rateCache[m] \in EffectiveRates(m)
    /\ \A r \in Requests : pc[r] = "priced" => rate[r] \in EffectiveRates(model[r])

\* Once the administrators are done, requests sooner or later charge the rate
\* that model, provider and global level select, in this order, although every
\* copy is dropped before the change it stands for is committed.
RatesReachRequests == <>[]RatesReached

\* The keywords stored and scanned for are those that are active.
KeywordsReached ==
    /\ wordCache # None => wordCache = ActiveWords
    /\ \A r \in Requests : pc[r] # "error" => banned[r] = ActiveWords

\* The same for the keywords that requests are scanned for.
KeywordsReachRequests == <>[]KeywordsReached

\* A scope gets a second row, and requests fail for it, only if two first
\* upserts overlapped: NULLs keep the unique constraint from preventing that.
UpsertsKeepOneRow ==
    /\ \A scope \in Scopes \ raced : Cardinality(RowsOf(scope)) <= 1
    /\ raced = {} => \A r \in Requests : pc[r] # "error"
===============================================================================
