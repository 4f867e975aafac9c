--------------------------- MODULE AdminConfigProofs ---------------------------
(***************************************************************************)
(* Theorems about AdminConfig, for every set of models, administrators and *)
(* requests: only overlapping first upserts give a scope a second row, and *)
(* what was replaced does not come back.                                   *)
(***************************************************************************)
EXTENDS AdminConfig, FiniteSetTheorems, TLAPS

Types ==
    /\ configs \in SUBSET ConfigRows
    /\ order   \in [Edits -> Orders]
    /\ found   = [e \in Edits |-> found[e]]
    /\ pc      = [c \in Edits \cup Requests |-> pc[c]]

OneRow(scope) == \A c, d \in RowsOf(scope) : c = d

\* Whoever is to insert the first row of a scope is the only one.
OneInsert(scope) ==
    \A e \in Edits :
        InsertsInto(e, scope) =>
            /\ RowsOf(scope) = {}
            /\ \A f \in Edits : InsertsInto(f, scope) => f = e

NotRaced == \A scope \in Scopes \ raced : OneRow(scope) /\ OneInsert(scope)

NoErrors == raced = {} => \A r \in Requests : pc[r] # "error"

UpsertInv == Types /\ NotRaced /\ NoErrors

-------------------------------------------------------------------------------
\* One row at most is a cardinality of one at most.
LEMMA OneRowCardinality ==
    ASSUME NEW scope, OneRow(scope)
    PROVE  Cardinality(RowsOf(scope)) \in {0, 1}
<1>1. CASE RowsOf(scope) = {}
  BY <1>1, FS_EmptySet
<1>2. CASE \E c \in RowsOf(scope) : RowsOf(scope) = {c}
  BY <1>2, FS_Singleton
<1>3. RowsOf(scope) = {} \/ \E c \in RowsOf(scope) : RowsOf(scope) = {c}
  BY DEF OneRow
<1>4. QED
  BY <1>1, <1>2, <1>3

LEMMA UpsertInit == Init => UpsertInv
BY ConfigAssumption
   DEF Init, UpsertInv, Types, NotRaced, NoErrors, OneRow, OneInsert, InsertsInto, RowsOf

\* A step that leaves the rows alone and makes nobody insert or fail.
LEMMA Elsewhere ==
    ASSUME UpsertInv, UNCHANGED <<configs, order, raced>>, Types',
           \A e \in Edits, scope \in Scopes : InsertsInto(e, scope)' => InsertsInto(e, scope),
           \A r \in Requests : pc'[r] = "error" => pc[r] = "error"
    PROVE  UpsertInv'
<1>1. \A scope \in Scopes : RowsOf(scope)' = RowsOf(scope)
  BY DEF RowsOf
<1>2. ASSUME NEW scope \in Scopes \ raced' PROVE OneRow(scope)' /\ OneInsert(scope)'
  <2>1. scope \in Scopes /\ OneRow(scope) /\ OneInsert(scope) /\ RowsOf(scope)' = RowsOf(scope)
    BY <1>1, <1>2 DEF UpsertInv, NotRaced
  <2>2. OneRow(scope)'
    BY <2>1 DEF OneRow
  <2>3. OneInsert(scope)'
    BY <2>1 DEF OneInsert
  <2>4. QED
    BY <2>2, <2>3
<1>3. NoErrors'
  BY DEF UpsertInv, NoErrors
<1>4. QED
  BY <1>2, <1>3 DEF UpsertInv, NotRaced

\* An upsert that finds no row, like another before it, is a race.
LEMMA ReadKeeps ==
    ASSUME UpsertInv, NEW e \in Edits, ReadConfig(e)
    PROVE  UpsertInv'
<1> DEFINE scope == order[e].kind
           rows  == RowsOf(scope)
<1>1. /\ pc[e] = "idle" /\ scope \in Scopes
      /\ found' = [found EXCEPT ![e] = IF rows = {} THEN None ELSE CHOOSE c \in rows : TRUE]
      /\ raced' = IF rows = {} /\ \E f \in Edits : InsertsInto(f, scope)
                  THEN raced \cup {scope} ELSE raced
      /\ UNCHANGED <<configs, order>>
      /\ \E s \in {"failed", "read"} : pc' = [pc EXCEPT ![e] = s]
  BY DEF ReadConfig, SelectConfig, GoTo, tables
<1>2. Types'
  BY <1>1 DEF UpsertInv, Types
<1>3. rows # {} => found'[e] # None
  BY <1>1, ConfigAssumption DEF UpsertInv, Types, RowsOf
<1>4. \A f \in Edits \ {e}, s \in Scopes : InsertsInto(f, s)' <=> InsertsInto(f, s)
  BY <1>1 DEF InsertsInto, UpsertInv, Types
<1>5. \A s \in Scopes : ~InsertsInto(e, s)
  BY <1>1 DEF InsertsInto
<1>6. \A s \in Scopes : InsertsInto(e, s)' => s = scope /\ rows = {}
  BY <1>1, <1>3 DEF InsertsInto
<1>7. ASSUME NEW s \in Scopes \ raced' PROVE OneRow(s)' /\ OneInsert(s)'
  <2>1. s \in Scopes \ raced /\ OneRow(s) /\ OneInsert(s) /\ RowsOf(s)' = RowsOf(s)
    BY <1>1, <1>7 DEF UpsertInv, NotRaced, RowsOf
  <2>2. OneRow(s)'
    BY <2>1 DEF OneRow
  <2>3. ASSUME NEW f \in Edits, InsertsInto(f, s)'
        PROVE  RowsOf(s)' = {} /\ \A g \in Edits : InsertsInto(g, s)' => g = f
    <3>1. CASE f = e
      <4>1. s = scope /\ rows = {}
        BY <1>6, <2>1, <2>3, <3>1
      <4>2. \A g \in Edits : ~InsertsInto(g, s)
        BY <1>1, <1>7, <4>1
      <4>3. \A g \in Edits \ {e} : ~InsertsInto(g, s)'
        BY <1>4, <2>1, <4>2
      <4>4. QED
        BY <2>1, <3>1, <4>1, <4>3
    <3>2. CASE f # e
      <4>1. InsertsInto(f, s)
        BY <1>4, <2>1, <2>3, <3>2
      <4>2. RowsOf(s) = {} /\ \A g \in Edits : InsertsInto(g, s) => g = f
        BY <2>1, <2>3, <4>1 DEF OneInsert
      <4>3. ~InsertsInto(e, s)'
        BY <1>1, <1>6, <1>7, <2>1, <2>3, <4>1
      <4>4. QED
        BY <1>4, <2>1, <4>2, <4>3
    <3>3. QED
      BY <3>1, <3>2
  <2>4. OneInsert(s)'
    BY <2>3 DEF OneInsert
  <2>5. QED
    BY <2>2, <2>4
<1>8. NoErrors'
  BY <1>1, ConfigAssumption DEF UpsertInv, NoErrors, Types
<1>9. QED
  BY <1>2, <1>7, <1>8 DEF UpsertInv, NotRaced

\* The one insert fills an empty scope; an update replaces a row by one of the
\* same scope.
LEMMA CommitKeeps ==
    ASSUME UpsertInv, NEW e \in Edits, Commit(e)
    PROVE  UpsertInv'
<1>1. /\ pc[e] = "flushed" /\ pc' = [pc EXCEPT ![e] = "done"]
      /\ UNCHANGED <<order, found, raced>>
  BY DEF Commit, GoTo
<1>2. \A f \in Edits, s \in Scopes : InsertsInto(f, s)' => InsertsInto(f, s) /\ f # e
  BY <1>1 DEF InsertsInto, UpsertInv, Types
<1>3. \A r \in Requests : pc'[r] = pc[r]
  BY <1>1, ConfigAssumption DEF UpsertInv, Types
<1>4. CASE order[e].kind \notin Scopes
  <2>1. UNCHANGED configs
    BY <1>4 DEF Commit, WriteKeyword
  <2>2. Types'
    BY <1>1, <2>1 DEF UpsertInv, Types
  <2>3. QED
    BY <1>1, <1>2, <1>3, <2>1, <2>2, Elsewhere
<1>5. CASE order[e].kind \in Scopes
  <2> DEFINE scope == order[e].kind
             new   == [id |-> e, scope |-> scope, rate |-> order[e].rate]
  <2>1. WriteConfig(e)
    <3>1. order[e].kind # "model"
      BY <1>5 DEF Scopes
    <3>2. QED
      BY <1>5, <3>1 DEF Commit
  <2>2. order[e].rate \in Rates
    BY <1>5 DEF UpsertInv, Types, Orders, Scopes
  <2>3. NoErrors'
    BY <1>1, <1>3 DEF UpsertInv, NoErrors
  <2>4. CASE found[e] = None
    <3>1. configs' = configs \cup {new}
      BY <2>1, <2>4 DEF WriteConfig
    <3>2. new \in ConfigRows
      BY <1>5, <2>2 DEF ConfigRows
    <3>3. Types'
      BY <1>1, <3>1, <3>2 DEF UpsertInv, Types
    <3>4. ASSUME NEW s \in Scopes \ raced' PROVE OneRow(s)' /\ OneInsert(s)'
      <4>1. OneRow(s) /\ OneInsert(s)
        BY <1>1, <3>4 DEF UpsertInv, NotRaced
      <4>2. CASE s = scope
        <5>1. InsertsInto(e, s)
          BY <1>1, <2>4, <4>2 DEF InsertsInto
        <5>2. RowsOf(s) = {} /\ \A f \in Edits : ~InsertsInto(f, s)'
          BY <1>2, <3>4, <4>1, <5>1 DEF OneInsert
        <5>3. RowsOf(s)' = {new}
          BY <3>1, <4>2, <5>2 DEF RowsOf
        <5>4. QED
          BY <5>2, <5>3 DEF OneRow, OneInsert
      <4>3. CASE s # scope
        <5>1. RowsOf(s)' = RowsOf(s)
          BY <3>1, <4>3 DEF RowsOf
        <5>2. QED
          BY <1>2, <3>4, <4>1, <5>1 DEF OneRow, OneInsert
      <4>4. QED
        BY <4>2, <4>3
    <3>5. QED
      BY <2>3, <3>3, <3>4 DEF UpsertInv, NotRaced
  <2>5. CASE found[e] # None
    <3> DEFINE New(c) == IF c.id = found[e].id /\ Changes(e)
                         THEN [c EXCEPT !.rate = order[e].rate] ELSE c
    <3>1. configs' = { New(c) : c \in configs }
      BY <2>1, <2>5 DEF WriteConfig
    <3>2. \A c \in ConfigRows : New(c) \in ConfigRows /\ New(c).scope = c.scope
      BY <2>2 DEF ConfigRows
    <3> HIDE DEF New
    <3>3. configs \subseteq ConfigRows
      BY DEF UpsertInv, Types
    <3>4. Types'
      BY <1>1, <3>1, <3>2, <3>3 DEF UpsertInv, Types
    <3>5. \A s \in Scopes : RowsOf(s)' = { New(c) : c \in RowsOf(s) }
      BY <3>1, <3>2, <3>3 DEF RowsOf
    <3>6. ASSUME NEW s \in Scopes \ raced' PROVE OneRow(s)' /\ OneInsert(s)'
      <4>1. OneRow(s) /\ OneInsert(s) /\ RowsOf(s)' = { New(c) : c \in RowsOf(s) }
        BY <1>1, <3>5, <3>6 DEF UpsertInv, NotRaced
      <4>2. OneRow(s)'
        BY <4>1 DEF OneRow
      <4>3. OneInsert(s)'
        BY <1>2, <3>6, <4>1 DEF OneInsert
      <4>4. QED
        BY <4>2, <4>3
    <3>7. QED
      BY <2>3, <3>4, <3>6 DEF UpsertInv, NotRaced
  <2>6. QED
    BY <2>4, <2>5
<1>6. QED
  BY <1>4, <1>5

\* A flush, a rollback, and the reading of other tables insert nothing.
LEMMA EditKeeps ==
    ASSUME UpsertInv, NEW e \in Edits,
           \/ ReadModel(e) \/ CheckKeyword(e) \/ ReadKeyword(e) \/ Flush(e) \/ RollBack(e)
    PROVE  UpsertInv'
<1>1. UNCHANGED <<configs, order, raced>>
  BY DEF ReadModel, CheckKeyword, ReadKeyword, Flush, RollBack, tables
<1>2. \E s \in {"failed", "read", "flushed"} : pc' = [pc EXCEPT ![e] = s]
  BY DEF ReadModel, CheckKeyword, ReadKeyword, Flush, RollBack, GoTo
<1>3. \/ found' = found
      \/ \E row : found' = [found EXCEPT ![e] = row]
  BY DEF ReadModel, CheckKeyword, ReadKeyword, Flush, RollBack
<1>4. Types'
  BY <1>1, <1>2, <1>3 DEF UpsertInv, Types
<1>5. \A r \in Requests : pc'[r] = pc[r]
  BY <1>2, ConfigAssumption DEF UpsertInv, Types
<1>6. \A f \in Edits \ {e}, s \in Scopes : InsertsInto(f, s)' => InsertsInto(f, s)
  BY <1>1, <1>2, <1>3 DEF InsertsInto, UpsertInv, Types
<1>7. \A s \in Scopes : InsertsInto(e, s)' => InsertsInto(e, s)
  <2>1. CASE ReadModel(e) \/ CheckKeyword(e) \/ ReadKeyword(e)
    BY <1>1, <2>1 DEF ReadModel, CheckKeyword, ReadKeyword, InsertsInto, Scopes
  <2>2. CASE Flush(e)
    BY <1>1, <2>2 DEF Flush, InsertsInto
  <2>3. CASE RollBack(e)
    BY <1>1, <2>3 DEF RollBack, InsertsInto, GoTo, UpsertInv, Types
  <2>4. QED
    BY <2>1, <2>2, <2>3
<1>8. QED
  BY <1>1, <1>4, <1>5, <1>6, <1>7, Elsewhere

\* A request fails only in a scope with two rows.
LEMMA RequestKeeps ==
    ASSUME UpsertInv, NEW r \in Requests, RequestStep(r)
    PROVE  UpsertInv'
<1>1. UNCHANGED <<configs, order, found, raced>>
  BY DEF RequestStep, LookUpRate, ReadModelRate, ReadScope, CacheRate, LookUpKeywords,
     LoadKeywords, CacheKeywords, tables
<1>2. PICK s : pc' = [pc EXCEPT ![r] = s]
  BY DEF RequestStep, LookUpRate, ReadModelRate, ReadScope, CacheRate, LookUpKeywords,
     LoadKeywords, CacheKeywords, GoTo
<1>3. Types'
  BY <1>1, <1>2 DEF UpsertInv, Types
<1>4. \A e \in Edits, scope \in Scopes : InsertsInto(e, scope)' => InsertsInto(e, scope)
  BY <1>1, <1>2, ConfigAssumption DEF InsertsInto, UpsertInv, Types
<1>5. CASE s # "error"
  BY <1>1, <1>2, <1>3, <1>4, <1>5, Elsewhere DEF UpsertInv, Types
<1>6. CASE s = "error"
  <2>1. PICK scope \in Scopes : Cardinality(RowsOf(scope)) > 1
    BY <1>2, <1>6 DEF RequestStep, LookUpRate, ReadModelRate, ReadScope, CacheRate,
       LookUpKeywords, LoadKeywords, CacheKeywords, GoTo, NextLevel, UpsertInv, Types
  <2>2. raced # {}
    BY <2>1, OneRowCardinality DEF UpsertInv, NotRaced
  <2>3. NotRaced'
    BY <1>1, <1>4 DEF UpsertInv, NotRaced, OneRow, OneInsert, RowsOf
  <2>4. QED
    BY <1>1, <1>3, <2>2, <2>3 DEF UpsertInv, NoErrors
<1>7. QED
  BY <1>5, <1>6

LEMMA UpsertStep == UpsertInv /\ [Next]_vars => UpsertInv'
<1> SUFFICES ASSUME UpsertInv, [Next]_vars PROVE UpsertInv'
  OBVIOUS
<1>1. CASE \E e \in Edits : EditStep(e) \/ RollBack(e)
  BY <1>1, ReadKeeps, CommitKeeps, EditKeeps DEF EditStep
<1>2. CASE \E r \in Requests : RequestStep(r)
  BY <1>2, RequestKeeps
<1>3. CASE (\E m \in Models : RateExpires(m)) \/ KeywordsExpire \/ UNCHANGED vars
  <2>1. UNCHANGED <<configs, order, found, pc, raced>>
    BY <1>3 DEF RateExpires, KeywordsExpire, vars, tables
  <2>2. Types'
    BY <2>1 DEF UpsertInv, Types
  <2>3. \A e \in Edits, scope \in Scopes : InsertsInto(e, scope)' => InsertsInto(e, scope)
    BY <2>1 DEF InsertsInto
  <2>4. QED
    BY <2>1, <2>2, <2>3, Elsewhere
<1>4. QED
  BY <1>1, <1>2, <1>3 DEF Next

\* A scope gets a second row, and requests fail for it, only if two first
\* upserts overlapped.
THEOREM OneRowUnlessRaced == Spec => []UpsertsKeepOneRow
<1>1. UpsertInv => UpsertsKeepOneRow
  BY OneRowCardinality DEF UpsertInv, NotRaced, NoErrors, UpsertsKeepOneRow
<1>2. QED
  BY <1>1, UpsertInit, UpsertStep, PTL DEF Spec

-------------------------------------------------------------------------------
(* What is configured and what requests use.  That requests come to use it  *)
(* takes fairness; that they never go back to what it replaced does not.    *)

Functions ==
    /\ pc        = [c \in Edits \cup Requests |-> pc[c]]
    /\ rateCache = [m \in Models |-> rateCache[m]]
    /\ rate      = [r \in Requests |-> rate[r]]
    /\ banned    = [r \in Requests |-> banned[r]]
    /\ model \in [Requests -> Models]

LEMMA FunctionsInit == Init => Functions
BY DEF Init, Functions

LEMMA FunctionsStep == Functions /\ [Next]_vars => Functions'
<1> SUFFICES ASSUME Functions, [Next]_vars PROVE Functions'
  OBVIOUS
<1> USE DEF Functions, GoTo, Resolved, tables, caches
<1>1. ASSUME NEW e \in Edits, EditStep(e) \/ RollBack(e) PROVE Functions'
  <2>1. CASE ReadConfig(e) \/ ReadModel(e) \/ CheckKeyword(e) \/ ReadKeyword(e) \/ RollBack(e)
    BY <2>1 DEF ReadConfig, ReadModel, CheckKeyword, ReadKeyword, RollBack
  <2>2. CASE Flush(e)
    BY <2>2 DEF Flush, Invalidate, DropRates
  <2>3. CASE Commit(e)
    BY <2>3 DEF Commit
  <2>4. QED
    BY <1>1, <2>1, <2>2, <2>3 DEF EditStep
<1>2. ASSUME NEW r \in Requests, RequestStep(r) PROVE Functions'
  <2>1. CASE LookUpRate(r) \/ ReadModelRate(r) \/ \E scope \in Scopes : ReadScope(r, scope)
    BY <2>1 DEF LookUpRate, ReadModelRate, ReadScope
  <2>2. CASE CacheRate(r) \/ LookUpKeywords(r) \/ LoadKeywords(r) \/ CacheKeywords(r)
    BY <2>2 DEF CacheRate, LookUpKeywords, LoadKeywords, CacheKeywords
  <2>3. QED
    BY <1>2, <2>1, <2>2 DEF RequestStep
<1>3. CASE (\E m \in Models : RateExpires(m)) \/ KeywordsExpire \/ UNCHANGED vars
  BY <1>3 DEF RateExpires, KeywordsExpire, vars
<1>4. QED
  BY <1>1, <1>2, <1>3 DEF Next

\* No administrator changes anything any more.
EditsOver == \A e \in Edits : pc[e] \in {"done", "failed"}

\* Then the tables stay as they are.
LEMMA TablesStay ==
    ASSUME Functions, EditsOver, [Next]_vars
    PROVE  UNCHANGED tables /\ EditsOver'
<1>1. \A e \in Edits : ~EditStep(e) /\ ~RollBack(e)
  BY DEF EditsOver, EditStep, ReadConfig, ReadModel, CheckKeyword, ReadKeyword, Flush, Commit,
     RollBack
<1>2. ASSUME NEW r \in Requests, RequestStep(r) PROVE UNCHANGED tables /\ EditsOver'
  <2>1. UNCHANGED tables /\ \E s : pc' = [pc EXCEPT ![r] = s]
    BY <1>2 DEF RequestStep, LookUpRate, ReadModelRate, ReadScope, CacheRate, LookUpKeywords,
       LoadKeywords, CacheKeywords, GoTo
  <2>2. QED
    BY <2>1, ConfigAssumption DEF EditsOver, Functions
<1>3. CASE (\E m \in Models : RateExpires(m)) \/ KeywordsExpire \/ UNCHANGED vars
  BY <1>3 DEF RateExpires, KeywordsExpire, vars, EditsOver
<1>4. QED
  BY <1>1, <1>2, <1>3 DEF Next

\* The rates stored, charged and about to be found are those that are configured.
RatesFresh ==
    /\ RatesReached
    /\ \A r \in Requests :
           /\ pc[r] = "resolved" => rate[r] \in EffectiveRates(model[r])
           /\ pc[r] \in Scopes   => modelRate[model[r]] = None
           /\ pc[r] = "global"   => RowsOf("provider") = {}

\* A level that has a row is reached only by requests that found the levels
\* above it empty.
LEMMA ScopeResolves ==
    ASSUME NEW r \in Requests, NEW scope \in Scopes, RatesFresh, ReadScope(r, scope),
           pc'[r] = "resolved", Functions
    PROVE  rate'[r] \in EffectiveRates(model[r])
<1>1. pc[r] = scope /\ modelRate[model[r]] = None /\ (scope = "global" => RowsOf("provider") = {})
  BY DEF ReadScope, RatesFresh
<1>2. CASE RowsOf(scope) = {}
  <2>1. scope = "global" /\ rate'[r] = DefaultRate
    BY <1>1, <1>2, FS_EmptySet DEF ReadScope, Scopes, NextLevel, GoTo, Resolved, Functions
  <2>2. QED
    BY <1>1, <1>2, <2>1 DEF EffectiveRates
<1>3. CASE RowsOf(scope) # {}
  <2>1. Cardinality(RowsOf(scope)) = 1 /\ rate'[r] \in { c.rate : c \in RowsOf(scope) }
    BY <1>3 DEF ReadScope, GoTo, Resolved, Functions
  <2>2. ~(Cardinality(RowsOf(scope)) > 1)
    BY <2>1
  <2>3. CASE scope = "provider"
    BY <1>1, <1>3, <2>1, <2>2, <2>3 DEF EffectiveRates
  <2>4. CASE scope = "global"
    BY <1>1, <1>3, <2>1, <2>2, <2>4 DEF EffectiveRates
  <2>5. QED
    BY <2>3, <2>4 DEF Scopes
<1>4. QED
  BY <1>2, <1>3

\* A request finds, stores and charges what fresh copies and tables say.
LEMMA RatesStayFresh == Functions /\ EditsOver /\ RatesFresh /\ [Next]_vars => RatesFresh'
<1> SUFFICES ASSUME Functions, EditsOver, RatesFresh, [Next]_vars PROVE RatesFresh'
  OBVIOUS
<1>1. UNCHANGED tables
  BY TablesStay
<1>2. \A s : RowsOf(s)' = RowsOf(s)
  BY <1>1 DEF RowsOf, tables
<1>3. \A m : EffectiveRates(m)' = EffectiveRates(m)
  BY <1>1, <1>2 DEF EffectiveRates, tables
<1>4. \A e \in Edits : ~EditStep(e) /\ ~RollBack(e)
  BY DEF EditsOver, EditStep, ReadConfig, ReadModel, CheckKeyword, ReadKeyword, Flush, Commit,
     RollBack
<1>5. ASSUME NEW r \in Requests, RequestStep(r) PROVE RatesFresh'
  <2>1. UNCHANGED <<modelRate, model>> /\ model[r] \in Models
    BY <1>1, <1>5 DEF RequestStep, LookUpRate, ReadModelRate, ReadScope, CacheRate,
       LookUpKeywords, LoadKeywords, CacheKeywords, tables, Functions
  <2>2. \A q \in Requests \ {r} : pc'[q] = pc[q] /\ rate'[q] = rate[q]
    BY <1>5 DEF RequestStep, LookUpRate, ReadModelRate, ReadScope, CacheRate, LookUpKeywords,
       LoadKeywords, CacheKeywords, GoTo, Resolved, Functions
  <2> DEFINE Stored == \A m \in Models : rateCache'[m] # None => rateCache'[m] \in EffectiveRates(m)
             Known  == /\ pc'[r] \in {"resolved", "priced"} => rate'[r] \in EffectiveRates(model[r])
                       /\ pc'[r] \in Scopes   => modelRate[model[r]] = None
                       /\ pc'[r] = "global"   => RowsOf("provider") = {}
  <2>3. CASE LookUpRate(r)
    <3>1. Stored
      BY <2>3 DEF LookUpRate, RatesFresh, RatesReached, caches
    <3>2. Known
      BY <2>1, <2>3 DEF LookUpRate, RatesFresh, RatesReached, GoTo, Resolved, Functions, Scopes
    <3>3. QED
      BY <1>2, <1>3, <2>1, <2>2, <3>1, <3>2 DEF RatesFresh, RatesReached
  <2>4. CASE ReadModelRate(r)
    <3>1. Stored
      BY <2>4 DEF ReadModelRate, RatesFresh, RatesReached, caches
    <3>2. Known
      <4>1. CASE modelRate[model[r]] # None
        <5>1. EffectiveRates(model[r]) = {modelRate[model[r]]}
          BY <4>1 DEF EffectiveRates
        <5>2. pc'[r] = "resolved" /\ rate'[r] = modelRate[model[r]]
          BY <2>4, <4>1 DEF ReadModelRate, GoTo, Resolved, Functions
        <5>3. QED
          BY <5>1, <5>2 DEF Scopes
      <4>2. CASE modelRate[model[r]] = None
        BY <2>4, <4>2 DEF ReadModelRate, GoTo, Functions
      <4>3. QED
        BY <4>1, <4>2
    <3>3. QED
      BY <1>2, <1>3, <2>1, <2>2, <3>1, <3>2 DEF RatesFresh, RatesReached
  <2>5. CASE \E scope \in Scopes : ReadScope(r, scope)
    <3>1. PICK scope \in Scopes : ReadScope(r, scope)
      BY <2>5
    <3>2. Stored
      BY <3>1 DEF ReadScope, RatesFresh, RatesReached, caches
    <3>3. pc'[r] = "resolved" => rate'[r] \in EffectiveRates(model[r])
      BY <3>1, ScopeResolves
    <3>4. pc'[r] # "priced" /\ (pc'[r] \in Scopes => pc'[r] = "global" /\ RowsOf("provider") = {}
                                                       /\ scope = "provider")
      BY <3>1 DEF ReadScope, GoTo, NextLevel, Functions, Scopes
    <3>5. modelRate[model[r]] = None
      BY <3>1 DEF ReadScope, RatesFresh
    <3>6. Known
      BY <3>3, <3>4, <3>5 DEF Scopes
    <3>7. QED
      BY <1>2, <1>3, <2>1, <2>2, <3>2, <3>6 DEF RatesFresh, RatesReached
  <2>6. CASE CacheRate(r)
    <3>1. rate'[r] \in EffectiveRates(model[r]) /\ rate'[r] = rate[r]
      BY <2>6 DEF CacheRate, RatesFresh
    <3>2. Stored
      BY <2>1, <2>6, <3>1 DEF CacheRate, RatesFresh, RatesReached, Functions
    <3>3. Known
      BY <2>6, <3>1 DEF CacheRate, GoTo, Functions, Scopes
    <3>4. QED
      BY <1>2, <1>3, <2>1, <2>2, <3>2, <3>3 DEF RatesFresh, RatesReached
  <2>7. CASE LookUpKeywords(r) \/ LoadKeywords(r) \/ CacheKeywords(r)
    <3>1. Stored
      BY <2>7 DEF LookUpKeywords, LoadKeywords, CacheKeywords, RatesFresh, RatesReached, caches
    <3>2. Known
      BY <2>7 DEF LookUpKeywords, LoadKeywords, CacheKeywords, GoTo, Functions, Scopes
    <3>3. QED
      BY <1>2, <1>3, <2>1, <2>2, <3>1, <3>2 DEF RatesFresh, RatesReached
  <2>8. QED
    BY <1>5, <2>3, <2>4, <2>5, <2>6, <2>7 DEF RequestStep
<1>6. CASE \E m \in Models : RateExpires(m)
  BY <1>1, <1>2, <1>3, <1>6 DEF RateExpires, RatesFresh, RatesReached, Functions, tables
<1>7. CASE KeywordsExpire \/ UNCHANGED vars
  BY <1>1, <1>2, <1>3, <1>7 DEF KeywordsExpire, RatesFresh, RatesReached, vars, caches, tables
<1>8. QED
  BY <1>4, <1>5, <1>6, <1>7 DEF Next

\* What a request scans for is what it finds stored or active.
LEMMA KeywordsStayReached ==
    Functions /\ EditsOver /\ KeywordsReached /\ [Next]_vars => KeywordsReached'
<1> SUFFICES ASSUME Functions, EditsOver, KeywordsReached, [Next]_vars PROVE KeywordsReached'
  OBVIOUS
<1>1. ActiveWords' = ActiveWords
  BY TablesStay DEF ActiveWords, tables
<1>2. \A e \in Edits : ~EditStep(e) /\ ~RollBack(e)
  BY DEF EditsOver, EditStep, ReadConfig, ReadModel, CheckKeyword, ReadKeyword, Flush, Commit,
     RollBack
<1>3. ASSUME NEW r \in Requests, RequestStep(r) PROVE KeywordsReached'
  <2>1. CASE LookUpRate(r) \/ ReadModelRate(r) \/ CacheRate(r)
    BY <1>1, <2>1 DEF LookUpRate, ReadModelRate, CacheRate, KeywordsReached, GoTo, Functions, caches
  <2>2. CASE \E scope \in Scopes : ReadScope(r, scope)
    BY <1>1, <2>2 DEF ReadScope, KeywordsReached, GoTo, Functions, caches, Scopes
  <2>3. CASE LookUpKeywords(r) \/ LoadKeywords(r) \/ CacheKeywords(r)
    BY <1>1, <2>3 DEF LookUpKeywords, LoadKeywords, CacheKeywords, KeywordsReached, GoTo,
       Functions, caches
  <2>4. QED
    BY <1>3, <2>1, <2>2, <2>3 DEF RequestStep
<1>4. CASE (\E m \in Models : RateExpires(m)) \/ KeywordsExpire \/ UNCHANGED vars
  BY <1>1, <1>4 DEF RateExpires, KeywordsExpire, KeywordsReached, vars, caches
<1>5. QED
  BY <1>2, <1>3, <1>4 DEF Next

\* Once the administrators are done and no request holds or is about to find a
\* rate that was replaced, no request is ever again charged one, although a
\* request keeps its rate between statements and stores it when it has it.
THEOREM ReplacedRatesStayAway == Spec => [](EditsOver /\ RatesFresh => []RatesReached)
<1>1. Functions /\ EditsOver /\ [Next]_vars => EditsOver'
  BY TablesStay
<1>2. RatesFresh => RatesReached
  BY DEF RatesFresh
<1>3. QED
  BY <1>1, <1>2, FunctionsInit, FunctionsStep, RatesStayFresh, PTL DEF Spec

\* The same for the keywords that requests are scanned for.
THEOREM ReplacedKeywordsStayAway == Spec => [](EditsOver /\ KeywordsReached => []KeywordsReached)
<1>1. Functions /\ EditsOver /\ [Next]_vars => EditsOver'
  BY TablesStay
<1>2. QED
  BY <1>1, FunctionsInit, FunctionsStep, KeywordsStayReached, PTL DEF Spec

===============================================================================
