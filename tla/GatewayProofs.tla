----------------------------- MODULE GatewayProofs -----------------------------
(***************************************************************************)
(* Theorems about Gateway, for every set of providers and models, every    *)
(* configuration of fallbacks, every depth and every price.                *)
(***************************************************************************)
EXTENDS Gateway, WellFoundedInduction, TLAPS

-------------------------------------------------------------------------------
(* The walk along the fallback chain.                                      *)

\* The walk has left the requested provider behind, or has not started.
Behind ==
    /\ turns \in Nat
    /\ IF IsFallback THEN Requested \in visited ELSE current = Requested

\* An accepted provider was usable and has not been visited before.
Sound ==
    reason # None /\ ~ShouldBlock =>
        /\ state[current] = "usable"
        /\ current \notin visited
        /\ (reason = "ok") = ~IsFallback

WalkInv == Behind /\ Sound

LEMMA WalkInit == Init => WalkInv
BY RoutingAssumption DEF Init, WalkInv, Behind, Sound, IsFallback

LEMMA WalkStep == WalkInv /\ (Resolve \/ \E p \in Providers : HardStopChanges(p)) => WalkInv'
<1> SUFFICES ASSUME WalkInv, Resolve \/ \E p \in Providers : HardStopChanges(p)
             PROVE  WalkInv'
  OBVIOUS
<1> USE RoutingAssumption DEF WalkInv, Behind, Sound, IsFallback, ShouldBlock, Reasons, vars, config
<1>1. CASE RefuseCycle
  BY <1>1 DEF RefuseCycle, Conclude
<1>2. CASE Accept
  BY <1>2 DEF Accept, Checking, Cycle, Conclude
<1>3. CASE HandOver
  BY <1>3 DEF HandOver, Checking
<1>4. CASE RefuseNoFallback
  BY <1>4 DEF RefuseNoFallback, Checking, Conclude
<1>5. CASE DepthExceeded
  BY <1>5 DEF DepthExceeded, Conclude
<1>6. CASE \E p \in Providers : HardStopChanges(p)
  BY <1>6 DEF HardStopChanges
<1>7. QED
  BY <1>1, <1>2, <1>3, <1>4, <1>5, <1>6 DEF Resolve

LEMMA WalkIsHonest == WalkInv => DecisionIsHonest
BY DEF WalkInv, Behind, Sound, DecisionIsHonest

-------------------------------------------------------------------------------
(* The chain.  Link is a recursive function of the configured fallbacks, and *)
(* the prover knows of it only that it is chosen among the functions that    *)
(* satisfy its equation.  That there is one, and what a cycle or a provider  *)
(* without a fallback means for the links after it, is proved by induction:  *)
(* the set of numbers for which it holds contains 0 and, with n, also n + 1. *)

\* A nonempty set of natural numbers has a least element.
LEMMA LeastNumber ==
    ASSUME NEW T \in SUBSET Nat, T # {}
    PROVE  \E n \in T : \A m \in T : n <= m
<1>1. \E x \in T : \A y \in T : ~(<<y, x>> \in OpToRel(<, Nat))
  BY NatLessThanWellFounded, WFMin
<1>2. PICK x \in T : \A y \in T : ~(<<y, x>> \in OpToRel(<, Nat))
  BY <1>1
<1>3. \A y \in T : x \in Nat /\ y \in Nat /\ ~(y < x)
  BY <1>2 DEF OpToRel
<1>4. \A y \in T : x <= y
  BY <1>3
<1>5. QED
  BY <1>4

\* A set with 0 and the successor of each of its numbers has every number.
LEMMA SetInduction ==
    ASSUME NEW T, 0 \in T, \A n \in Nat : n \in T => n + 1 \in T
    PROVE  \A n \in Nat : n \in T
<1>1. SUFFICES ASSUME Nat \ T # {} PROVE FALSE
  OBVIOUS
<1>2. PICK n \in Nat \ T : \A m \in Nat \ T : n <= m
  <2>1. Nat \ T \in SUBSET Nat
    OBVIOUS
  <2>2. QED
    BY <1>1, <2>1, LeastNumber
<1>3. n # 0 /\ n - 1 \in Nat /\ ~(n <= n - 1)
  BY <1>2
<1>4. n - 1 \in T
  BY <1>2, <1>3
<1>5. (n - 1) + 1 = n
  BY <1>2
<1>6. QED
  BY <1>2, <1>3, <1>4, <1>5

\* The i-th link, from the links g before it and the fallbacks f.
NextLink(f, g, i) ==
    IF i = 0 THEN Requested ELSE IF g[i - 1] = None THEN None ELSE f[g[i - 1]]

\* g is the chain along the fallbacks f.
IsChain(f, g) == g = [i \in 0 .. MaxDepth |-> NextLink(f, g, i)]

ChainOf(f) == CHOOSE g : IsChain(f, g)

\* A chain exists: one that is right up to n gives one right up to n + 1.
LEMMA ChainExists == ASSUME NEW f PROVE IsChain(f, ChainOf(f))
<1> DEFINE T == { n \in Nat : \E g : \A i \in 0 .. MaxDepth : i <= n => g[i] = NextLink(f, g, i) }
<1>1. 0 \in T
  <2> DEFINE g == [i \in 0 .. MaxDepth |-> Requested]
  <2>1. \A i \in 0 .. MaxDepth : i <= 0 => g[i] = NextLink(f, g, i)
    BY DEF NextLink
  <2>2. QED
    BY <2>1
<1>2. ASSUME NEW n \in Nat, n \in T PROVE n + 1 \in T
  <2>1. PICK g : \A i \in 0 .. MaxDepth : i <= n => g[i] = NextLink(f, g, i)
    BY <1>2
  <2> DEFINE h == [i \in 0 .. MaxDepth |-> NextLink(f, g, i)]
  <2>2. \A i \in 0 .. MaxDepth : i <= n => h[i] = g[i]
    BY <2>1
  <2>3. ASSUME NEW i \in 0 .. MaxDepth, i <= n + 1 PROVE h[i] = NextLink(f, h, i)
    <3>1. CASE i = 0
      BY <3>1 DEF NextLink
    <3>2. CASE i # 0
      <4>1. i - 1 \in 0 .. MaxDepth /\ i - 1 <= n
        BY <2>3, <3>2, RoutingAssumption
      <4>2. h[i - 1] = g[i - 1]
        BY <2>2, <4>1
      <4>3. QED
        BY <3>2, <4>2 DEF NextLink
    <3>3. QED
      BY <3>1, <3>2
  <2> HIDE DEF h
  <2>4. QED
    BY <2>3
<1>3. MaxDepth \in T
  <2> HIDE DEF T
  <2>1. \A n \in Nat : n \in T
    BY <1>1, <1>2, SetInduction
  <2>2. QED
    BY <2>1, RoutingAssumption
<1>4. PICK g : \A i \in 0 .. MaxDepth : i <= MaxDepth => g[i] = NextLink(f, g, i)
  BY <1>3
<1> DEFINE h == [i \in 0 .. MaxDepth |-> g[i]]
<1>5. \A i \in 0 .. MaxDepth : NextLink(f, g, i) = NextLink(f, h, i)
  <2>1. \A i \in 0 .. MaxDepth : i # 0 => i - 1 \in 0 .. MaxDepth
    BY RoutingAssumption
  <2>2. QED
    BY <2>1 DEF NextLink
<1>6. \A i \in 0 .. MaxDepth : h[i] = NextLink(f, h, i)
  BY <1>4, <1>5, RoutingAssumption
<1>7. h = [i \in 0 .. MaxDepth |-> NextLink(f, h, i)]
  BY <1>6
<1>8. \E x : IsChain(f, x)
  BY <1>7 DEF IsChain
<1>9. QED
  BY <1>8 DEF ChainOf

\* Link is that chain for the configured fallbacks, before and after a step.
LEMMA LinkIsChain == Link = ChainOf(fallback) /\ Link' = ChainOf(fallback')
BY DEF Link, ChainOf, IsChain, NextLink

\* The chain from link to link.
LEMMA LinkEquation ==
    /\ MaxDepth \in Nat
    /\ Link[0] = Requested
    /\ \A i \in Nat : i < MaxDepth =>
           Link[i + 1] = IF Link[i] = None THEN None ELSE fallback[Link[i]]
<1>1. Link = [i \in 0 .. MaxDepth |-> NextLink(fallback, Link, i)]
  BY LinkIsChain, ChainExists DEF IsChain
<1>2. 0 \in 0 .. MaxDepth
  BY RoutingAssumption
<1>3. ASSUME NEW i \in Nat, i < MaxDepth
      PROVE  Link[i + 1] = IF Link[i] = None THEN None ELSE fallback[Link[i]]
  <2>1. i + 1 \in 0 .. MaxDepth /\ i + 1 # 0 /\ (i + 1) - 1 = i
    BY <1>3, RoutingAssumption
  <2>2. Link[i + 1] = NextLink(fallback, Link, i + 1)
    BY <1>1, <2>1
  <2>3. QED
    BY <2>1, <2>2 DEF NextLink
<1>4. QED
  BY <1>1, <1>2, <1>3, RoutingAssumption DEF NextLink

\* A chain that comes back to where it has been goes nowhere new.
LEMMA CycleClosed ==
    ASSUME NEW n \in Nat, n <= MaxDepth, Link[n] \in { Link[j] : j \in 0 .. n - 1 }
    PROVE  \A i \in 0 .. MaxDepth : Link[i] \in { Link[j] : j \in 0 .. n - 1 }
<1> DEFINE Seen == { Link[j] : j \in 0 .. n - 1 }
           T == { i \in Nat : i <= MaxDepth => Link[i] \in Seen }
<1>1. 0 \in T
  <2>1. 0 \in 0 .. n - 1
    OBVIOUS
  <2>2. QED
    BY <2>1
<1>2. ASSUME NEW i \in Nat, i \in T PROVE i + 1 \in T
  <2>1. SUFFICES ASSUME i + 1 <= MaxDepth PROVE Link[i + 1] \in Seen
    OBVIOUS
  <2>2. i < MaxDepth /\ MaxDepth \in Nat
    BY <2>1, RoutingAssumption
  <2>3. PICK j \in 0 .. n - 1 : Link[i] = Link[j]
    BY <1>2, <2>2
  <2>4. j \in Nat /\ j < MaxDepth /\ j + 1 \in 0 .. n
    BY <2>2, <2>3
  <2>5. Link[i + 1] = Link[j + 1]
    BY <2>2, <2>3, <2>4, LinkEquation
  <2>6. CASE j + 1 = n
    BY <2>5, <2>6
  <2>7. CASE j + 1 # n
    <3>1. j + 1 \in 0 .. n - 1
      BY <2>4, <2>7
    <3>2. QED
      BY <2>5, <3>1
  <2>8. QED
    BY <2>6, <2>7
<1>3. \A i \in Nat : i \in T
  <2> HIDE DEF T
  <2>1. QED
    BY <1>1, <1>2, SetInduction
<1>4. QED
  BY <1>3, RoutingAssumption

\* Nothing comes after a provider without a fallback.
LEMMA ChainEnds ==
    ASSUME NEW n \in Nat, n <= MaxDepth, Link[n] # None, fallback[Link[n]] = None
    PROVE  \A i \in 0 .. MaxDepth : i > n => Link[i] = None
<1> DEFINE T == { i \in Nat : n < i /\ i <= MaxDepth => Link[i] = None }
<1>1. 0 \in T
  OBVIOUS
<1>2. ASSUME NEW i \in Nat, i \in T PROVE i + 1 \in T
  <2>1. SUFFICES ASSUME n < i + 1, i + 1 <= MaxDepth PROVE Link[i + 1] = None
    OBVIOUS
  <2>2. /\ i < MaxDepth /\ MaxDepth \in Nat
        /\ Link[i + 1] = IF Link[i] = None THEN None ELSE fallback[Link[i]]
    BY <2>1, LinkEquation
  <2>3. CASE i = n
    BY <2>2, <2>3
  <2>4. CASE i # n
    BY <1>2, <2>1, <2>2, <2>4
  <2>5. QED
    BY <2>3, <2>4
<1>3. \A i \in Nat : i \in T
  <2> HIDE DEF T
  <2>1. QED
    BY <1>1, <1>2, SetInduction
<1>4. QED
  BY <1>3, RoutingAssumption

\* The providers the walk has left behind, and where it stands, are the links
\* of the chain; while no hard stop changes none of those behind is usable, and
\* a decision blocks the request only if no link at all is.
ChainInv ==
    /\ fallback \in [Providers -> Providers \cup {None}]
    /\ turns \in 0 .. MaxDepth + 1
    /\ current \in Providers
    /\ turns <= MaxDepth => current = Link[turns]
    /\ visited = { Link[j] : j \in 0 .. turns - 1 }
    /\ ~changed => \A j \in 0 .. turns - 1 : ~Usable(j)
    /\ reason # None /\ ~changed =>
           IF ShouldBlock THEN \A i \in 0 .. MaxDepth : ~Usable(i)
                          ELSE turns <= MaxDepth /\ Usable(turns)

LEMMA ChainInit == Init => ChainInv
<1> SUFFICES ASSUME Init PROVE ChainInv
  OBVIOUS
<1>1. turns = 0 /\ MaxDepth \in Nat /\ Requested \in Providers /\ 0 .. turns - 1 = {}
  BY RoutingAssumption DEF Init
<1>2. current = Link[0]
  BY LinkEquation DEF Init
<1>3. QED
  BY <1>1, <1>2 DEF Init, ChainInv

\* The chain depends on the fallbacks alone, which no step changes.
LEMMA LinkStays == UNCHANGED fallback => Link' = Link
BY LinkIsChain

\* A decision is about the providers as the walk left them.
LEMMA ConcludeKeeps ==
    ASSUME ChainInv, NEW why, Conclude(why),
           ~changed => IF why \notin {"ok", "fallback"}
                       THEN \A i \in 0 .. MaxDepth : ~Usable(i)
                       ELSE turns <= MaxDepth /\ Usable(turns)
    PROVE  ChainInv'
<1>1. UNCHANGED <<fallback, state, changed, current, visited, turns>> /\ reason' = why
  BY DEF Conclude, config
<1>2. Link' = Link
  BY <1>1, LinkStays
<1>3. QED
  BY <1>1, <1>2 DEF ChainInv, Usable, ShouldBlock

LEMMA ChainStep == ChainInv /\ [Next]_vars => ChainInv'
<1> SUFFICES ASSUME ChainInv, [Next]_vars PROVE ChainInv'
  OBVIOUS
<1>1. /\ MaxDepth \in Nat /\ None \notin Providers /\ turns \in 0 .. MaxDepth + 1
      /\ current \in Providers /\ visited = { Link[j] : j \in 0 .. turns - 1 }
  BY RoutingAssumption DEF ChainInv
<1>2. turns <= MaxDepth => turns \in Nat /\ current = Link[turns] /\ Link[turns] # None
  BY <1>1 DEF ChainInv
<1>3. CASE RefuseCycle
  <2>1. turns <= MaxDepth /\ Link[turns] \in { Link[j] : j \in 0 .. turns - 1 }
    BY <1>1, <1>2, <1>3 DEF RefuseCycle, Cycle
  <2>2. \A i \in 0 .. MaxDepth : Link[i] \in { Link[j] : j \in 0 .. turns - 1 }
    BY <1>2, <2>1, CycleClosed
  <2>3. ~changed => \A i \in 0 .. MaxDepth : ~Usable(i)
    BY <2>2 DEF ChainInv, Usable
  <2>4. QED
    BY <1>3, <2>3, ConcludeKeeps DEF RefuseCycle
<1>4. CASE Accept
  <2>1. turns <= MaxDepth /\ Usable(turns)
    BY <1>2, <1>4 DEF Accept, Checking, Usable
  <2>2. Conclude("ok") \/ Conclude("fallback")
    BY <1>4 DEF Accept
  <2>3. QED
    BY <2>1, <2>2, ConcludeKeeps
<1>5. CASE HandOver
  <2>1. /\ turns <= MaxDepth /\ reason = None /\ state[current] # "usable"
        /\ current' = fallback[current] /\ fallback[current] # None
        /\ visited' = visited \cup {current} /\ turns' = turns + 1
        /\ UNCHANGED <<fallback, state, changed, reason>>
    BY <1>5 DEF HandOver, Checking, config
  <2>2. Link' = Link
    BY <2>1, LinkStays
  <2>3. 0 .. turns' - 1 = (0 .. turns - 1) \cup {turns}
    BY <1>1, <2>1
  <2>4. visited' = { Link[j] : j \in 0 .. turns' - 1 }
    BY <1>1, <1>2, <2>1, <2>3
  <2>5. ~Usable(turns)
    BY <1>2, <2>1 DEF Usable
  <2>6. ~changed => \A j \in 0 .. turns' - 1 : ~Usable(j)
    BY <2>3, <2>5 DEF ChainInv
  <2>7. turns' <= MaxDepth => current' = Link[turns']
    BY <1>1, <1>2, <2>1, LinkEquation
  <2>8. turns' \in 0 .. MaxDepth + 1 /\ current' \in Providers
    BY <1>1, <2>1 DEF ChainInv
  <2>9. QED
    BY <2>1, <2>2, <2>4, <2>6, <2>7, <2>8 DEF ChainInv, Usable
<1>6. CASE RefuseNoFallback
  <2>1. turns <= MaxDepth /\ state[current] # "usable" /\ fallback[current] = None
    BY <1>6 DEF RefuseNoFallback, Checking
  <2>2. \A i \in 0 .. MaxDepth : i > turns => Link[i] = None
    BY <1>2, <2>1, ChainEnds
  <2>3. ~Usable(turns) /\ \A i \in 0 .. MaxDepth : i > turns => ~Usable(i)
    BY <1>2, <2>1, <2>2 DEF Usable
  <2>4. \A i \in 0 .. MaxDepth : i \in 0 .. turns - 1 \/ i = turns \/ i > turns
    BY <1>1
  <2>5. ~changed => \A i \in 0 .. MaxDepth : ~Usable(i)
    BY <2>3, <2>4 DEF ChainInv
  <2>6. Conclude("inactive") \/ Conclude("hard_stop_no_fallback")
    BY <1>6 DEF RefuseNoFallback
  <2>7. QED
    BY <2>5, <2>6, ConcludeKeeps
<1>7. CASE DepthExceeded
  <2>1. turns = MaxDepth + 1 /\ 0 .. turns - 1 = 0 .. MaxDepth
    BY <1>1, <1>7 DEF DepthExceeded
  <2>2. ~changed => \A i \in 0 .. MaxDepth : ~Usable(i)
    BY <2>1 DEF ChainInv
  <2>3. QED
    BY <1>7, <2>2, ConcludeKeeps DEF DepthExceeded
<1>8. CASE \E p \in Providers : HardStopChanges(p)
  <2>1. UNCHANGED <<fallback, current, visited, turns, reason>> /\ changed' = TRUE
    BY <1>8 DEF HardStopChanges
  <2>2. Link' = Link
    BY <2>1, LinkStays
  <2>3. QED
    BY <2>1, <2>2 DEF ChainInv
<1>9. CASE UNCHANGED vars
  <2>1. UNCHANGED <<fallback, state, changed, current, visited, turns, reason>>
    BY <1>9 DEF vars, config
  <2>2. Link' = Link
    BY <2>1, LinkStays
  <2>3. QED
    BY <2>1, <2>2 DEF ChainInv, Usable, ShouldBlock
<1>10. QED
  BY <1>3, <1>4, <1>5, <1>6, <1>7, <1>8, <1>9 DEF Next, Resolve

\* What the invariant says once there is a decision.
LEMMA ChainInvServes == ChainInv => FirstUsableServes
<1> SUFFICES ASSUME ChainInv, reason # None, ~changed
             PROVE  IF \E i \in 0 .. MaxDepth : Usable(i)
                    THEN /\ ~ShouldBlock
                         /\ \E i \in 0 .. MaxDepth :
                                /\ Usable(i) /\ current = Link[i]
                                /\ \A j \in 0 .. i - 1 : ~Usable(j)
                    ELSE ShouldBlock
  BY DEF FirstUsableServes
<1>1. CASE ShouldBlock
  BY <1>1 DEF ChainInv
<1>2. CASE ~ShouldBlock
  <2>1. turns \in 0 .. MaxDepth /\ Usable(turns) /\ current = Link[turns]
    BY <1>2, RoutingAssumption DEF ChainInv
  <2>2. \A j \in 0 .. turns - 1 : ~Usable(j)
    BY DEF ChainInv
  <2>3. QED
    BY <1>2, <2>1, <2>2
<1>3. QED
  BY <1>1, <1>2

-------------------------------------------------------------------------------
(* The pipeline.                                                           *)

InFlight == {"held", "routing", "routed", "answered"}

\* The request is for a model of the provider p, or p has none to offer.
Fits(p) ==
    \/ p = ProviderOf[called]
    \/ IsFallback /\ Candidates(p) = {} /\ called = Asked

\* A request holds credit from its hold to its end.
HoldInv ==
    /\ DOMAIN phase = {Request} /\ DOMAIN reserved = {Request}
    /\ stage = "arrived"   => phase[Request] = "idle"
    /\ stage \in InFlight => phase[Request] = "reserved"

\* It has no status before it is answered and is charged only at its end.
AnswerInv ==
    /\ stage \in {"arrived", "held", "routing", "routed"} => answer = None
    /\ stage = "answered" => answer = 200
    /\ stage # "ended"    => charged = None

\* Prices are those of the model called, and it fits the provider chosen.
ModelInv ==
    /\ called = model
    /\ stage \in {"arrived", "held", "routing"} => called = Asked
    /\ stage \in {"routed", "answered"} => Fits(current)

GateInv ==
    /\ WalkInv /\ HoldInv /\ AnswerInv /\ ModelInv
    /\ EveryEndingSettles /\ ChargeFitsCall

LEMMA GateInvInit == GateInit => GateInv
<1> SUFFICES ASSUME GateInit PROVE GateInv
  OBVIOUS
<1>1. WalkInv
  BY WalkInit DEF GateInit
<1>2. HoldInv
  BY DEF GateInit, Account!Init, HoldInv, InFlight
<1>3. AnswerInv /\ ModelInv /\ EveryEndingSettles /\ ChargeFitsCall
  BY DEF GateInit, AnswerInv, ModelInv, EveryEndingSettles, ChargeFitsCall
<1>4. QED
  BY <1>1, <1>2, <1>3 DEF GateInv

\* What the routing proved is kept by steps that do not touch it.
LEMMA WalkKept == WalkInv /\ UNCHANGED vars => WalkInv'
BY DEF WalkInv, Behind, Sound, IsFallback, ShouldBlock, vars, config

\* An error before the hold.
LEMMA RefuseKeeps ==
    ASSUME GateInv, NEW status \in Errors, Refuse(status)
    PROVE  GateInv'
<1>1. WalkInv'
  BY WalkKept DEF GateInv, Refuse
<1>2. HoldInv' /\ AnswerInv' /\ ModelInv'
  BY DEF GateInv, Refuse, Proceed, HoldInv, AnswerInv, ModelInv, InFlight, money, chosen, outcome
<1>3. EveryEndingSettles' /\ ChargeFitsCall'
  BY ModelAssumption DEF GateInv, Refuse, Proceed, HoldInv, AnswerInv, EveryEndingSettles,
     ChargeFitsCall, money, chosen, outcome, Errors
<1>4. QED
  BY <1>1, <1>2, <1>3 DEF GateInv

\* An error after it.
LEMMA ReleaseKeeps ==
    ASSUME GateInv, NEW from \in {"held", "routing", "routed"}, NEW status \in Errors,
           ReleaseAndFail(from, status)
    PROVE  GateInv'
<1>1. WalkInv'
  BY WalkKept DEF GateInv, ReleaseAndFail
<1>2. phase[Request] = "reserved" /\ phase'[Request] = "given_back" /\ charged = None
  BY DEF GateInv, ReleaseAndFail, Proceed, HoldInv, AnswerInv, InFlight, Account!GiveBack
<1>3. HoldInv' /\ AnswerInv' /\ ModelInv'
  BY DEF GateInv, ReleaseAndFail, Proceed, HoldInv, AnswerInv, ModelInv, InFlight, chosen,
     outcome, Account!GiveBack
<1>4. EveryEndingSettles' /\ ChargeFitsCall'
  BY <1>2, ModelAssumption DEF ReleaseAndFail, EveryEndingSettles, ChargeFitsCall, outcome,
     Errors
<1>5. QED
  BY <1>1, <1>3, <1>4 DEF GateInv

\* The model fits the provider once the body is rewritten.
LEMMA RouteFits ==
    ASSUME WalkInv, called = Asked, model = Asked, Rewrite, UNCHANGED vars
    PROVE  (called = model /\ Fits(current))'
<1>1. UNCHANGED <<turns, current>>
  BY DEF vars
<1>2. CASE IsFallback /\ Candidates(current) # {}
  BY <1>1, <1>2 DEF Rewrite, Fits, Candidates
<1>3. CASE IsFallback /\ Candidates(current) = {}
  BY <1>1, <1>3 DEF Rewrite, Fits, Candidates, IsFallback
<1>4. CASE ~IsFallback
  BY <1>1, <1>4, ModelAssumption DEF Rewrite, Fits, WalkInv, Behind, IsFallback
<1>5. QED
  BY <1>2, <1>3, <1>4

LEMMA GateInvStep == GateInv /\ [GateNext]_gateVars => GateInv'
<1> SUFFICES ASSUME GateInv, [GateNext]_gateVars PROVE GateInv'
  OBVIOUS
<1> USE DEF Proceed, InFlight, chosen, outcome
<1>1. CASE RefuseModel \/ RefuseCredit
  BY <1>1, RefuseKeeps DEF RefuseModel, RefuseCredit, Errors
<1>2. CASE HoldCredit
  <2>1. WalkInv' /\ AnswerInv' /\ ModelInv' /\ EveryEndingSettles' /\ ChargeFitsCall'
    BY <1>2, WalkKept DEF GateInv, HoldCredit, AnswerInv, ModelInv, EveryEndingSettles, ChargeFitsCall
  <2>2. HoldInv'
    BY <1>2 DEF GateInv, HoldCredit, HoldInv, Account!Reserve
  <2>3. QED
    BY <2>1, <2>2 DEF GateInv
<1>3. CASE BlockInput \/ RefuseProvider \/ FailCall \/ BlockOutput
  BY <1>3, ReleaseKeeps DEF BlockInput, RefuseProvider, FailCall, BlockOutput, Errors
<1>4. CASE PassInput
  <2>1. WalkInv'
    BY <1>4, WalkKept DEF GateInv, PassInput
  <2>2. QED
    BY <1>4, <2>1 DEF GateInv, PassInput, HoldInv, AnswerInv, ModelInv, EveryEndingSettles,
       ChargeFitsCall, money
<1>5. CASE Walk
  <2>1. WalkInv'
    BY <1>5, WalkStep DEF GateInv, Walk
  <2>2. QED
    BY <1>5, <2>1 DEF GateInv, Walk, HoldInv, AnswerInv, ModelInv, EveryEndingSettles,
       ChargeFitsCall, money
<1>6. CASE Route
  <2>1. WalkInv'
    BY <1>6, WalkKept DEF GateInv, Route
  <2>2. (called = model /\ Fits(current))'
    BY <1>6, RouteFits DEF GateInv, ModelInv, Route
  <2>3. HoldInv' /\ AnswerInv' /\ ModelInv'
    BY <1>6, <2>2 DEF GateInv, Route, HoldInv, AnswerInv, ModelInv, money
  <2>4. EveryEndingSettles' /\ ChargeFitsCall'
    BY <1>6 DEF GateInv, Route, AnswerInv, EveryEndingSettles, ChargeFitsCall
  <2>5. QED
    BY <2>1, <2>2, <2>3, <2>4 DEF GateInv
<1>7. CASE Disconnect
  <2>1. WalkInv'
    BY <1>7, WalkKept DEF GateInv, Disconnect
  <2>2. HoldInv' /\ AnswerInv' /\ ModelInv'
    BY <1>7 DEF GateInv, Disconnect, HoldInv, AnswerInv, ModelInv, money
  <2>3. EveryEndingSettles' /\ ChargeFitsCall'
    BY <1>7, ModelAssumption DEF GateInv, Disconnect, HoldInv, AnswerInv, EveryEndingSettles,
       ChargeFitsCall, money
  <2>4. QED
    BY <2>1, <2>2, <2>3 DEF GateInv
<1>8. CASE Reply
  <2>1. WalkInv'
    BY <1>8, WalkKept DEF GateInv, Reply
  <2>2. HoldInv' /\ AnswerInv' /\ ModelInv'
    BY <1>8 DEF GateInv, Reply, HoldInv, AnswerInv, ModelInv, Fits, Candidates, IsFallback,
       money, vars
  <2>3. EveryEndingSettles' /\ ChargeFitsCall'
    BY <1>8 DEF GateInv, Reply, AnswerInv, EveryEndingSettles, ChargeFitsCall
  <2>4. QED
    BY <2>1, <2>2, <2>3 DEF GateInv
<1>9. CASE PostProcess
  <2>1. WalkInv'
    BY <1>9, WalkKept DEF GateInv, PostProcess
  <2>2. answer' = 200 /\ CacheHit' = CacheHit
    BY <1>9 DEF GateInv, PostProcess, AnswerInv, CacheHit
  <2>3. phase'[Request] = IF CacheHit THEN "given_back" ELSE "paid"
    BY <1>9 DEF GateInv, PostProcess, HoldInv, Account!GiveBack, Account!Pay
  <2>4. HoldInv' /\ AnswerInv' /\ ModelInv'
    BY <1>9 DEF GateInv, PostProcess, HoldInv, AnswerInv, ModelInv, Account!GiveBack, Account!Pay
  <2>5. EveryEndingSettles'
    BY <2>2, <2>3, ModelAssumption DEF EveryEndingSettles, Errors
  <2>6. ChargeFitsCall'
    <3>1. CASE CacheHit
      BY <1>9, <3>1 DEF GateInv, PostProcess, AnswerInv, ChargeFitsCall
    <3>2. CASE ~CacheHit
      <4>1. reserved'[Request] = Bill(called, usage)
        BY <1>9, <3>2 DEF GateInv, PostProcess, HoldInv, ModelInv, Account!Pay
      <4>2. Fits(current) /\ charged' = current
        BY <1>9, <3>2 DEF GateInv, PostProcess, ModelInv
      <4>3. UNCHANGED <<called, usage, turns, current>>
        BY <1>9 DEF PostProcess, vars
      <4>4. QED
        BY <2>2, <3>2, <4>1, <4>2, <4>3 DEF ChargeFitsCall, Fits, Candidates, IsFallback, Bill
    <3>3. QED
      BY <3>1, <3>2
  <2>7. QED
    BY <2>1, <2>4, <2>5, <2>6 DEF GateInv
<1>10. CASE Lose
  <2>1. WalkInv'
    BY <1>10, WalkKept DEF GateInv, Lose
  <2>2. QED
    BY <1>10, <2>1 DEF GateInv, Lose, HoldInv, AnswerInv, ModelInv, EveryEndingSettles,
       ChargeFitsCall, money
<1>11. CASE UNCHANGED gateVars
  <2>1. WalkInv'
    BY <1>11, WalkKept DEF GateInv, gateVars
  <2>2. QED
    BY <1>11, <2>1 DEF GateInv, gateVars, HoldInv, AnswerInv, ModelInv, EveryEndingSettles,
       ChargeFitsCall, money, Fits, Candidates, IsFallback, CacheHit, Bill, vars
<1>12. QED
  BY <1>1, <1>2, <1>3, <1>4, <1>5, <1>6, <1>7, <1>8, <1>9, <1>10, <1>11 DEF GateNext

-------------------------------------------------------------------------------
(* The pipeline implements the two parts it is composed of: what is proved   *)
(* of the walk and of the account on their own holds of it.                  *)

\* Every step is a step of the walk or leaves the walk alone.
LEMMA WalkRefined == [GateNext]_gateVars => [Next]_vars
<1>1. ASSUME NEW status, Refuse(status) PROVE UNCHANGED vars
  BY <1>1 DEF Refuse
<1>2. ASSUME NEW from, NEW status, ReleaseAndFail(from, status) PROVE UNCHANGED vars
  BY <1>2 DEF ReleaseAndFail
<1>3. Walk => Next
  BY DEF Walk, Next
<1>4. GateNext => Walk \/ UNCHANGED vars
  BY <1>1, <1>2 DEF GateNext, RefuseModel, RefuseCredit, HoldCredit, BlockInput, PassInput,
     RefuseProvider, Route, FailCall, Disconnect, BlockOutput, Reply, PostProcess, Lose
<1>5. UNCHANGED gateVars => UNCHANGED vars
  BY DEF gateVars
<1>6. QED
  BY <1>3, <1>4, <1>5

\* What a bill is made of: a model of the catalogue and a usage LiteLLM reports.
BillInv ==
    /\ model \in Models
    /\ stage = "answered" => usage \in Units

LEMMA BillInvInit == GateInit => BillInv
BY ModelAssumption DEF GateInit, BillInv

LEMMA BillInvStep == BillInv /\ [GateNext]_gateVars => BillInv'
<1> SUFFICES ASSUME BillInv, [GateNext]_gateVars PROVE BillInv'
  OBVIOUS
<1> USE DEF Proceed, BillInv, chosen, outcome
<1>1. ASSUME NEW status, Refuse(status) PROVE BillInv'
  BY <1>1 DEF Refuse
<1>2. ASSUME NEW from, NEW status, ReleaseAndFail(from, status) PROVE BillInv'
  BY <1>2 DEF ReleaseAndFail
<1>3. CASE RefuseModel \/ RefuseCredit \/ BlockInput \/ RefuseProvider \/ FailCall \/ BlockOutput
  BY <1>1, <1>2, <1>3 DEF RefuseModel, RefuseCredit, BlockInput, RefuseProvider, FailCall,
     BlockOutput
<1>4. CASE Route
  <2>1. model' \in Models
    BY <1>4, ModelAssumption DEF Route, Rewrite, Candidates
  <2>2. QED
    BY <1>4, <2>1 DEF Route
<1>5. CASE HoldCredit \/ PassInput \/ Walk \/ Disconnect \/ Reply \/ PostProcess \/ Lose
  BY <1>5 DEF HoldCredit, PassInput, Walk, Disconnect, Reply, PostProcess, Lose
<1>6. CASE UNCHANGED gateVars
  BY <1>6 DEF gateVars
<1>7. QED
  BY <1>3, <1>4, <1>5, <1>6 DEF GateNext

\* Every step moves the account as the abstract account allows, or not at all.
LEMMA AccountRefined == BillInv /\ [GateNext]_gateVars => [Account!Next]_(Account!vars)
<1> SUFFICES ASSUME BillInv, [GateNext]_gateVars, ~UNCHANGED money PROVE Account!Next
  BY DEF money, Account!vars
<1>1. ASSUME NEW status, Refuse(status) PROVE FALSE
  BY <1>1 DEF Refuse
<1>2. ASSUME NEW from, NEW status, ReleaseAndFail(from, status) PROVE Account!Next
  BY <1>2 DEF ReleaseAndFail, Account!Next
<1>3. CASE HoldCredit
  <2>1. PICK u \in Units : Account!Reserve(Request, Bill(Asked, u))
    BY <1>3 DEF HoldCredit
  <2>2. Bill(Asked, u) \in { Bill(Asked, x) : x \in Units }
    OBVIOUS
  <2>3. QED
    BY <2>1, <2>2 DEF Account!Next
<1>4. CASE PostProcess
  <2>1. CASE Account!GiveBack(Request)
    BY <2>1 DEF Account!Next
  <2>2. CASE Account!Pay(Request, Bill(model, usage))
    <3>1. Bill(model, usage) \in { Bill(m, u) : m \in Models, u \in Units }
      BY <1>4 DEF PostProcess, Proceed, BillInv
    <3>2. QED
      BY <2>2, <3>1 DEF Account!Next
  <2>3. QED
    BY <1>4, <2>1, <2>2 DEF PostProcess
<1>5. CASE RefuseModel \/ RefuseCredit \/ BlockInput \/ RefuseProvider \/ FailCall \/ BlockOutput
  BY <1>1, <1>2, <1>5 DEF RefuseModel, RefuseCredit, BlockInput, RefuseProvider, FailCall,
     BlockOutput
<1>6. ~(PassInput \/ Walk \/ Route \/ Disconnect \/ Reply \/ Lose \/ UNCHANGED gateVars)
  BY DEF PassInput, Walk, Route, Disconnect, Reply, Lose, gateVars
<1>7. QED
  BY <1>3, <1>4, <1>5, <1>6 DEF GateNext

-------------------------------------------------------------------------------
(* What an answer costs.                                                   *)

\* What is missing from the credit is what the request holds or has paid.
AccountInv ==
    /\ DOMAIN balance = {Customer} /\ DOMAIN ledger = {Customer}
    /\ DOMAIN phase = {Request} /\ DOMAIN reserved = {Request}
    /\ reserved[Request] \in Int
    /\ ledger[Customer] =
           Credit - (IF phase[Request] = "paid" THEN reserved[Request] ELSE 0)
    /\ balance[Customer] =
           ledger[Customer] - (IF phase[Request] = "reserved" THEN reserved[Request] ELSE 0)

LEMMA AccountInvInit == Account!Init => AccountInv
BY MoneyAssumption DEF Account!Init, AccountInv

LEMMA BillsAreIntegers ==
    ASSUME NEW m \in Models, NEW u \in Units
    PROVE  Bill(m, u) \in Int
<1>1. Price[m] \in Nat /\ u \in Nat /\ Factor[Asked] \in Nat
  BY MoneyAssumption, ModelAssumption
<1>2. QED
  BY <1>1 DEF Bill

\* A consequence of the abstract account alone.
LEMMA AccountInvStep == AccountInv /\ [Account!Next]_(Account!vars) => AccountInv'
<1> SUFFICES ASSUME AccountInv, [Account!Next]_(Account!vars) PROVE AccountInv'
  OBVIOUS
<1>1. ASSUME NEW e \in { Bill(Asked, u) : u \in Units }, Account!Reserve(Request, e)
      PROVE  AccountInv'
  <2>1. e \in Int
    BY BillsAreIntegers, ModelAssumption
  <2>2. QED
    BY <1>1, <2>1, MoneyAssumption DEF AccountInv, Account!Move, Account!Reserve
<1>2. ASSUME NEW c \in { Bill(m, u) : m \in Models, u \in Units }, Account!Pay(Request, c)
      PROVE  AccountInv'
  <2>1. c \in Int
    BY BillsAreIntegers
  <2>2. QED
    BY <1>2, <2>1, MoneyAssumption DEF AccountInv, Account!Move, Account!Pay
<1>3. CASE Account!GiveBack(Request)
  BY <1>3, MoneyAssumption DEF AccountInv, Account!Move, Account!GiveBack
<1>4. CASE UNCHANGED Account!vars
  BY <1>4 DEF AccountInv, Account!vars
<1>5. QED
  BY <1>1, <1>2, <1>3, <1>4 DEF Account!Next

\* A paid request is over, and what it paid is the bill of the model called.
PaidInv == phase[Request] = "paid" => stage = "ended" /\ reserved[Request] = Bill(called, usage)

LEMMA PaidInvInit == GateInit => PaidInv
BY DEF GateInit, Account!Init, PaidInv

LEMMA PaidInvStep == GateInv /\ PaidInv /\ [GateNext]_gateVars => PaidInv'
<1> SUFFICES ASSUME GateInv, PaidInv, [GateNext]_gateVars PROVE PaidInv'
  OBVIOUS
<1>1. DOMAIN phase = {Request} /\ DOMAIN reserved = {Request} /\ called = model
  BY DEF GateInv, HoldInv, ModelInv
<1> USE DEF PaidInv, Proceed, chosen, outcome, money
<1>2. ASSUME NEW status, Refuse(status) PROVE PaidInv'
  BY <1>2 DEF Refuse
<1>3. ASSUME NEW from, NEW status, ReleaseAndFail(from, status) PROVE PaidInv'
  BY <1>1, <1>3 DEF ReleaseAndFail, Account!GiveBack
<1>4. CASE RefuseModel \/ RefuseCredit \/ BlockInput \/ RefuseProvider \/ FailCall \/ BlockOutput
  BY <1>2, <1>3, <1>4 DEF RefuseModel, RefuseCredit, BlockInput, RefuseProvider, FailCall,
     BlockOutput
<1>5. CASE HoldCredit
  BY <1>1, <1>5 DEF HoldCredit, Account!Reserve
<1>6. CASE PostProcess
  <2>1. CASE CacheHit
    BY <1>1, <1>6, <2>1 DEF PostProcess, Account!GiveBack
  <2>2. CASE ~CacheHit
    <3>1. reserved'[Request] = Bill(called, usage) /\ stage' = "ended"
      BY <1>1, <1>6, <2>2 DEF PostProcess, Account!Pay
    <3>2. UNCHANGED <<called, usage>>
      BY <1>6 DEF PostProcess
    <3>3. QED
      BY <3>1, <3>2 DEF Bill
  <2>3. QED
    BY <2>1, <2>2
<1>7. CASE PassInput \/ Walk \/ Route \/ Disconnect \/ Reply \/ Lose
  BY <1>7 DEF PassInput, Walk, Route, Disconnect, Reply, Lose
<1>8. CASE UNCHANGED gateVars
  BY <1>8 DEF gateVars, Bill
<1>9. QED
  BY <1>4, <1>5, <1>6, <1>7, <1>8 DEF GateNext

\* An error and an answer from the cache cost nothing, any other answer the bill
\* of the model that gave it; and with an answer or an error nothing stays held.
AnswerDecidesCost ==
    stage = "ended" /\ answer \in Errors \cup {200} =>
        LET served == answer = 200 /\ ~CacheHit
        IN  /\ balance[Customer] = Credit - (IF served THEN Bill(called, usage) ELSE 0)
            /\ ledger[Customer] = balance[Customer]

LEMMA CostDecided == GateInv /\ AccountInv /\ PaidInv => AnswerDecidesCost
BY MoneyAssumption, ModelAssumption DEF GateInv, EveryEndingSettles, AccountInv, PaidInv,
   AnswerDecidesCost, Errors

-------------------------------------------------------------------------------

\* However hard stops come and go during the walk, a request goes to a provider
\* that was usable when chosen, reported as a fallback exactly if it is one.
THEOREM DecisionsAreHonest == GateSpec => []DecisionIsHonest
<1>1. GateInv => DecisionIsHonest
  BY WalkIsHonest DEF GateInv
<1>2. QED
  BY <1>1, GateInvInit, GateInvStep, PTL DEF GateSpec

\* Every way out of the pipeline takes its way out of the hold.
THEOREM EndingsSettle == GateSpec => []EveryEndingSettles
<1>1. GateInv => EveryEndingSettles
  BY DEF GateInv
<1>2. QED
  BY <1>1, GateInvInit, GateInvStep, PTL DEF GateSpec

\* What is charged fits the model LiteLLM was asked for.
THEOREM ChargesFitCalls == GateSpec => []ChargeFitsCall
<1>1. GateInv => ChargeFitsCall
  BY DEF GateInv
<1>2. QED
  BY <1>1, GateInvInit, GateInvStep, PTL DEF GateSpec

\* The pipeline routes every request as FallbackRouting does.
THEOREM PipelineRoutes == GateSpec => Spec
<1>1. GateInit => Init
  BY DEF GateInit
<1>2. QED
  BY <1>1, WalkRefined, PTL DEF GateSpec, Spec

\* The pipeline moves credit only as the abstract prepaid account does, whose
\* estimates are those of the model asked for and whose costs are the bills of
\* a model of the catalogue: what CreditHold is proved to implement is all that
\* the pipeline relies on.
THEOREM PipelineKeepsAccount == GateSpec => Account!Spec
<1>1. GateInit => Account!Init
  BY DEF GateInit
<1>2. QED
  BY <1>1, BillInvInit, BillInvStep, AccountRefined, PTL DEF GateSpec, Account!Spec

\* Whatever providers and fallbacks are configured, cycles included, and
\* however deep the walk may go: while no hard stop changes, the first usable
\* provider of the chain serves the request.
THEOREM FirstUsableProviderServes == GateSpec => []FirstUsableServes
BY PipelineRoutes, ChainInit, ChainStep, ChainInvServes, PTL DEF Spec

\* What a request costs follows from its answer: nothing for an error and for an
\* answer from the cache, the bill of the model called for any other.
THEOREM AnswersDecideCost == GateSpec => []AnswerDecidesCost
<1>1. GateSpec => []GateInv
  BY GateInvInit, GateInvStep, PTL DEF GateSpec
<1>2. GateSpec => []AccountInv
  BY PipelineKeepsAccount, AccountInvInit, AccountInvStep, PTL DEF Account!Spec
<1>3. GateInit => PaidInv
  BY PaidInvInit
<1>4. QED
  BY <1>1, <1>2, <1>3, PaidInvStep, CostDecided, PTL DEF GateSpec

===============================================================================
