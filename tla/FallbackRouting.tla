---------------------------- MODULE FallbackRouting ----------------------------
(***************************************************************************)
(* Which provider serves a request: resolve_provider_for_request of        *)
(* services/provider_balance.py, as api/gateway.py calls it for a request. *)
(*                                                                         *)
(* The walk along the fallback chain reads one provider status per turn of *)
(* its loop and awaits Redis or the database for it, so that hard stops    *)
(* may be activated and released between two turns.                        *)
(*                                                                         *)
(* Foreign keys keep every provider a model or a fallback names, so the    *)
(* answer unknown_provider cannot occur and is left out.                   *)
(***************************************************************************)
EXTENDS Naturals

CONSTANTS
    Providers,
    Requested,      \* provider_id of the model the customer asked for
    MaxDepth,       \* max_fallback_depth
    None            \* no fallback, no decision

\* usable stands for an active provider in status normal or warning.
States == {"usable", "hard_stop", "inactive"}

Reasons == {"ok", "fallback", "inactive", "hard_stop_no_fallback"}

ASSUME RoutingAssumption ==
    /\ Requested \in Providers
    /\ MaxDepth \in Nat
    /\ None \notin Providers \cup Reasons

VARIABLES
    fallback,       \* fallback_provider_id of every provider
    state,          \* the providers as check_provider_status shows them
    current,        \* current_id
    visited,
    turns,          \* turns of the loop that moved on to a fallback
    reason,         \* reason of the decision, None before there is one
    \* history
    changed         \* a provider was stopped or released during the walk

config == <<fallback, state, changed>>
vars   == <<config, current, visited, turns, reason>>

Init ==
    /\ fallback \in [Providers -> Providers \cup {None}]
    /\ state    \in [Providers -> States]
    /\ current  = Requested
    /\ visited  = {}
    /\ turns    = 0
    /\ reason   = None
    /\ changed  = FALSE

-------------------------------------------------------------------------------
IsFallback == turns > 0

\* Mutant of Cycle: the walk forgets where it has been.
NoCycle == FALSE

Cycle == current \in visited

\* A turn of the loop that gets as far as checking a status.
Checking == reason = None /\ turns <= MaxDepth /\ ~Cycle

Conclude(why) ==
    /\ reason' = why
    /\ UNCHANGED <<config, current, visited, turns>>

RefuseCycle ==
    /\ reason = None
    /\ turns <= MaxDepth
    /\ Cycle
    /\ Conclude("hard_stop_no_fallback")

Accept ==
    /\ Checking
    /\ state[current] = "usable"
    /\ Conclude(IF IsFallback THEN "fallback" ELSE "ok")

\* Mutant of HandOver: the provider ahead is marked, not the one just checked.
MarkAhead ==
    /\ Checking
    /\ state[current] # "usable"
    /\ fallback[current] # None
    /\ current' = fallback[current]
    /\ visited' = visited \cup {fallback[current]}
    /\ turns'   = turns + 1
    /\ UNCHANGED <<config, reason>>

\* Hard stopped and inactive providers alike hand over to their fallback.
HandOver ==
    /\ Checking
    /\ state[current] # "usable"
    /\ fallback[current] # None
    /\ current' = fallback[current]
    /\ visited' = visited \cup {current}
    /\ turns'   = turns + 1
    /\ UNCHANGED <<config, reason>>

RefuseNoFallback ==
    /\ Checking
    /\ state[current] # "usable"
    /\ fallback[current] = None
    /\ Conclude(IF state[current] = "inactive" THEN "inactive" ELSE "hard_stop_no_fallback")

DepthExceeded ==
    /\ reason = None
    /\ turns = MaxDepth + 1
    /\ Conclude("hard_stop_no_fallback")

\* The gateway answers 503.
ShouldBlock == reason \notin {"ok", "fallback"}

\* A deduction activates a hard stop, or an administrator releases one.
HardStopChanges(p) ==
    /\ reason = None
    /\ changed' = TRUE
    /\ \/ state[p] = "usable"    /\ state' = [state EXCEPT ![p] = "hard_stop"]
       \/ state[p] = "hard_stop" /\ state' = [state EXCEPT ![p] = "usable"]
    /\ UNCHANGED <<fallback, current, visited, turns, reason>>

Resolve == RefuseCycle \/ Accept \/ HandOver \/ RefuseNoFallback \/ DepthExceeded

Next ==
    \/ Resolve
    \/ \E p \in Providers : HardStopChanges(p)

Spec == Init /\ [][Next]_vars

-------------------------------------------------------------------------------
(* What must hold.                                                         *)

\* The i-th provider of the chain that starts at the requested one.
Link[i \in 0 .. MaxDepth] ==
    IF i = 0 THEN Requested
    ELSE IF Link[i - 1] = None THEN None ELSE fallback[Link[i - 1]]

Usable(i) == Link[i] # None /\ state[Link[i]] = "usable"

\* While no hard stop changes, the request goes to the first usable provider
\* of the chain within MaxDepth hops, and is blocked only if there is none:
\* the check for cycles never turns away a request that could be served.
FirstUsableServes ==
    reason # None /\ ~changed =>
        IF \E i \in 0 .. MaxDepth : Usable(i)
        THEN /\ ~ShouldBlock
             /\ \E i \in 0 .. MaxDepth :
                    /\ Usable(i) /\ current = Link[i]
                    /\ \A j \in 0 .. i - 1 : ~Usable(j)
        ELSE ShouldBlock

\* However hard stops come and go during the walk, the provider a request is
\* sent to was usable when it was chosen, and it is reported as a fallback
\* exactly if it is not the one the customer asked for.
DecisionIsHonest ==
    reason # None /\ ~ShouldBlock =>
        /\ state[current] = "usable"
        /\ (reason = "ok") = (current = Requested)

===============================================================================
