---------------------------- MODULE RateLimitProofs ----------------------------
(***************************************************************************)
(* Theorems about RateLimit, for every set of requests and keys, every     *)
(* limit and every width of the window.                                    *)
(***************************************************************************)
EXTENDS RateLimit, FiniteSetTheorems, TLAPS

-------------------------------------------------------------------------------
(* Windows.  Division and multiplication occur in these lemmas only.       *)

Start(w) == w * Window

\* A time lies in its window.
LEMMA TimeInWindow ==
    ASSUME NEW t \in Nat
    PROVE  /\ WindowOf(t) \in Nat
           /\ Start(WindowOf(t)) \in Nat
           /\ Start(WindowOf(t)) <= t
           /\ t < Start(WindowOf(t)) + Window
<1>1. Window \in Nat /\ Window > 0
  BY WindowAssumption
<1>2. t = Window * (t \div Window) + (t % Window) /\ t % Window \in 0..(Window - 1)
          /\ t \div Window \in Nat
  BY <1>1
<1>3. (t \div Window) * Window = Window * (t \div Window)
  BY <1>1, <1>2
<1>4. Window * (t \div Window) \in Nat
  BY <1>1, <1>2
<1>5. QED
  BY <1>1, <1>2, <1>3, <1>4 DEF WindowOf, Start

\* A time in a window has that window.
LEMMA WindowOfTime ==
    ASSUME NEW t \in Nat, NEW w \in Nat, Start(w) <= t, t < Start(w) + Window
    PROVE  WindowOf(t) = w
<1>1. Window \in Nat /\ Window > 0
  BY WindowAssumption
<1>2. /\ w * Window <= t /\ t < w * Window + Window
      /\ WindowOf(t) * Window <= t /\ t < WindowOf(t) * Window + Window
      /\ WindowOf(t) \in Nat
  BY TimeInWindow DEF Start
<1>3. WindowOf(t) < w => WindowOf(t) * Window + Window <= w * Window
  <2>1. WindowOf(t) < w => (WindowOf(t) + 1) * Window <= w * Window
    BY <1>1, <1>2, SMTT(30)
  <2>2. QED
    BY <1>1, <1>2, <2>1, SMTT(30)
<1>4. w < WindowOf(t) => w * Window + Window <= WindowOf(t) * Window
  <2>1. w < WindowOf(t) => (w + 1) * Window <= WindowOf(t) * Window
    BY <1>1, <1>2, SMTT(30)
  <2>2. QED
    BY <1>1, <1>2, <2>1, SMTT(30)
<1>5. w * Window \in Nat /\ WindowOf(t) * Window \in Nat
  BY <1>1, <1>2
<1>6. QED
  BY <1>1, <1>2, <1>3, <1>4, <1>5

\* An earlier time has no later window.
LEMMA WindowsOrdered ==
    ASSUME NEW t \in Nat, NEW u \in Nat, t <= u
    PROVE  WindowOf(t) <= WindowOf(u)
<1>1. Window \in Nat /\ Window > 0
  BY WindowAssumption
<1>2. /\ WindowOf(t) * Window <= t /\ WindowOf(t) \in Nat
      /\ u < WindowOf(u) * Window + Window /\ WindowOf(u) \in Nat
  BY TimeInWindow DEF Start
<1>3. WindowOf(u) < WindowOf(t) => (WindowOf(u) + 1) * Window <= WindowOf(t) * Window
  BY <1>1, <1>2, SMTT(30)
<1>4. (WindowOf(u) + 1) * Window = WindowOf(u) * Window + Window
  BY <1>1, <1>2
<1>5. WindowOf(u) * Window \in Nat /\ WindowOf(t) * Window \in Nat
  BY <1>1, <1>2
<1>6. QED
  BY <1>1, <1>2, <1>3, <1>4, <1>5

\* An interval as long as a window touches two windows at most.
LEMMA TwoWindows ==
    ASSUME NEW t \in Nat, NEW u \in t..(t + Window - 1)
    PROVE  WindowOf(u) \in {WindowOf(t), WindowOf(t) + 1}
<1>1. Window \in Nat /\ Window > 0 /\ u \in Nat /\ t <= u /\ u < t + Window
  BY WindowAssumption
<1>2. WindowOf(t) <= WindowOf(u)
  BY <1>1, WindowsOrdered
<1>3. /\ WindowOf(u) * Window <= u /\ WindowOf(u) \in Nat
      /\ t < WindowOf(t) * Window + Window /\ WindowOf(t) \in Nat
  BY <1>1, TimeInWindow DEF Start
<1>4. WindowOf(u) >= WindowOf(t) + 2 => (WindowOf(t) + 2) * Window <= WindowOf(u) * Window
  BY <1>1, <1>3, SMTT(30)
<1>5. (WindowOf(t) + 2) * Window = WindowOf(t) * Window + Window + Window
  BY <1>1, <1>3, SMTT(30)
<1>6. WindowOf(u) * Window \in Nat /\ WindowOf(t) * Window \in Nat
  BY <1>1, <1>3
<1>7. QED
  BY <1>1, <1>2, <1>3, <1>4, <1>5, <1>6

\* The Redis key of a request.
LEMMA SlotIsSlot ==
    ASSUME TypeOK, NEW r \in Requests
    PROVE  /\ Slot(r) \in Slots
           /\ Slot(r) = <<KeyOf[r], WindowOf(stamp[r])>>
           /\ stamp[r] \in Nat
           /\ WindowOf(stamp[r]) \in Windows
           /\ KeyOf[r] \in Keys
<1>1. stamp[r] \in Nat /\ stamp[r] <= Horizon /\ Horizon \in Nat
  BY WindowAssumption DEF TypeOK
<1>2. WindowOf(stamp[r]) \in Nat /\ WindowOf(Horizon) \in Nat
          /\ WindowOf(stamp[r]) <= WindowOf(Horizon)
  BY <1>1, TimeInWindow, WindowsOrdered
<1>3. KeyOf[r] \in Keys
  BY RequestAssumption
<1>4. QED
  BY <1>1, <1>2, <1>3 DEF Slot, Slots, Windows

-------------------------------------------------------------------------------
(* The strengthening.  Tickets are drawn from the counters, so that those   *)
(* of one window are distinct as long as its counter is not forgotten       *)
(* before the last request has drawn one.                                   *)

\* The last request of a window is past its commands.
Closed(w) == now >= Start(w) + Window + Lag

\* No request in flight is later than Lag.
Timely(r) ==
    /\ pc[r] \in {"idle", "unlimited", "stamped"} => ticket[r] = 0
    /\ pc[r] \in {"stamped", "first"} =>
           stamp[r] <= now /\ now <= stamp[r] + Lag /\ Quota(r) \in Nat
    /\ pc[r] = "first" => ticket[r] = 1

\* A counter outlives its window by the time a request may be late.
LongLived == \A k \in Keys, w \in Windows :
    expiry[<<k, w>>] # None => expiry[<<k, w>>] >= Start(w) + Window + Lag

\* A counter has counted every ticket drawn, until its window is closed.
Remembered(r) ==
    ticket[r] > 0 => count[Slot(r)] >= ticket[r] \/ Closed(WindowOf(stamp[r]))

Distinct == \A r, s \in Requests :
    r # s /\ Slot(r) = Slot(s) /\ ticket[r] > 0 => ticket[r] # ticket[s]

\* Every value of a counter has been drawn.
Drawn == \A s \in Slots : \A n \in 1..count[s] :
    \E r \in Requests : Slot(r) = s /\ ticket[r] = n

\* Every ticket below a drawn one has been drawn.
Ranked == \A r \in Requests : \A n \in 1..ticket[r] :
    \E s \in Requests : Slot(s) = Slot(r) /\ ticket[s] = n

Judged(r) ==
    /\ pc[r] = "admitted" => Quota(r) \in Nat /\ ticket[r] \in 1..Quota(r)
    /\ pc[r] = "rejected" => Quota(r) \in Nat /\ ticket[r] > Quota(r)

Inv ==
    /\ TypeOK
    /\ \A r \in Requests : Timely(r) /\ Remembered(r) /\ Judged(r)
    /\ LongLived
    /\ Distinct
    /\ Drawn
    /\ Ranked
    /\ CountersEnd

\* A request in flight belongs to an open window.
LEMMA InFlightIsOpen ==
    ASSUME Inv, NEW r \in Requests, pc[r] \in {"stamped", "first"}
    PROVE  ~Closed(WindowOf(stamp[r]))
<1>1. /\ TypeOK /\ now \in Nat /\ Lag \in Nat /\ Window \in Nat
      /\ now <= stamp[r] + Lag
  BY WindowAssumption DEF Inv, TypeOK, Timely
<1>2. stamp[r] \in Nat
  BY <1>1, SlotIsSlot
<1>3. Start(WindowOf(stamp[r])) \in Nat /\ stamp[r] < Start(WindowOf(stamp[r])) + Window
  BY <1>2, TimeInWindow
<1>4. QED
  BY <1>1, <1>2, <1>3 DEF Closed

LEMMA InvInit == Init => Inv
<1>1. SUFFICES ASSUME Init PROVE Inv
  OBVIOUS
<1>2. /\ now = 0 /\ limit \in [Keys -> Limits]
      /\ count = [s \in Slots |-> 0] /\ expiry = [s \in Slots |-> None]
      /\ pc = [r \in Requests |-> "idle"] /\ stamp = [r \in Requests |-> 0]
      /\ ticket = [r \in Requests |-> 0]
  BY <1>1 DEF Init
<1>3. TypeOK
  BY <1>2, WindowAssumption DEF TypeOK
<1>4. LongLived
  BY <1>2 DEF LongLived, Slots
<1>5. \A r \in Requests : Timely(r) /\ Remembered(r) /\ Judged(r)
  BY <1>2 DEF Timely, Remembered, Judged
<1>6. Distinct /\ Drawn /\ Ranked /\ CountersEnd
  BY <1>2 DEF Distinct, Drawn, Ranked, CountersEnd
<1>7. QED
  BY <1>3, <1>4, <1>5, <1>6 DEF Inv

-------------------------------------------------------------------------------
(* The steps.                                                              *)

States == {"idle", "unlimited", "stamped", "first", "open", "admitted", "rejected", "lost"}

\* A request arrives: nobody has seen it yet.
LEMMA ArriveKeepsInv ==
    ASSUME Inv, NEW r \in Requests, Arrive(r)
    PROVE  Inv'
<1>1. /\ TypeOK /\ LongLived /\ Distinct /\ Drawn /\ Ranked /\ CountersEnd
      /\ \A q \in Requests : Timely(q) /\ Remembered(q) /\ Judged(q)
  BY DEF Inv
<1>2. /\ pc[r] = "idle" /\ ticket[r] = 0 /\ now <= Horizon
      /\ UNCHANGED <<now, limit, count, expiry, ticket>>
      /\ \/ Quota(r) = None /\ pc' = [pc EXCEPT ![r] = "unlimited"] /\ stamp' = stamp
         \/ /\ Quota(r) # None
            /\ pc' = [pc EXCEPT ![r] = "stamped"]
            /\ stamp' = [stamp EXCEPT ![r] = now]
  BY <1>1 DEF Arrive, GoTo, redis, Timely
<1>3. TypeOK'
  <2>1. now \in 0..Horizon
    BY <1>1, <1>2, WindowAssumption DEF TypeOK
  <2>2. stamp' \in [Requests -> 0..Horizon]
    BY <1>1, <1>2, <2>1 DEF TypeOK
  <2>3. pc' \in [Requests -> States]
    BY <1>1, <1>2 DEF TypeOK, States
  <2>4. QED
    BY <1>1, <1>2, <2>2, <2>3 DEF TypeOK, States
<1>4. \A q \in Requests : q # r => pc'[q] = pc[q] /\ stamp'[q] = stamp[q]
  BY <1>1, <1>2 DEF TypeOK
<1>5. /\ \A q \in Requests : q # r => Slot(q)' = Slot(q)
      /\ \A q \in Requests : ticket[q] > 0 => q # r
  BY <1>2, <1>4 DEF Slot
<1>6. Timely(r)'
  <2>1. Quota(r) \in Nat \cup {None}
    BY <1>1, RequestAssumption DEF TypeOK, Quota
  <2>2. now \in Nat /\ Lag \in Nat
    BY <1>1, WindowAssumption DEF TypeOK
  <2>3. pc'[r] = "unlimited" \/ (pc'[r] = "stamped" /\ stamp'[r] = now /\ Quota(r) # None)
    BY <1>1, <1>2 DEF TypeOK
  <2>4. QED
    BY <1>2, <2>1, <2>2, <2>3 DEF Timely, Quota
<1>7. \A q \in Requests : (Timely(q) /\ Remembered(q) /\ Judged(q))'
  <2>1. ASSUME NEW q \in Requests, q # r PROVE (Timely(q) /\ Remembered(q) /\ Judged(q))'
    BY <1>1, <1>2, <1>4, <1>5, <2>1 DEF Timely, Remembered, Judged, Closed, Quota
  <2>2. (Remembered(r) /\ Judged(r))'
    BY <1>1, <1>2 DEF Remembered, Judged, TypeOK
  <2>3. QED
    BY <1>6, <2>1, <2>2
<1>8. Distinct'
  BY <1>1, <1>2, <1>5 DEF Distinct, TypeOK
<1>9. Drawn' /\ Ranked'
  <2>1. Drawn'
    BY <1>1, <1>2, <1>5 DEF Drawn, TypeOK
  <2>2. Ranked'
    BY <1>1, <1>2, <1>5 DEF Ranked, TypeOK
  <2>3. QED
    BY <2>1, <2>2
<1>10. LongLived' /\ CountersEnd'
  <2>1. LongLived'
    BY <1>1, <1>2 DEF LongLived
  <2>2. CountersEnd'
    BY <1>1, <1>2, <1>4, <1>5 DEF CountersEnd
  <2>3. QED
    BY <2>1, <2>2
<1>11. QED
  BY <1>3, <1>7, <1>8, <1>9, <1>10 DEF Inv

\* INCR, whether its answer arrives or not: the ticket is a new one.
LEMMA IncrementKeepsInv ==
    ASSUME Inv, NEW r \in Requests, pc[r] = "stamped",
           Increment(r), UNCHANGED <<now, limit, stamp>>,
           NEW state \in {"first", "open", "admitted", "rejected"}, GoTo(r, state),
           ticket'[r] = 1 => state \in {"first", "open"},
           state = "first" => ticket'[r] = 1,
           state = "admitted" => ticket'[r] <= Quota(r),
           state = "rejected" => ticket'[r] > Quota(r)
    PROVE  Inv'
<1> DEFINE n == count[Slot(r)] + 1
<1>1. /\ TypeOK /\ LongLived /\ Distinct /\ Drawn /\ Ranked /\ CountersEnd
      /\ \A q \in Requests : Timely(q) /\ Remembered(q) /\ Judged(q)
  BY DEF Inv
<1>2. /\ Slot(r) \in Slots /\ n \in Nat /\ n > 0
      /\ Slot(r) = <<KeyOf[r], WindowOf(stamp[r])>>
  BY <1>1, SlotIsSlot DEF TypeOK
<1>3. /\ count' = [count EXCEPT ![Slot(r)] = n]
      /\ ticket' = [ticket EXCEPT ![r] = n]
      /\ pc' = [pc EXCEPT ![r] = state]
      /\ expiry' = expiry
  BY DEF Increment, GoTo
<1>4. /\ ticket'[r] = n /\ pc'[r] = state /\ ticket[r] = 0
      /\ \A q \in Requests : q # r => ticket'[q] = ticket[q] /\ pc'[q] = pc[q]
      /\ \A q \in Requests : Slot(q)' = Slot(q) /\ Quota(q)' = Quota(q)
  BY <1>1, <1>3 DEF TypeOK, Slot, Quota, Timely
<1>5. /\ count'[Slot(r)] = n
      /\ \A s \in Slots : s # Slot(r) => count'[s] = count[s]
  BY <1>1, <1>2, <1>3 DEF TypeOK
<1>6. TypeOK'
  <2>1. count' \in [Slots -> Nat]
    BY <1>1, <1>2, <1>3 DEF TypeOK
  <2>2. ticket' \in [Requests -> Nat]
    BY <1>1, <1>2, <1>3 DEF TypeOK
  <2>3. pc' \in [Requests -> States]
    BY <1>1, <1>3 DEF TypeOK, States
  <2>4. QED
    BY <1>1, <1>3, <2>1, <2>2, <2>3 DEF TypeOK, States
<1>7. \A q \in Requests : Slot(q) = Slot(r) => ticket[q] < n
  <2>1. SUFFICES ASSUME NEW q \in Requests, Slot(q) = Slot(r), ticket[q] > 0
                 PROVE  ticket[q] < n
    BY <1>1, <1>2 DEF TypeOK
  <2>2. WindowOf(stamp[q]) = WindowOf(stamp[r])
    BY <2>1 DEF Slot
  <2>3. ~Closed(WindowOf(stamp[r]))
    BY InFlightIsOpen
  <2>4. count[Slot(r)] >= ticket[q]
    BY <1>1, <2>1, <2>2, <2>3 DEF Remembered
  <2>5. ticket[q] \in Nat /\ count[Slot(r)] \in Nat
    BY <1>1, <1>2 DEF TypeOK
  <2>6. QED
    BY <2>4, <2>5
<1>8. \A q \in Requests : (Timely(q) /\ Remembered(q) /\ Judged(q))'
  <2>1. ASSUME NEW q \in Requests, q # r PROVE (Timely(q) /\ Remembered(q) /\ Judged(q))'
    <3>1. (Timely(q) /\ Judged(q))'
      BY <1>1, <1>4, <2>1 DEF Timely, Judged
    <3>2. Closed(WindowOf(stamp[q]))' = Closed(WindowOf(stamp[q]))
      BY DEF Closed
    <3>3. count'[Slot(q)] >= count[Slot(q)] /\ count'[Slot(q)] \in Nat
              /\ count[Slot(q)] \in Nat /\ ticket[q] \in Nat
      BY <1>1, <1>2, <1>5, <1>6, SlotIsSlot DEF TypeOK
    <3>4. Remembered(q)'
      BY <1>1, <1>4, <2>1, <3>2, <3>3 DEF Remembered
    <3>5. QED
      BY <3>1, <3>4
  <2>2. Timely(r)'
    BY <1>1, <1>4 DEF Timely
  <2>3. Remembered(r)'
    BY <1>2, <1>4, <1>5 DEF Remembered
  <2>4. Judged(r)'
    BY <1>1, <1>2, <1>4 DEF Judged, Timely
  <2>5. QED
    BY <2>1, <2>2, <2>3, <2>4
<1>9. Distinct'
  <2>1. SUFFICES ASSUME NEW q \in Requests, NEW s \in Requests, q # s,
                        Slot(q) = Slot(s), ticket'[q] > 0
                 PROVE  ticket'[q] # ticket'[s]
    BY <1>4 DEF Distinct
  <2>2. QED
    BY <1>1, <1>2, <1>4, <1>7, <2>1 DEF Distinct, TypeOK
<1>10. Drawn'
  <2>1. SUFFICES ASSUME NEW s \in Slots, NEW m \in 1..count'[s]
                 PROVE  \E q \in Requests : Slot(q) = s /\ ticket'[q] = m
    BY <1>4 DEF Drawn
  <2>2. CASE s = Slot(r) /\ m = n
    BY <1>4, <2>2
  <2>3. CASE ~(s = Slot(r) /\ m = n)
    <3>1. m \in 1..count[s]
      BY <1>1, <1>2, <1>5, <2>1, <2>3 DEF TypeOK
    <3>2. PICK q \in Requests : Slot(q) = s /\ ticket[q] = m
      BY <1>1, <3>1 DEF Drawn
    <3>3. q # r
      BY <1>4, <3>1, <3>2
    <3>4. QED
      BY <1>4, <3>2, <3>3
  <2>4. QED
    BY <2>2, <2>3
<1>11. Ranked'
  <2>1. SUFFICES ASSUME NEW q \in Requests, NEW m \in 1..ticket'[q]
                 PROVE  \E s \in Requests : Slot(s) = Slot(q) /\ ticket'[s] = m
    BY <1>4 DEF Ranked
  <2>2. CASE q = r
    BY <1>2, <1>4, <1>5, <1>10, <2>2 DEF Drawn
  <2>3. CASE q # r
    <3>1. m \in 1..ticket[q]
      BY <1>4, <2>1, <2>3
    <3>2. PICK s \in Requests : Slot(s) = Slot(q) /\ ticket[s] = m
      BY <1>1, <3>1 DEF Ranked
    <3>3. s # r
      BY <1>4, <3>1, <3>2
    <3>4. QED
      BY <1>4, <3>2, <3>3
  <2>4. QED
    BY <2>2, <2>3
<1>12. CountersEnd'
  <2>1. SUFFICES ASSUME NEW s \in Slots, count'[s] > 0, expiry[s] = None
                 PROVE  \E q \in Requests : /\ Slot(q) = s /\ ticket'[q] = 1
                                          /\ pc'[q] \in {"first", "open", "lost"}
    BY <1>3, <1>4 DEF CountersEnd
  <2>2. CASE count[s] > 0
    <3>1. PICK q \in Requests : Slot(q) = s /\ ticket[q] = 1 /\ pc[q] \in {"first", "open", "lost"}
      BY <1>1, <2>1, <2>2 DEF CountersEnd
    <3>2. QED
      BY <1>4, <3>1
  <2>3. CASE count[s] = 0
    <3>1. s = Slot(r) /\ n = 1
      BY <1>2, <1>5, <2>1, <2>3
    <3>2. QED
      BY <1>4, <3>1
  <2>4. QED
    BY <1>1, <2>2, <2>3 DEF TypeOK
<1>13. LongLived'
  BY <1>1, <1>3 DEF LongLived
<1>14. QED
  BY <1>6, <1>8, <1>9, <1>10, <1>11, <1>12, <1>13 DEF Inv

\* EXPIRE, whether its answer arrives or not.
LEMMA SetTTLKeepsInv ==
    ASSUME Inv, NEW r \in Requests, pc[r] = "first",
           SetTTL(r), UNCHANGED <<now, limit, stamp>>,
           NEW state \in {"open", "admitted", "rejected"}, GoTo(r, state),
           state = "admitted" => 1 <= Quota(r),
           state = "rejected" => 1 > Quota(r)
    PROVE  Inv'
<1>1. /\ TypeOK /\ LongLived /\ Distinct /\ Drawn /\ Ranked /\ CountersEnd
      /\ \A q \in Requests : Timely(q) /\ Remembered(q) /\ Judged(q)
  BY DEF Inv
<1>2. /\ Slot(r) \in Slots /\ Slot(r) = <<KeyOf[r], WindowOf(stamp[r])>>
      /\ KeyOf[r] \in Keys /\ WindowOf(stamp[r]) \in Windows
      /\ stamp[r] \in Nat /\ now \in Nat /\ stamp[r] <= now /\ ticket[r] = 1
      /\ Quota(r) \in Nat
  BY <1>1, SlotIsSlot DEF TypeOK, Timely
<1>3. /\ expiry' = [expiry EXCEPT ![Slot(r)] = IF count[Slot(r)] > 0 THEN now + TTL ELSE None]
      /\ pc' = [pc EXCEPT ![r] = state]
      /\ UNCHANGED <<count, ticket>>
  BY DEF SetTTL, GoTo
<1>4. /\ pc'[r] = state
      /\ \A q \in Requests : q # r => pc'[q] = pc[q]
      /\ \A q \in Requests : Slot(q)' = Slot(q) /\ Quota(q)' = Quota(q)
  BY <1>1, <1>3 DEF TypeOK, Slot, Quota
<1>5. TTL \in Nat /\ TTL >= Window + Lag /\ Window \in Nat /\ Lag \in Nat
  BY WindowAssumption DEF TTL
<1>6. TypeOK'
  <2>1. expiry' \in [Slots -> Nat \cup {None}]
    BY <1>1, <1>2, <1>3, <1>5 DEF TypeOK
  <2>2. pc' \in [Requests -> States]
    BY <1>1, <1>3 DEF TypeOK, States
  <2>3. QED
    BY <1>1, <1>3, <2>1, <2>2 DEF TypeOK, States
<1>7. \A q \in Requests : (Timely(q) /\ Remembered(q) /\ Judged(q))'
  <2>1. \A q \in Requests : Timely(q)'
    BY <1>1, <1>2, <1>3, <1>4 DEF Timely
  <2>2. \A q \in Requests : Remembered(q)'
    BY <1>1, <1>3, <1>4 DEF Remembered, Closed
  <2>3. \A q \in Requests : Judged(q)'
    BY <1>1, <1>2, <1>3, <1>4 DEF Judged
  <2>4. QED
    BY <2>1, <2>2, <2>3
<1>8. Distinct' /\ Drawn' /\ Ranked'
  BY <1>1, <1>3, <1>4 DEF Distinct, Drawn, Ranked
<1>9. LongLived'
  <2>1. SUFFICES ASSUME NEW k \in Keys, NEW w \in Windows, expiry'[<<k, w>>] # None
                 PROVE  expiry'[<<k, w>>] >= Start(w) + Window + Lag
    BY DEF LongLived
  <2>2. CASE <<k, w>> = Slot(r)
    <3>1. w = WindowOf(stamp[r])
      BY <1>2, <2>2
    <3>2. Start(w) <= stamp[r] /\ Start(w) \in Nat
      BY <1>2, <3>1, TimeInWindow
    <3>3. expiry'[<<k, w>>] = now + TTL
      BY <1>1, <1>2, <1>3, <2>1, <2>2 DEF TypeOK
    <3>4. QED
      BY <1>2, <1>5, <3>2, <3>3
  <2>3. CASE <<k, w>> # Slot(r)
    <3>1. <<k, w>> \in Slots
      BY DEF Slots
    <3>2. expiry'[<<k, w>>] = expiry[<<k, w>>]
      BY <1>1, <1>3, <2>3, <3>1 DEF TypeOK
    <3>3. QED
      BY <1>1, <2>1, <3>2 DEF LongLived
  <2>4. QED
    BY <2>2, <2>3
<1>10. CountersEnd'
  <2>1. SUFFICES ASSUME NEW s \in Slots, count[s] > 0, expiry'[s] = None
                 PROVE  \E q \in Requests : /\ Slot(q) = s /\ ticket[q] = 1
                                          /\ pc'[q] \in {"first", "open", "lost"}
    BY <1>3, <1>4 DEF CountersEnd
  <2>2. s # Slot(r)
    BY <1>1, <1>2, <1>3, <1>5, <2>1, RequestAssumption DEF TypeOK
  <2>3. expiry[s] = None
    BY <1>1, <1>3, <2>1, <2>2 DEF TypeOK
  <2>4. PICK q \in Requests : Slot(q) = s /\ ticket[q] = 1 /\ pc[q] \in {"first", "open", "lost"}
    BY <1>1, <2>1, <2>3 DEF CountersEnd
  <2>5. QED
    BY <1>4, <2>2, <2>4
<1>11. QED
  BY <1>6, <1>7, <1>8, <1>9, <1>10 DEF Inv

\* Requests in flight are let through or lost without a command.
LEMMA GivingUpKeepsInv ==
    ASSUME Inv, UNCHANGED <<now, limit, count, expiry, stamp, ticket>>,
           pc' \in [Requests -> States],
           \A r \in Requests :
               \/ pc'[r] = pc[r]
               \/ pc[r] \in {"stamped", "first"} /\ pc'[r] \in {"open", "lost"}
    PROVE  Inv'
<1>1. /\ TypeOK /\ LongLived /\ Distinct /\ Drawn /\ Ranked /\ CountersEnd
      /\ \A q \in Requests : Timely(q) /\ Remembered(q) /\ Judged(q)
  BY DEF Inv
<1>2. \A q \in Requests : Slot(q)' = Slot(q) /\ Quota(q)' = Quota(q)
  BY DEF Slot, Quota
<1>3. TypeOK'
  BY <1>1 DEF TypeOK, States
<1>4. \A q \in Requests : (Timely(q) /\ Remembered(q) /\ Judged(q))'
  BY <1>1, <1>2 DEF Timely, Remembered, Closed, Judged
<1>5. LongLived' /\ Distinct' /\ Drawn' /\ Ranked'
  BY <1>1, <1>2 DEF LongLived, Distinct, Drawn, Ranked
<1>6. CountersEnd'
  <2>1. SUFFICES ASSUME NEW s \in Slots, count[s] > 0, expiry[s] = None
                 PROVE  \E q \in Requests : /\ Slot(q) = s /\ ticket[q] = 1
                                          /\ pc'[q] \in {"first", "open", "lost"}
    BY <1>2 DEF CountersEnd
  <2>2. PICK q \in Requests : Slot(q) = s /\ ticket[q] = 1 /\ pc[q] \in {"first", "open", "lost"}
    BY <1>1, <2>1 DEF CountersEnd
  <2>3. QED
    BY <2>2
<1>7. QED
  BY <1>3, <1>4, <1>5, <1>6 DEF Inv

\* A second passes: a counter that ends belongs to a window that is closed.
LEMMA TickKeepsInv ==
    ASSUME Inv, Tick
    PROVE  Inv'
<1>1. /\ TypeOK /\ LongLived /\ Distinct /\ Drawn /\ Ranked /\ CountersEnd
      /\ \A q \in Requests : Timely(q) /\ Remembered(q) /\ Judged(q)
  BY DEF Inv
<1>2. /\ \A r \in InFlight : now < stamp[r] + Lag
      /\ now' = now + 1 /\ now \in Nat /\ Lag \in Nat /\ Window \in Nat
      /\ count'  = [s \in Slots |-> IF Expired(s) THEN 0 ELSE count[s]]
      /\ expiry' = [s \in Slots |-> IF Expired(s) THEN None ELSE expiry[s]]
      /\ UNCHANGED <<limit, pc, stamp, ticket>>
  BY <1>1, WindowAssumption DEF Tick, TypeOK
<1>3. \A q \in Requests : Slot(q)' = Slot(q) /\ Quota(q)' = Quota(q)
  BY <1>2 DEF Slot, Quota
<1>4. \A s \in Slots : count'[s] \in {0, count[s]} /\ expiry'[s] \in {None, expiry[s]}
  BY <1>2
<1>5. TypeOK'
  <2>1. count' \in [Slots -> Nat] /\ expiry' \in [Slots -> Nat \cup {None}]
    BY <1>1, <1>2 DEF TypeOK
  <2>2. QED
    BY <1>1, <1>2, <2>1 DEF TypeOK
<1>6. ASSUME NEW q \in Requests PROVE (Timely(q) /\ Remembered(q) /\ Judged(q))'
  <2>1. Slot(q) \in Slots /\ Slot(q) = <<KeyOf[q], WindowOf(stamp[q])>> /\ stamp[q] \in Nat
            /\ KeyOf[q] \in Keys /\ WindowOf(stamp[q]) \in Windows
    BY <1>1, SlotIsSlot
  <2>2. Start(WindowOf(stamp[q])) \in Nat
    BY <2>1, TimeInWindow
  <2>3. Timely(q)'
    BY <1>1, <1>2, <1>3, <2>1 DEF Timely, InFlight
  <2>4. Judged(q)'
    BY <1>1, <1>2, <1>3 DEF Judged
  <2>5. Remembered(q)'
    <3>1. CASE Expired(Slot(q))
      <4>1. expiry[Slot(q)] \in Nat /\ expiry[Slot(q)] <= now + 1
        BY <1>1, <2>1, <3>1 DEF Expired, TypeOK
      <4>2. expiry[Slot(q)] >= Start(WindowOf(stamp[q])) + Window + Lag
        BY <1>1, <2>1, <3>1 DEF LongLived, Expired
      <4>3. Closed(WindowOf(stamp[q]))'
        BY <1>2, <2>2, <4>1, <4>2 DEF Closed
      <4>4. QED
        BY <4>3 DEF Remembered
    <3>2. CASE ~Expired(Slot(q))
      <4>1. count'[Slot(q)] = count[Slot(q)]
        BY <1>2, <2>1, <3>2
      <4>2. Closed(WindowOf(stamp[q])) => Closed(WindowOf(stamp[q]))'
        BY <1>2, <2>2 DEF Closed
      <4>3. QED
        BY <1>1, <1>2, <1>3, <4>1, <4>2 DEF Remembered
    <3>3. QED
      BY <3>1, <3>2
  <2>6. QED
    BY <2>3, <2>4, <2>5
<1>7. LongLived'
  <2>1. \A k \in Keys, w \in Windows : <<k, w>> \in Slots
    BY DEF Slots
  <2>2. QED
    BY <1>1, <1>4, <2>1 DEF LongLived
<1>8. Distinct' /\ Ranked'
  BY <1>1, <1>2, <1>3 DEF Distinct, Ranked
<1>9. Drawn'
  <2>1. SUFFICES ASSUME NEW s \in Slots, NEW n \in 1..count'[s]
                 PROVE  \E q \in Requests : Slot(q) = s /\ ticket[q] = n
    BY <1>2, <1>3 DEF Drawn
  <2>2. n \in 1..count[s]
    BY <1>1, <1>4, <2>1 DEF TypeOK
  <2>3. QED
    BY <1>1, <2>2 DEF Drawn
<1>10. CountersEnd'
  <2>1. SUFFICES ASSUME NEW s \in Slots, count'[s] > 0, expiry'[s] = None
                 PROVE  \E q \in Requests : /\ Slot(q) = s /\ ticket[q] = 1
                                          /\ pc[q] \in {"first", "open", "lost"}
    BY <1>2, <1>3 DEF CountersEnd
  <2>2. ~Expired(s)
    BY <1>2, <2>1
  <2>3. count[s] > 0 /\ expiry[s] = None
    BY <1>2, <2>1, <2>2
  <2>4. QED
    BY <1>1, <2>3 DEF CountersEnd
<1>11. QED
  BY <1>5, <1>6, <1>7, <1>8, <1>9, <1>10 DEF Inv

LEMMA InvStep == Inv /\ [Next]_vars => Inv'
<1>1. SUFFICES ASSUME Inv, [Next]_vars PROVE Inv'
  OBVIOUS
<1>2. TypeOK /\ \A r \in Requests : Timely(r)
  BY <1>1 DEF Inv
<1>3. ASSUME NEW r \in Requests, Incr(r) PROVE Inv'
  <2>1. /\ pc[r] = "stamped" /\ Increment(r) /\ UNCHANGED <<now, limit, stamp>>
        /\ GoTo(r, IF ticket'[r] = 1 THEN "first" ELSE Verdict(r, ticket'[r]))
        /\ Quota(r) \in Nat
    BY <1>2, <1>3 DEF Incr, Timely
  <2>2. ticket'[r] \in Nat
    BY <1>2, <2>1, SlotIsSlot DEF Increment, TypeOK
  <2>3. QED
    BY <1>1, <2>1, <2>2, IncrementKeepsInv DEF Verdict
<1>4. ASSUME NEW r \in Requests, Expire(r) PROVE Inv'
  <2>1. /\ pc[r] = "first" /\ SetTTL(r) /\ UNCHANGED <<now, limit, stamp>>
        /\ GoTo(r, Verdict(r, ticket[r]))
        /\ Quota(r) \in Nat /\ ticket[r] = 1
    BY <1>2, <1>4 DEF Expire, Timely
  <2>2. QED
    BY <1>1, <2>1, SetTTLKeepsInv DEF Verdict
<1>5. ASSUME NEW r \in Requests, RedisFails(r) PROVE Inv'
  <2>1. GoTo(r, "open") /\ UNCHANGED <<now, limit, stamp>> /\ pc[r] \in {"stamped", "first"}
    BY <1>5 DEF RedisFails
  <2>2. CASE pc[r] = "stamped" /\ Increment(r)
    BY <1>1, <2>1, <2>2, IncrementKeepsInv
  <2>3. CASE pc[r] = "first" /\ SetTTL(r)
    BY <1>1, <2>1, <2>3, SetTTLKeepsInv
  <2>4. CASE UNCHANGED <<redis, ticket>>
    <3>1. /\ pc' \in [Requests -> States]
          /\ \A q \in Requests : q # r => pc'[q] = pc[q]
          /\ pc'[r] = "open"
      BY <1>2, <2>1 DEF GoTo, TypeOK, States
    <3>2. QED
      BY <1>1, <2>1, <2>4, <3>1, GivingUpKeepsInv DEF redis
  <2>5. QED
    BY <1>5, <2>2, <2>3, <2>4 DEF RedisFails
<1>6. CASE Crash
  <2>1. /\ pc' = [r \in Requests |-> IF r \in InFlight THEN "lost" ELSE pc[r]]
        /\ UNCHANGED <<now, limit, count, expiry, stamp, ticket>>
    BY <1>6 DEF Crash, redis
  <2>2. pc' \in [Requests -> States]
    BY <1>2, <2>1 DEF TypeOK, States
  <2>3. QED
    BY <1>1, <2>1, <2>2, GivingUpKeepsInv DEF InFlight
<1>7. CASE UNCHANGED vars
  <2>1. pc' \in [Requests -> States]
    BY <1>2, <1>7 DEF vars, TypeOK, States
  <2>2. QED
    BY <1>1, <1>7, <2>1, GivingUpKeepsInv DEF vars, redis
<1>8. QED
  BY <1>1, <1>3, <1>4, <1>5, <1>6, <1>7, ArriveKeepsInv, TickKeepsInv DEF Next, RequestStep

LEMMA Invariance == Spec => []Inv
BY InvInit, InvStep, PTL DEF Spec

-------------------------------------------------------------------------------
(* The theorems.                                                           *)

\* As many requests as the limit are admitted in a window, at most: they hold
\* different tickets.
LEMMA WindowIsBounded ==
    ASSUME Inv, NEW k \in Keys, limit[k] # None, NEW w \in Nat,
           NEW A, A = { r \in Requests : /\ pc[r] = "admitted" /\ KeyOf[r] = k
                                        /\ WindowOf(stamp[r]) = w }
    PROVE  IsFiniteSet(A) /\ Cardinality(A) \in Nat /\ Cardinality(A) <= limit[k]
<1>1. TypeOK /\ Distinct /\ \A r \in Requests : Judged(r)
  BY DEF Inv
<1>2. limit[k] \in Nat
  BY <1>1, RequestAssumption DEF TypeOK
<1>3. \A r \in A : ticket[r] \in 1..limit[k] /\ Slot(r) = <<k, w>> /\ r \in Requests
  BY <1>1 DEF Judged, Quota, Slot
<1>4. \A r, s \in A : ticket[r] = ticket[s] => r = s
  BY <1>1, <1>3 DEF Distinct
<1> DEFINE f == [r \in A |-> ticket[r]]
<1>5. f \in Injection(A, 1..limit[k])
  <2>1. f \in [A -> 1..limit[k]]
    BY <1>3
  <2>2. \A r, s \in A : f[r] = f[s] => r = s
    BY <1>4
  <2>3. QED
    BY <2>1, <2>2 DEF Injection, IsInjective
<1>6. IsFiniteSet(1..limit[k]) /\ Cardinality(1..limit[k]) = limit[k]
  BY <1>2, FS_Interval
<1>7. IsFiniteSet(A) /\ Cardinality(A) <= limit[k]
  BY <1>5, <1>6, FS_Injection
<1>8. QED
  BY <1>7, FS_CardinalityType

\* No window of a key admits more requests by their count than its limit, for
\* every limit, width of the window and delay of at most one window between
\* reading the clock and INCR (enforce_rate_limit, _incr_window).
THEOREM LimitPerWindow == Spec => []WindowsKeepLimit
<1>1. Inv => WindowsKeepLimit
  <2>1. SUFFICES ASSUME Inv, NEW k \in Keys, NEW w \in Windows, limit[k] # None
                 PROVE  Cardinality(AdmittedBetween(k, w * Window, w * Window + Window - 1)) <= limit[k]
    BY DEF WindowsKeepLimit
  <2> DEFINE A == { r \in Requests : /\ pc[r] = "admitted" /\ KeyOf[r] = k
                                    /\ WindowOf(stamp[r]) = w }
  <2>2. w \in Nat /\ Window \in Nat /\ w * Window \in Nat
    BY WindowAssumption DEF Windows
  <2>3. ASSUME NEW r \in Requests
        PROVE  stamp[r] \in (w * Window)..(w * Window + Window - 1) <=> WindowOf(stamp[r]) = w
    <3>1. stamp[r] \in Nat
      BY <2>1, SlotIsSlot DEF Inv
    <3>2. /\ Start(WindowOf(stamp[r])) <= stamp[r]
          /\ stamp[r] < Start(WindowOf(stamp[r])) + Window
      BY <3>1, TimeInWindow
    <3>3. Start(w) = w * Window
      BY DEF Start
    <3>4. stamp[r] \in Start(w)..(Start(w) + Window - 1)
              <=> Start(w) <= stamp[r] /\ stamp[r] < Start(w) + Window
      BY <2>2, <3>1, <3>3
    <3>5. Start(w) <= stamp[r] /\ stamp[r] < Start(w) + Window => WindowOf(stamp[r]) = w
      BY <2>2, <3>1, WindowOfTime
    <3>6. QED
      BY <3>2, <3>3, <3>4, <3>5
  <2>4. AdmittedBetween(k, w * Window, w * Window + Window - 1) = A
    BY <2>3 DEF AdmittedBetween
  <2>5. QED
    BY <2>1, <2>2, <2>4, WindowIsBounded
<1>2. QED
  BY <1>1, Invariance, PTL

\* No interval as long as a window admits more than twice the limit, wherever
\* it begins (enforce_rate_limit).
THEOREM TwiceTheLimit == Spec => []BurstIsBounded
<1>1. Inv => BurstIsBounded
  <2>1. SUFFICES ASSUME Inv, NEW k \in Keys, NEW t \in 0..Horizon, limit[k] # None
                 PROVE  Cardinality(AdmittedBetween(k, t, t + Window - 1)) <= 2 * limit[k]
    BY DEF BurstIsBounded
  <2> DEFINE A(w) == { r \in Requests : /\ pc[r] = "admitted" /\ KeyOf[r] = k
                                       /\ WindowOf(stamp[r]) = w }
             w0 == WindowOf(t)
             B  == AdmittedBetween(k, t, t + Window - 1)
  <2>2. t \in Nat /\ w0 \in Nat /\ w0 + 1 \in Nat /\ limit[k] \in Nat
    <3>1. t \in Nat
      BY WindowAssumption
    <3>2. WindowOf(t) \in Nat
      BY <3>1, TimeInWindow
    <3>3. limit[k] \in Nat
      BY <2>1, RequestAssumption DEF Inv, TypeOK
    <3>4. QED
      BY <3>1, <3>2, <3>3
  <2>3. B \subseteq A(w0) \cup A(w0 + 1)
    <3>1. SUFFICES ASSUME NEW r \in B PROVE r \in A(w0) \/ r \in A(w0 + 1)
      OBVIOUS
    <3>2. /\ r \in Requests /\ pc[r] = "admitted" /\ KeyOf[r] = k
          /\ stamp[r] \in t..(t + Window - 1)
      BY DEF AdmittedBetween
    <3>3. WindowOf(stamp[r]) \in {w0, w0 + 1}
      BY <2>2, <3>2, TwoWindows
    <3>4. QED
      BY <3>2, <3>3
  <2>4. /\ IsFiniteSet(A(w0)) /\ Cardinality(A(w0)) \in Nat
        /\ Cardinality(A(w0)) <= limit[k]
    BY <2>1, <2>2, WindowIsBounded
  <2>5. /\ IsFiniteSet(A(w0 + 1)) /\ Cardinality(A(w0 + 1)) \in Nat
        /\ Cardinality(A(w0 + 1)) <= limit[k]
    BY <2>1, <2>2, WindowIsBounded
  <2> DEFINE S == A(w0)  T == A(w0 + 1)
  <2> HIDE DEF A, B, w0, S, T
  <2>6. /\ IsFiniteSet(S) /\ IsFiniteSet(T) /\ B \subseteq S \cup T
        /\ Cardinality(S) \in Nat /\ Cardinality(T) \in Nat
        /\ Cardinality(S) <= limit[k] /\ Cardinality(T) <= limit[k]
    BY <2>3, <2>4, <2>5 DEF S, T
  <2>7. /\ IsFiniteSet(S \cup T)
        /\ Cardinality(S \cup T) = Cardinality(S) + Cardinality(T) - Cardinality(S \cap T)
    BY <2>6, FS_Union
  <2>8. Cardinality(S \cap T) \in Nat
    <3>1. S \cap T \in SUBSET S
      OBVIOUS
    <3>2. IsFiniteSet(S \cap T)
      BY <2>6, <3>1, FS_Subset
    <3>3. QED
      BY <3>2, FS_CardinalityType
  <2>9. /\ IsFiniteSet(B) /\ Cardinality(B) <= Cardinality(S \cup T)
        /\ Cardinality(B) \in Nat
    <3>1. B \in SUBSET (S \cup T)
      BY <2>6
    <3>2. IsFiniteSet(B) /\ Cardinality(B) <= Cardinality(S \cup T)
      BY <2>7, <3>1, FS_Subset
    <3>3. QED
      BY <3>2, FS_CardinalityType
  <2>10. Cardinality(B) <= 2 * limit[k]
    BY <2>2, <2>6, <2>7, <2>8, <2>9
  <2>11. QED
    BY <2>10 DEF B
<1>2. QED
  BY <1>1, Invariance, PTL

\* Whoever gets a 429 comes after as many requests of the same key in the same
\* window as its limit allows (enforce_rate_limit).
THEOREM RejectedAfterQuota == Spec => []RejectedOnlyAtLimit
<1>1. Inv => RejectedOnlyAtLimit
  <2>1. SUFFICES ASSUME Inv, NEW r \in Requests, pc[r] = "rejected"
                 PROVE  Cardinality({ s \in Requests :
                            /\ KeyOf[s] = KeyOf[r]
                            /\ stamp[s] \div Window = stamp[r] \div Window
                            /\ ticket[s] > 0 }) > Quota(r)
    BY DEF RejectedOnlyAtLimit
  <2> DEFINE S == { s \in Requests : /\ KeyOf[s] = KeyOf[r]
                                    /\ stamp[s] \div Window = stamp[r] \div Window
                                    /\ ticket[s] > 0 }
             f == [n \in 1..ticket[r] |->
                       CHOOSE s \in Requests : Slot(s) = Slot(r) /\ ticket[s] = n]
  <2>2. ticket[r] \in Nat /\ Quota(r) \in Nat /\ ticket[r] > Quota(r)
    BY <2>1 DEF Inv, TypeOK, Judged
  <2>3. \A n \in 1..ticket[r] : f[n] \in Requests /\ Slot(f[n]) = Slot(r) /\ ticket[f[n]] = n
    BY <2>1 DEF Inv, Ranked
  <2>4. f \in Injection(1..ticket[r], S)
    <3>1. ASSUME NEW n \in 1..ticket[r] PROVE f[n] \in S
      <4>1. PICK s : s = f[n]
        OBVIOUS
      <4>2. s \in Requests /\ Slot(s) = Slot(r) /\ ticket[s] > 0
        BY <2>2, <2>3, <4>1
      <4>3. KeyOf[s] = KeyOf[r] /\ stamp[s] \div Window = stamp[r] \div Window
        BY <4>2 DEF Slot, WindowOf
      <4>4. s \in S
        BY <4>2, <4>3
      <4>5. QED
        BY <4>1, <4>4
    <3>2. f \in [1..ticket[r] -> S]
      BY <3>1
    <3>3. \A m, n \in 1..ticket[r] : f[m] = f[n] => m = n
      BY <2>3
    <3>4. QED
      BY <3>2, <3>3 DEF Injection, IsInjective
  <2>5. IsFiniteSet(S) /\ Cardinality(S) \in Nat
    <3>1. S \in SUBSET Requests
      OBVIOUS
    <3>2. IsFiniteSet(S)
      BY <3>1, RequestAssumption, FS_Subset
    <3>3. QED
      BY <3>2, FS_CardinalityType
  <2>6. Cardinality(1..ticket[r]) <= Cardinality(S)
    BY <2>4, <2>5, FS_Injection
  <2>7. Cardinality(1..ticket[r]) = ticket[r]
    BY <2>2, FS_Interval
  <2>8. QED
    BY <2>2, <2>5, <2>6, <2>7
<1>2. QED
  BY <1>1, Invariance, PTL

\* A counter without a TTL is one whose first request has yet to set it, or
\* failed or died before it did (_incr_window).
THEOREM CountersHaveTTL == Spec => []CountersEnd
<1>1. Inv => CountersEnd
  BY DEF Inv
<1>2. QED
  BY <1>1, Invariance, PTL
===============================================================================
