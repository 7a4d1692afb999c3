--------------------------- MODULE GatewayProofs ---------------------------
(***************************************************************************)
(* Theorems about Gateway, for any number of requests, processes, clients, *)
(* routes, periods and changes, and for all limits, windows and TTLs.      *)
(***************************************************************************)
EXTENDS Gateway, FiniteSetTheorems, FunctionTheorems, TLAPS

-----------------------------------------------------------------------------
(***************************************************************************)
(* Types.                                                                  *)
(***************************************************************************)
Checking == [pc : {"check"}, at : Time, member : Nat, proc : Processes,
             route : Routes, client : Clients]
Resolving == [pc : {"resolve"}, at : Time, proc : Processes]
Storing == [pc : {"store"}, at : Time, proc : Processes,
            start : Periods \cup {None}, included : Quantities \cup {None}]
Counting == [pc : {"count"}, at : Time, start : Periods, included : Quantities]
Request == {NoRequest} \cup Checking \cup Resolving \cup Storing \cup Counting

Entitlement == [start : Periods \cup {None}, included : Quantities \cup {None}, expires : Nat]

TypeInv ==
    /\ now \in Time
    /\ req \in [Slots -> Request]
    /\ sub \in Periods \cup {None}
    /\ metering \in Quantities \cup {None}
    /\ cached \in [Processes -> Entitlement]
    /\ changedAt \in Time
    /\ served \in Nat

\* A request under way is not older than MaxDelay.
DelayInv == \A s \in Slots : req[s] # NoRequest => req[s].at <= now /\ now <= req[s].at + MaxDelay

BaseInv == TypeInv /\ DelayInv

\* The stage of a request says what it holds.
LEMMA StageOf ==
    \A r \in Request :
        /\ r.pc = "check" => r \in Checking
        /\ r.pc = "resolve" => r \in Resolving
        /\ r.pc = "store" => r \in Storing
        /\ r.pc = "count" => r \in Counting
        /\ r.pc # "idle" <=> r # NoRequest
        /\ r # NoRequest => r.at \in Time
BY DEF Request, NoRequest, Checking, Resolving, Storing, Counting

LEMMA Constants ==
    /\ None \notin Nat /\ Quantities \subseteq Nat
    /\ EntitlementsTtl \in Nat \ {0} /\ PeriodLength \in Nat \ {0} /\ Grace \in Nat \ {0}
    /\ MinTtl \in Nat \ {0} /\ TierWindow \in Nat \ {0}
    /\ MaxDelay \in Nat /\ MaxTime \in Nat /\ MaxRequests \in Nat /\ MaxChanges \in Nat
    /\ Time \subseteq Nat /\ Periods \subseteq Time
BY GatewayAssumption DEF Time, Periods

\* The remainder of a multiple is zero.
LEMMA MultipleRemainder ==
    ASSUME NEW b \in Nat \ {0}, NEW q \in Nat
    PROVE  (b * q) % b = 0
<1>. DEFINE m == b * q  d == m \div b  r == m % b
<1>1. m \in Nat
  OBVIOUS
<1>2. d \in Int /\ r \in 0..(b - 1) /\ m = b * d + r
  BY <1>1
<1>3. b * (q - d) = r
  BY <1>2
<1>4. q - d = 0
  <2>1. CASE q - d >= 1
    <3>1. b * (q - d) >= b
      BY <1>2, <2>1
    <3>. QED
      BY <1>2, <1>3, <3>1
  <2>2. CASE q - d <= -1
    <3>1. b * (q - d) <= -b
      BY <1>2, <2>2
    <3>. QED
      BY <1>2, <1>3, <3>1
  <2>. QED
    BY <1>2, <2>1, <2>2
<1>. QED
  BY <1>2, <1>3, <1>4

\* There is a period for every time: the one Subscribe starts.
LEMMA CurrentPeriodType ==
    ASSUME now \in Time
    PROVE  CurrentPeriod \in Periods
<1>. DEFINE q == now \div PeriodLength  p == PeriodLength * q
<1>0. PeriodLength \in Nat \ {0} /\ now \in Nat /\ now <= MaxTime /\ MaxTime \in Nat
  BY Constants DEF Time
<1>1. q \in Nat /\ now % PeriodLength \in 0..(PeriodLength - 1) /\ now = p + (now % PeriodLength)
  BY <1>0
<1>2. p \in Nat
  BY <1>0, <1>1
<1>3. p % PeriodLength = 0
  BY <1>0, <1>1, MultipleRemainder
<1>. HIDE DEF q, p
<1>4. p <= now /\ now < p + PeriodLength
  BY <1>0, <1>1, <1>2
<1>5. p \in Periods
  BY <1>0, <1>2, <1>3, <1>4 DEF Periods, Time
<1>. QED
  BY <1>4, <1>5 DEF CurrentPeriod, EndOf

-----------------------------------------------------------------------------
(***************************************************************************)
(* The requests: types and delays.                                         *)
(***************************************************************************)

\* A slot that goes on with a request of the same age, or ends it.
LEMMA RequestStep ==
    ASSUME BaseInv, NEW s \in Slots, NEW r \in Request, req' = [req EXCEPT ![s] = r],
           r = NoRequest \/ r.at = req[s].at \/ r.at = now,
           r = NoRequest \/ req[s] # NoRequest \/ r.at = now,
           UNCHANGED now
    PROVE  req' \in [Slots -> Request] /\ DelayInv'
<1>1. req \in [Slots -> Request] /\ now \in Nat /\ MaxDelay \in Nat
  BY Constants DEF BaseInv, TypeInv
<1>2. ASSUME NEW v \in Slots, req'[v] # NoRequest
      PROVE  req'[v].at <= now /\ now <= req'[v].at + MaxDelay
  <2>1. CASE v # s
    BY <1>1, <1>2, <2>1 DEF BaseInv, DelayInv
  <2>2. CASE v = s
    <3>1. req'[v] = r
      BY <1>1, <2>2
    <3>2. CASE r.at = now
      BY <1>1, <3>1, <3>2
    <3>3. CASE r.at = req[s].at /\ req[s] # NoRequest
      BY <3>1, <3>3 DEF BaseInv, DelayInv
    <3>. QED
      BY <1>2, <3>1, <3>2, <3>3
  <2>. QED
    BY <2>1, <2>2
<1>. QED
  BY <1>1, <1>2 DEF DelayInv

LEMMA FinishStep ==
    ASSUME BaseInv, NEW s \in Slots, Finish(s), UNCHANGED now
    PROVE  req' \in [Slots -> Request] /\ DelayInv'
<1>1. NoRequest \in Request
  BY DEF Request
<1>. QED
  BY <1>1, RequestStep DEF Finish

LEMMA ArriveStep ==
    ASSUME BaseInv, NEW s \in Slots, NEW x \in Processes, NEW r \in Routes, NEW c \in Clients,
           Arrive(s, x, r, c)
    PROVE  BaseInv'
<1>. DEFINE q == [pc |-> "check", at |-> now, member |-> served + 1,
                  proc |-> x, route |-> r, client |-> c]
<1>1. q \in Checking
  BY DEF Checking, BaseInv, TypeInv
<1>2. q \in Request /\ q.at = now
  BY <1>1 DEF Request
<1>3. req' = [req EXCEPT ![s] = q] /\ UNCHANGED now
  BY DEF Arrive, Stage
<1>. HIDE DEF q
<1>4. req' \in [Slots -> Request] /\ DelayInv'
  BY <1>2, <1>3, RequestStep
<1>. QED
  BY <1>4 DEF Arrive, BaseInv, TypeInv, quotaVars, billVars

LEMMA CheckStep ==
    ASSUME BaseInv, NEW s \in Slots, Check(s)
    PROVE  BaseInv'
<1>1. req[s] \in Checking /\ req[s] # NoRequest /\ UNCHANGED now
  BY StageOf DEF Check, BaseInv, TypeInv
<1>2. ASSUME Stage(s, [pc |-> "resolve", at |-> req[s].at, proc |-> req[s].proc])
      PROVE  req' \in [Slots -> Request] /\ DelayInv'
  <2>. DEFINE q == [pc |-> "resolve", at |-> req[s].at, proc |-> req[s].proc]
  <2>1. q \in Request /\ q.at = req[s].at
    BY <1>1 DEF Checking, Resolving, Request
  <2>2. req' = [req EXCEPT ![s] = q]
    BY <1>2 DEF Stage
  <2>. HIDE DEF q
  <2>. QED
    BY <1>1, <2>1, <2>2, RequestStep
<1>3. req' \in [Slots -> Request] /\ DelayInv'
  BY <1>1, <1>2, FinishStep DEF Check
<1>. QED
  BY <1>3 DEF Check, BaseInv, TypeInv, quotaVars, billVars

\* A request that goes on to count has a period and an allowance.
LEMMA CountNext ==
    ASSUME BaseInv, NEW s \in Slots, req[s] # NoRequest, UNCHANGED now,
           NEW e, e.start \in Periods \cup {None}, e.included \in Quantities \cup {None},
           IF Metered(e)
           THEN Stage(s, [pc |-> "count", at |-> req[s].at, start |-> e.start, included |-> e.included])
           ELSE Finish(s)
    PROVE  req' \in [Slots -> Request] /\ DelayInv'
<1>1. CASE Metered(e)
  <2>. DEFINE q == [pc |-> "count", at |-> req[s].at, start |-> e.start, included |-> e.included]
  <2>1. q \in Request /\ q.at = req[s].at
    <3>1. req[s].at \in Time
      BY StageOf DEF BaseInv, TypeInv
    <3>2. e.start \in Periods /\ e.included \in Quantities
      BY <1>1 DEF Metered
    <3>. QED
      BY <3>1, <3>2 DEF Counting, Request
  <2>2. req' = [req EXCEPT ![s] = q]
    BY <1>1 DEF Stage
  <2>. HIDE DEF q
  <2>. QED
    BY <2>1, <2>2, RequestStep
<1>2. CASE ~Metered(e)
  BY <1>2, FinishStep
<1>. QED
  BY <1>1, <1>2

LEMMA ResolveStep ==
    ASSUME BaseInv, NEW s \in Slots, ResolveHit(s) \/ ResolveMiss(s)
    PROVE  BaseInv'
<1>1. req[s] \in Resolving /\ req[s] # NoRequest /\ UNCHANGED now
  BY StageOf DEF ResolveHit, ResolveMiss, BaseInv, TypeInv
<1>2. CASE ResolveHit(s)
  <2>1. cached[req[s].proc] \in Entitlement
    BY <1>1 DEF Resolving, BaseInv, TypeInv
  <2>2. req' \in [Slots -> Request] /\ DelayInv'
    BY <1>1, <1>2, <2>1, CountNext DEF ResolveHit, Entitlement
  <2>. QED
    BY <1>2, <2>2 DEF ResolveHit, BaseInv, TypeInv, quotaVars, billVars
<1>3. CASE ResolveMiss(s)
  <2>. DEFINE q == [pc |-> "store", at |-> req[s].at, proc |-> req[s].proc,
                    start |-> sub, included |-> metering]
  <2>1. q \in Request /\ q.at = req[s].at
    BY <1>1 DEF Resolving, Storing, Request, BaseInv, TypeInv
  <2>2. req' = [req EXCEPT ![s] = q]
    BY <1>3 DEF ResolveMiss, Stage
  <2>. HIDE DEF q
  <2>3. req' \in [Slots -> Request] /\ DelayInv'
    BY <1>1, <2>1, <2>2, RequestStep
  <2>. QED
    BY <1>3, <2>3 DEF ResolveMiss, BaseInv, TypeInv, quotaVars, billVars
<1>. QED
  BY <1>2, <1>3

LEMMA StoreStep ==
    ASSUME BaseInv, NEW s \in Slots, StoreEntitlements(s)
    PROVE  BaseInv'
<1>1. req[s] \in Storing /\ req[s] # NoRequest /\ UNCHANGED now
  BY StageOf DEF StoreEntitlements, BaseInv, TypeInv
<1>2. req' \in [Slots -> Request] /\ DelayInv'
  BY <1>1, CountNext DEF StoreEntitlements, Storing
<1>3. now + EntitlementsTtl \in Nat
  BY Constants DEF BaseInv, TypeInv
<1>4. cached' \in [Processes -> Entitlement]
  <2>. DEFINE e == [start |-> req[s].start,
                    included |-> IF req[s].start = None THEN None ELSE req[s].included,
                    expires |-> now + EntitlementsTtl]
  <2>1. e \in Entitlement
    BY <1>1, <1>3 DEF Storing, Entitlement
  <2>2. cached' = [cached EXCEPT ![req[s].proc] = e]
    BY DEF StoreEntitlements
  <2>. QED
    BY <2>1, <2>2 DEF BaseInv, TypeInv
<1>. QED
  BY <1>2, <1>4 DEF StoreEntitlements, BaseInv, TypeInv, billVars

LEMMA CountStep ==
    ASSUME BaseInv, NEW s \in Slots, Count(s)
    PROVE  BaseInv'
BY FinishStep DEF Count, BaseInv, TypeInv, billVars

LEMMA FaultStep ==
    ASSUME BaseInv, NEW s \in Slots, Fault(s)
    PROVE  BaseInv'
BY FinishStep DEF Fault, BaseInv, TypeInv, quotaVars, billVars

\* The steps that set the subscription.
SubscriptionStep == Subscribe \/ CancelSubscription \/ Renew

LEMMA SubscriptionStepSets ==
    ASSUME BaseInv, SubscriptionStep
    PROVE  \E x \in Periods \cup {None} : SetSubscription(x)
BY CurrentPeriodType DEF SubscriptionStep, Subscribe, CancelSubscription, Renew, BaseInv, TypeInv

LEMMA TickStep ==
    ASSUME BaseInv, Tick
    PROVE  BaseInv'
<1>1. now' \in Time /\ now' = now + 1 /\ now \in Nat /\ MaxDelay \in Nat
  BY Constants DEF Tick, BaseInv, TypeInv, Time
<1>2. ASSUME NEW s \in Slots, req[s] # NoRequest
      PROVE  req[s].at <= now + 1 /\ now + 1 <= req[s].at + MaxDelay
  <2>1. req[s].at \in Nat
    BY <1>2, StageOf, Constants DEF BaseInv, TypeInv
  <2>. QED
    BY <1>1, <1>2, <2>1 DEF Tick, BaseInv, DelayInv
<1>. QED
  BY <1>1, <1>2 DEF Tick, BaseInv, TypeInv, DelayInv, billVars

\* Next, one case per action.
LEMMA StepCases ==
    ASSUME [Next]_vars
    PROVE  \/ \E s \in Slots :
                 \/ \E x \in Processes, r \in Routes, c \in Clients : Arrive(s, x, r, c)
                 \/ Check(s) \/ ResolveHit(s) \/ ResolveMiss(s) \/ StoreEntitlements(s)
                 \/ Count(s) \/ Fault(s)
           \/ SubscriptionStep
           \/ \E q \in Quantities \cup {None} : UpdatePlan(q)
           \/ DeactivatePlan
           \/ \E p \in Periods : BillPeriod(p)
           \/ Tick
           \/ UNCHANGED vars
BY DEF Next, SubscriptionStep

LEMMA BaseInit == Init => BaseInv
<1>. SUFFICES ASSUME Init PROVE BaseInv
  OBVIOUS
<1>1. 0 \in Time /\ 0 \in Nat
  BY Constants DEF Time
<1>2. 0 \in Periods
  BY <1>1, Constants DEF Periods
<1>3. [start |-> None, included |-> None, expires |-> 0] \in Entitlement
  BY <1>1 DEF Entitlement
<1>4. cached \in [Processes -> Entitlement]
  BY <1>3 DEF Init
<1>. QED
  BY <1>1, <1>2, <1>4 DEF Init, BaseInv, TypeInv, DelayInv, Request

LEMMA BaseNext == BaseInv /\ [Next]_vars => BaseInv'
<1>. SUFFICES ASSUME BaseInv, [Next]_vars PROVE BaseInv'
  OBVIOUS
<1>1. CASE SubscriptionStep
  <2>1. PICK x \in Periods \cup {None} : SetSubscription(x)
    BY <1>1, SubscriptionStepSets
  <2>. QED
    BY <2>1 DEF SetSubscription, BaseInv, TypeInv, DelayInv, quotaVars
<1>2. ASSUME NEW q \in Quantities \cup {None}, UpdatePlan(q) PROVE BaseInv'
  BY <1>2 DEF UpdatePlan, BaseInv, TypeInv, DelayInv, quotaVars
<1>3. CASE DeactivatePlan
  BY <1>3 DEF DeactivatePlan, BaseInv, TypeInv, DelayInv, quotaVars
<1>4. ASSUME NEW p \in Periods, BillPeriod(p) PROVE BaseInv'
  BY <1>4 DEF BillPeriod, BaseInv, TypeInv, DelayInv, quotaVars
<1>5. CASE UNCHANGED vars
  BY <1>5 DEF vars, quotaVars, billVars, BaseInv, TypeInv, DelayInv
<1>. QED
  BY <1>1, <1>2, <1>3, <1>4, <1>5, StepCases, ArriveStep, CheckStep, ResolveStep, StoreStep,
     CountStep, FaultStep, TickStep

\* Types of the gateway's state, and the bound on the age of a request.
THEOREM GatewayTypes == Spec => []BaseInv
BY BaseInit, BaseNext, PTL DEF Spec

-----------------------------------------------------------------------------
(***************************************************************************)
(* The usage counters.                                                     *)
(***************************************************************************)
LEMMA LargestQuantity == Max(Quantities) \in Quantities /\ \A q \in Quantities : q <= Max(Quantities)
<1>1. \E q \in Quantities : \A r \in Quantities : q >= r
  BY GatewayAssumption
<1>. QED
  BY <1>1 DEF Max

\* A counter that exists lives until its period and the grace are over, and
\* until then it has lost no increment; what was let through within the
\* allowance was counted.
CounterInv ==
    /\ counter \in [Periods -> [n : Nat, until : Int]]
    /\ counted \in [Periods -> Nat] /\ within \in [Periods -> Nat]
    /\ \A p \in Periods : counter[p] = NoCounter \/ counter[p].until >= EndOf(p) + Grace
    /\ \A p \in Periods : now < EndOf(p) + Grace => counter[p].n = counted[p]
    /\ \A p \in Periods : counter[p].n <= counted[p]
    /\ \A p \in Periods : within[p] <= counted[p] /\ within[p] <= Max(Quantities)

\* An increment outlives the grace of its period.
LEMMA TtlIsLongEnough ==
    ASSUME now \in Nat, NEW p \in Periods
    PROVE  now + TtlFor(p) \in Int /\ now + TtlFor(p) >= EndOf(p) + Grace
<1>. DEFINE a == MinTtl  b == EndOf(p) - now + Grace  S == {a, b}
<1>1. a \in Int /\ b \in Int /\ EndOf(p) \in Int /\ Grace \in Int
  BY Constants DEF EndOf
<1>. HIDE DEF a
<1>2. \E x \in S : \A y \in S : x >= y
  <2>1. CASE a >= b
    BY <1>1, <2>1
  <2>2. CASE b >= a
    BY <1>1, <2>2
  <2>. QED
    BY <1>1, <2>1, <2>2
<1>3. Max(S) \in S /\ \A y \in S : Max(S) >= y
  BY <1>2 DEF Max
<1>4. TtlFor(p) = Max(S)
  BY DEF TtlFor, a
<1>5. TtlFor(p) \in Int /\ TtlFor(p) >= b
  BY <1>1, <1>3, <1>4
<1>. QED
  BY <1>1, <1>5

LEMMA CounterCount ==
    ASSUME BaseInv, CounterInv, NEW s \in Slots, Count(s)
    PROVE  CounterInv'
<1>. DEFINE q == req[s]  p == q.start  n == counter[p].n + 1
<1>1. q \in Counting /\ p \in Periods /\ q.included \in Quantities
  <2>1. q \in Counting
    BY StageOf DEF Count, BaseInv, TypeInv
  <2>. QED
    BY <2>1 DEF Counting
<1>2. now \in Nat /\ EndOf(p) \in Nat /\ Grace \in Nat /\ UNCHANGED now
  <2>1. now \in Nat /\ UNCHANGED now
    BY Constants DEF BaseInv, TypeInv, Count
  <2>. HIDE DEF p
  <2>2. p \in Nat /\ PeriodLength \in Nat /\ Grace \in Nat
    BY <1>1, Constants
  <2>. QED
    BY <2>1, <2>2 DEF EndOf
<1>3. Increment(p) = [n |-> n, until |-> now + TtlFor(p)]
  BY DEF Increment
<1>4. now + TtlFor(p) \in Int /\ now + TtlFor(p) >= EndOf(p) + Grace
  BY <1>1, <1>2, TtlIsLongEnough
<1>5. counter[p].n \in Nat /\ n \in Nat /\ counted[p] \in Nat /\ within[p] \in Nat
  BY <1>1 DEF CounterInv
<1>6. /\ counter' = [counter EXCEPT ![p] = [n |-> n, until |-> now + TtlFor(p)]]
      /\ counted' = [counted EXCEPT ![p] = @ + 1]
      /\ within' = IF n > q.included \/ now >= EndOf(p) + Grace THEN within
                   ELSE [within EXCEPT ![p] = @ + 1]
  BY <1>3 DEF Count, OverQuota
<1>. HIDE DEF q, p, n
<1>7. counter' \in [Periods -> [n : Nat, until : Int]]
  BY <1>1, <1>4, <1>5, <1>6 DEF CounterInv
<1>8. counted' \in [Periods -> Nat] /\ within' \in [Periods -> Nat]
  BY <1>1, <1>5, <1>6 DEF CounterInv
<1>9. \A o \in Periods : counter'[o] = NoCounter \/ counter'[o].until >= EndOf(o) + Grace
  BY <1>1, <1>4, <1>6 DEF CounterInv
<1>10. ASSUME NEW o \in Periods, now < EndOf(o) + Grace PROVE counter'[o].n = counted'[o]
  <2>1. counter[o].n = counted[o]
    BY <1>2, <1>10 DEF CounterInv
  <2>2. CASE o = p
    BY <1>1, <1>6, <2>1, <2>2 DEF CounterInv, n
  <2>3. CASE o # p
    BY <1>1, <1>6, <2>1, <2>3 DEF CounterInv
  <2>. QED
    BY <2>2, <2>3
<1>11. ASSUME NEW o \in Periods PROVE within'[o] <= counted'[o] /\ within'[o] <= Max(Quantities)
  <2>1. CASE o # p
    BY <1>1, <1>6, <2>1 DEF CounterInv
  <2>2. CASE o = p /\ within' = within
    BY <1>1, <1>5, <1>6, <2>2 DEF CounterInv
  <2>3. CASE o = p /\ ~(n > q.included) /\ ~(now >= EndOf(p) + Grace)
    <3>1. counter[p].n = counted[p]
      BY <1>1, <1>2, <2>3 DEF CounterInv
    <3>2. within'[p] = within[p] + 1 /\ counted'[p] = counted[p] + 1
      BY <1>1, <1>6, <2>3 DEF CounterInv
    <3>3. within[p] <= counted[p] /\ n = counted[p] + 1
      BY <1>1, <3>1 DEF CounterInv, n
    <3>4. q.included <= Max(Quantities) /\ q.included \in Nat /\ Max(Quantities) \in Nat
      BY <1>1, LargestQuantity, Constants
    <3>. QED
      BY <1>5, <2>3, <3>2, <3>3, <3>4
  <2>. QED
    BY <1>6, <2>1, <2>2, <2>3
<1>12. ASSUME NEW o \in Periods PROVE counter'[o].n <= counted'[o]
  <2>1. counter[o].n \in Nat /\ counted[o] \in Nat /\ counter[o].n <= counted[o]
    BY DEF CounterInv
  <2>2. CASE o = p
    BY <1>1, <1>6, <2>1, <2>2 DEF CounterInv, n
  <2>3. CASE o # p
    BY <1>1, <1>6, <2>1, <2>3 DEF CounterInv
  <2>. QED
    BY <2>2, <2>3
<1>. QED
  BY <1>2, <1>7, <1>8, <1>9, <1>10, <1>11, <1>12 DEF CounterInv

LEMMA CounterTick ==
    ASSUME BaseInv, CounterInv, Tick
    PROVE  CounterInv'
<1>1. now' = now + 1 /\ now \in Nat /\ UNCHANGED <<counted, within>>
  BY Constants DEF Tick, BaseInv, TypeInv
<1>2. NoCounter \in [n : Nat, until : Int]
  BY DEF NoCounter, Forever
<1>3. \A p \in Periods : counter'[p] = IF Dead(counter[p].until) THEN NoCounter ELSE counter[p]
  BY DEF Tick
<1>4. counter' \in [Periods -> [n : Nat, until : Int]]
  BY <1>2 DEF Tick, CounterInv
<1>5. ASSUME NEW p \in Periods, now + 1 < EndOf(p) + Grace
      PROVE  counter'[p].n = counted[p]
  <2>1. EndOf(p) \in Nat /\ Grace \in Nat /\ counter[p].until \in Int
    BY Constants DEF EndOf, CounterInv
  <2>2. counter[p].n = counted[p]
    BY <1>1, <1>5, <2>1 DEF CounterInv
  <2>3. CASE counter[p] = NoCounter
    BY <1>3, <2>2, <2>3
  <2>4. CASE counter[p].until >= EndOf(p) + Grace
    <3>1. ~Dead(counter[p].until)
      BY <1>1, <1>5, <2>1, <2>4 DEF Dead
    <3>. QED
      BY <1>3, <2>2, <3>1
  <2>. QED
    BY <2>3, <2>4 DEF CounterInv
<1>6. ASSUME NEW p \in Periods PROVE counter'[p].n <= counted'[p]
  <2>1. counter[p].n <= counted[p] /\ 0 <= counted[p] /\ NoCounter.n = 0
    BY DEF CounterInv, NoCounter
  <2>. QED
    BY <1>1, <1>3, <2>1
<1>. QED
  BY <1>1, <1>3, <1>4, <1>5, <1>6 DEF CounterInv

LEMMA CounterInit == Init => CounterInv
<1>. SUFFICES ASSUME Init PROVE CounterInv
  OBVIOUS
<1>1. 0 \in Nat /\ NoCounter \in [n : Nat, until : Int] /\ NoCounter.n = 0
  BY DEF NoCounter, Forever
<1>2. Max(Quantities) \in Nat
  BY LargestQuantity, Constants
<1>. QED
  BY <1>1, <1>2 DEF Init, CounterInv

LEMMA CounterNext == BaseInv /\ CounterInv /\ [Next]_vars => CounterInv'
<1>. SUFFICES ASSUME BaseInv, CounterInv, [Next]_vars PROVE CounterInv'
  OBVIOUS
<1>1. CASE UNCHANGED <<now, counter, counted, within>>
  BY <1>1 DEF CounterInv
<1>. QED
  BY <1>1, StepCases, CounterCount, CounterTick, SubscriptionStepSets
     DEF Arrive, Check, ResolveHit, ResolveMiss, StoreEntitlements, Fault, SetSubscription,
         UpdatePlan, DeactivatePlan, BillPeriod, vars, quotaVars

\* enforce_api_quota: however many processes count in parallel, with entries
\* cached before the plan changed, no more requests of a period are let
\* through before its counter may expire than the largest quantity included.
THEOREM QuotaIsKept == Spec => []QuotaHolds
<1>1. CounterInv => QuotaHolds
  BY DEF CounterInv, QuotaHolds
<1>. QED
  BY <1>1, BaseInit, BaseNext, CounterInit, CounterNext, PTL DEF Spec

-----------------------------------------------------------------------------
(***************************************************************************)
(* Invoices and reports of usage.                                          *)
(***************************************************************************)
BillInv ==
    /\ DOMAIN billed = Periods
    /\ \A p \in Periods : billed[p] # None =>
          /\ billed[p].overage <= billed[p].owed
          /\ ~billed[p].answered => billed[p].overage = 0
          /\ (billed[p].answered /\ billed[p].at < EndOf(p) + Grace) =>
                billed[p].overage = billed[p].owed

LEMMA BillStep ==
    ASSUME BaseInv, CounterInv, BillInv, NEW p \in Periods, BillPeriod(p)
    PROVE  BillInv'
<1>1. metering \in Nat /\ counted[p] \in Nat /\ counter[p].n \in Nat /\ counter[p].n <= counted[p]
  BY Constants DEF BillPeriod, BaseInv, TypeInv, CounterInv
<1>2. PICK r \in Readings(p) :
         billed' = [billed EXCEPT ![p] =
            [at |-> now, answered |-> r.answered, overage |-> Overage(r.used, metering),
             owed |-> Overage(counted[p], metering)]]
  BY DEF BillPeriod
<1>. DEFINE b == [at |-> now, answered |-> r.answered, overage |-> Overage(r.used, metering),
                  owed |-> Overage(counted[p], metering)]
<1>3. r = [answered |-> TRUE, used |-> counter[p].n] \/ r = [answered |-> FALSE, used |-> 0]
  BY <1>2 DEF Readings, GetUsage
<1>4. /\ r.used \in Nat /\ r.used <= counted[p]
      /\ ~r.answered => r.used = 0
      /\ r.answered => r.used = counter[p].n
  BY <1>1, <1>3
<1>5. Overage(0, metering) = 0 /\ Overage(r.used, metering) <= Overage(counted[p], metering)
  BY <1>1, <1>4 DEF Overage
<1>6. now < EndOf(p) + Grace => counter[p].n = counted[p]
  BY DEF CounterInv
<1>7. /\ b.overage <= b.owed
      /\ ~b.answered => b.overage = 0
      /\ (b.answered /\ b.at < EndOf(p) + Grace) => b.overage = b.owed
  BY <1>4, <1>5, <1>6
<1>8. billed' = [billed EXCEPT ![p] = b]
  BY <1>2
<1>. HIDE DEF b
<1>. QED
  BY <1>7, <1>8 DEF BillInv

LEMMA BillNext == BaseInv /\ CounterInv /\ BillInv /\ [Next]_vars => BillInv'
<1>. SUFFICES ASSUME BaseInv, CounterInv, BillInv, [Next]_vars PROVE BillInv'
  OBVIOUS
<1>1. CASE UNCHANGED billed
  BY <1>1 DEF BillInv
<1>. QED
  BY <1>1, StepCases, BillStep, SubscriptionStepSets
     DEF Arrive, Check, ResolveHit, ResolveMiss, StoreEntitlements, Count, Fault, SetSubscription,
         UpdatePlan, DeactivatePlan, Tick, vars, billVars

\* append_metered_lines and get_usage: no invoice bills more than the counted
\* overage; one whose read was answered before the counter may expire bills exactly
\* that, one whose read failed bills none of it, and until then the tenant is shown
\* what was counted or, when Redis does not answer, 0.
THEOREM OverageIsExact == Spec => []OverageExactInGrace
<1>1. Init => BillInv
  BY DEF Init, BillInv
<1>2. BaseInv /\ CounterInv /\ BillInv => OverageExactInGrace
  BY DEF BaseInv, TypeInv, CounterInv, BillInv, OverageExactInGrace, UsageReports, Readings, GetUsage
<1>. QED
  BY <1>1, <1>2, BaseInit, BaseNext, CounterInit, CounterNext, BillNext, PTL DEF Spec

-----------------------------------------------------------------------------
(***************************************************************************)
(* The period a request is charged to.                                     *)
(***************************************************************************)

\* A period that a request read, or found in a cache, is the tenant's or was
\* replaced after it was read.
ReadRecently(r) ==
    /\ (r.pc = "store" /\ r.start # sub) => changedAt >= r.at
    /\ (r.pc = "count" /\ r.start # sub) => changedAt > r.at - EntitlementsTtl - MaxDelay

\* An entry is stored at most MaxDelay after its period was read.
StoredRecently(e) ==
    /\ e.expires <= now + EntitlementsTtl
    /\ e.start # sub => changedAt >= e.expires - EntitlementsTtl - MaxDelay

ChargeInv ==
    /\ \A age \in misplaced : age < EntitlementsTtl + 2 * MaxDelay
    /\ changedAt <= now
    /\ \A x \in Processes : StoredRecently(cached[x])
    /\ \A s \in Slots : ReadRecently(req[s])

\* A request that goes on as r, while subscription and entries stay.
LEMMA ChargeRequest ==
    ASSUME BaseInv, ChargeInv, NEW s \in Slots, NEW r, req' = [req EXCEPT ![s] = r],
           ReadRecently(r), UNCHANGED <<now, sub, changedAt, cached, misplaced>>
    PROVE  ChargeInv'
<1>1. \A v \in Slots : req'[v] = IF v = s THEN r ELSE req[v]
  BY DEF BaseInv, TypeInv
<1>. QED
  BY <1>1 DEF ChargeInv, ReadRecently, StoredRecently

LEMMA IdleReadRecently == ReadRecently(NoRequest)
BY DEF ReadRecently, NoRequest

LEMMA ChargeResolve ==
    ASSUME BaseInv, ChargeInv, NEW s \in Slots, ResolveHit(s) \/ ResolveMiss(s)
    PROVE  ChargeInv'
<1>0. /\ EntitlementsTtl \in Nat \ {0} /\ MaxDelay \in Nat /\ now \in Nat /\ changedAt \in Nat
      /\ req[s].at \in Nat /\ req[s].at <= now
  BY Constants, StageOf DEF ResolveHit, ResolveMiss, BaseInv, TypeInv, DelayInv
<1>1. CASE ResolveHit(s)
  <2>. DEFINE e == cached[req[s].proc]
              q == [pc |-> "count", at |-> req[s].at, start |-> e.start, included |-> e.included]
  <2>1. e \in Entitlement /\ StoredRecently(e) /\ e.expires \in Nat
    <3>1. req[s] \in Resolving
      BY <1>1, StageOf DEF ResolveHit, BaseInv, TypeInv
    <3>. QED
      BY <3>1 DEF Resolving, Entitlement, BaseInv, TypeInv, ChargeInv
  <2>2. now < e.expires
    BY <1>1 DEF ResolveHit, Fresh
  <2>3. q.pc = "count" /\ q.at = req[s].at /\ q.start = e.start
    OBVIOUS
  <2>4. req' = [req EXCEPT ![s] = q] \/ req' = [req EXCEPT ![s] = NoRequest]
    BY <1>1 DEF ResolveHit, Stage, Finish
  <2>. HIDE DEF e, q
  <2>5. ReadRecently(q)
    BY <1>0, <2>1, <2>2, <2>3 DEF ReadRecently, StoredRecently
  <2>. QED
    BY <1>1, <2>4, <2>5, IdleReadRecently, ChargeRequest DEF ResolveHit, quotaVars, billVars
<1>2. CASE ResolveMiss(s)
  <2>. DEFINE q == [pc |-> "store", at |-> req[s].at, proc |-> req[s].proc,
                    start |-> sub, included |-> metering]
  <2>1. q.pc = "store" /\ q.start = sub
    OBVIOUS
  <2>2. req' = [req EXCEPT ![s] = q]
    BY <1>2 DEF ResolveMiss, Stage
  <2>. HIDE DEF q
  <2>3. ReadRecently(q)
    BY <2>1 DEF ReadRecently
  <2>. QED
    BY <1>2, <2>2, <2>3, ChargeRequest DEF ResolveMiss, quotaVars, billVars
<1>. QED
  BY <1>1, <1>2

LEMMA ChargeStore ==
    ASSUME BaseInv, ChargeInv, NEW s \in Slots, StoreEntitlements(s)
    PROVE  ChargeInv'
<1>. DEFINE q == req[s]
            e == [start |-> q.start, included |-> IF q.start = None THEN None ELSE q.included,
                  expires |-> now + EntitlementsTtl]
            c == [pc |-> "count", at |-> q.at, start |-> q.start, included |-> q.included]
<1>0. /\ EntitlementsTtl \in Nat \ {0} /\ MaxDelay \in Nat /\ now \in Nat /\ changedAt \in Nat
      /\ q.at \in Nat /\ q.at <= now /\ now <= q.at + MaxDelay
  BY Constants, StageOf DEF StoreEntitlements, BaseInv, TypeInv, DelayInv
<1>1. q.pc = "store" /\ ReadRecently(q) /\ UNCHANGED <<now, sub, changedAt, misplaced>>
  BY DEF StoreEntitlements, ChargeInv, billVars
<1>2. cached' = [cached EXCEPT ![q.proc] = e]
  BY DEF StoreEntitlements
<1>3. req' = [req EXCEPT ![s] = c] \/ req' = [req EXCEPT ![s] = NoRequest]
  BY DEF StoreEntitlements, Stage, Finish
<1>4. /\ e.start = q.start /\ e.expires = now + EntitlementsTtl
      /\ c.pc = "count" /\ c.at = q.at /\ c.start = q.start
  OBVIOUS
<1>. HIDE DEF q, e, c
<1>5. StoredRecently(e) /\ ReadRecently(c)
  BY <1>0, <1>1, <1>4 DEF StoredRecently, ReadRecently
<1>6. \A x \in Processes : StoredRecently(cached'[x])
  BY <1>2, <1>5 DEF BaseInv, TypeInv, ChargeInv
<1>7. \A v \in Slots : ReadRecently(req'[v])
  BY <1>3, <1>5, IdleReadRecently DEF BaseInv, TypeInv, ChargeInv
<1>. QED
  BY <1>1, <1>6, <1>7 DEF ChargeInv, ReadRecently, StoredRecently

LEMMA ChargeCount ==
    ASSUME BaseInv, ChargeInv, NEW s \in Slots, Count(s)
    PROVE  ChargeInv'
<1>0. /\ EntitlementsTtl \in Nat \ {0} /\ MaxDelay \in Nat /\ now \in Nat /\ changedAt \in Nat
      /\ req[s].at \in Nat /\ now <= req[s].at + MaxDelay
  BY Constants, StageOf DEF Count, BaseInv, TypeInv, DelayInv
<1>1. req[s].pc = "count" /\ ReadRecently(req[s]) /\ UNCHANGED <<now, sub, changedAt, cached>>
  BY DEF Count, ChargeInv, billVars
<1>2. misplaced' = IF req[s].start = sub THEN misplaced ELSE misplaced \cup {now - changedAt}
  BY DEF Count
<1>3. req[s].start # sub => now - changedAt < EntitlementsTtl + 2 * MaxDelay
  BY <1>0, <1>1 DEF ReadRecently
<1>4. \A v \in Slots : ReadRecently(req'[v])
  BY IdleReadRecently DEF Count, Finish, BaseInv, TypeInv, ChargeInv
<1>. QED
  BY <1>1, <1>2, <1>3, <1>4 DEF ChargeInv, ReadRecently, StoredRecently

LEMMA ChargeSubscription ==
    ASSUME BaseInv, ChargeInv, NEW x \in Periods \cup {None}, SetSubscription(x)
    PROVE  ChargeInv'
<1>0. /\ EntitlementsTtl \in Nat \ {0} /\ MaxDelay \in Nat /\ now \in Nat
  BY Constants DEF BaseInv, TypeInv
<1>1. changedAt' = now /\ UNCHANGED <<now, req, cached, misplaced>>
  BY DEF SetSubscription, quotaVars
<1>2. ASSUME NEW v \in Slots PROVE ReadRecently(req[v])'
  <2>1. req[v] # NoRequest => req[v].at \in Nat /\ req[v].at <= now
    BY Constants, StageOf DEF BaseInv, TypeInv, DelayInv
  <2>2. req[v] = NoRequest => req[v].pc = "idle"
    BY DEF NoRequest
  <2>. QED
    BY <1>0, <1>1, <2>1, <2>2 DEF ReadRecently
<1>3. ASSUME NEW y \in Processes PROVE StoredRecently(cached[y])'
  <2>1. cached[y].expires \in Nat /\ cached[y].expires <= now + EntitlementsTtl
    BY DEF BaseInv, TypeInv, Entitlement, ChargeInv, StoredRecently
  <2>. QED
    BY <1>0, <1>1, <2>1 DEF StoredRecently
<1>. QED
  BY <1>0, <1>1, <1>2, <1>3 DEF ChargeInv

LEMMA ChargeTick ==
    ASSUME BaseInv, ChargeInv, Tick
    PROVE  ChargeInv'
<1>0. /\ EntitlementsTtl \in Nat \ {0} /\ now \in Nat /\ changedAt \in Nat
  BY Constants DEF BaseInv, TypeInv
<1>1. now' = now + 1 /\ UNCHANGED <<req, cached, misplaced, sub, changedAt>>
  BY DEF Tick, billVars
<1>2. ASSUME NEW y \in Processes PROVE StoredRecently(cached[y])'
  <2>1. cached[y].expires \in Nat
    BY DEF BaseInv, TypeInv, Entitlement
  <2>. QED
    BY <1>0, <1>1, <2>1 DEF StoredRecently, ChargeInv
<1>. QED
  BY <1>0, <1>1, <1>2 DEF ChargeInv, ReadRecently

LEMMA ChargeNext == BaseInv /\ ChargeInv /\ [Next]_vars => ChargeInv'
<1>. SUFFICES ASSUME BaseInv, ChargeInv, [Next]_vars PROVE ChargeInv'
  OBVIOUS
<1>1. ASSUME NEW s \in Slots, NEW x \in Processes, NEW r \in Routes, NEW c \in Clients,
             Arrive(s, x, r, c)
      PROVE  ChargeInv'
  BY <1>1, ChargeRequest DEF Arrive, Stage, ReadRecently, quotaVars, billVars
<1>2. ASSUME NEW s \in Slots, Check(s) PROVE ChargeInv'
  <2>. DEFINE q == [pc |-> "resolve", at |-> req[s].at, proc |-> req[s].proc]
  <2>1. req' = [req EXCEPT ![s] = q] \/ req' = [req EXCEPT ![s] = NoRequest]
    BY <1>2 DEF Check, Stage, Finish
  <2>2. ReadRecently(q)
    BY DEF ReadRecently
  <2>. HIDE DEF q
  <2>. QED
    BY <1>2, <2>1, <2>2, IdleReadRecently, ChargeRequest DEF Check, quotaVars, billVars
<1>3. ASSUME NEW s \in Slots, Fault(s) PROVE ChargeInv'
  BY <1>3, IdleReadRecently, ChargeRequest DEF Fault, Finish, quotaVars, billVars
<1>4. CASE UNCHANGED <<now, req, sub, changedAt, cached, misplaced>>
  BY <1>4 DEF ChargeInv, ReadRecently, StoredRecently
<1>5. CASE SubscriptionStep
  BY <1>5, SubscriptionStepSets, ChargeSubscription
<1>. QED
  BY <1>1, <1>2, <1>3, <1>4, <1>5, StepCases, ChargeResolve, ChargeStore, ChargeCount, ChargeTick
     DEF UpdatePlan, DeactivatePlan, BillPeriod, vars, quotaVars, billVars

\* resolve_entitlements and enforce_api_quota: a request is charged to another
\* than the tenant's live period only within the TTL of the cached entry and
\* two request times of a change of the subscription.
THEOREM ChargedRecently == Spec => []ChargedToCurrentPeriod
<1>1. Init => ChargeInv
  <2>. SUFFICES ASSUME Init PROVE ChargeInv
    OBVIOUS
  <2>1. EntitlementsTtl \in Nat /\ MaxDelay \in Nat
    BY Constants
  <2>. QED
    BY <2>1, IdleReadRecently DEF Init, ChargeInv, StoredRecently
<1>2. ChargeInv => ChargedToCurrentPeriod
  BY DEF ChargeInv, ChargedToCurrentPeriod
<1>. QED
  BY <1>1, <1>2, BaseInit, BaseNext, ChargeNext, PTL DEF Spec

-----------------------------------------------------------------------------
(***************************************************************************)
(* The sliding window.                                                     *)
(***************************************************************************)

\* A key has one limit and one window.
LEMMA KeyLimit ==
    ASSUME NEW r \in Routes, NEW c \in Clients
    PROVE  LET l == LimitFor(r, c) IN
           /\ LimitOf(l.key) = l /\ l.key \in Keys
           /\ l.limit \in Nat /\ l.window \in Nat
<1>. DEFINE l == LimitFor(r, c)
            L == {LimitFor(a, b) : a \in Routes, b \in Clients}
<1>1. ASSUME NEW q \in Routes, NEW d \in Clients, LimitFor(q, d).key = l.key
      PROVE  LimitFor(q, d) = l
  <2>1. CASE FindHandler(q).config # None /\ FindHandler(r).config # None
    <3>1. q.path = r.path
      BY <1>1, <2>1 DEF LimitFor
    <3>2. FindHandler(q).config = FindHandler(r).config
      BY <2>1, <3>1, RoutesAssumption
    <3>. QED
      BY <1>1, <2>1, <3>2 DEF LimitFor
  <2>2. CASE FindHandler(q).config = None /\ FindHandler(r).config = None
    <3>1. <<q.tier, d>> = <<r.tier, c>>
      BY <1>1, <2>2 DEF LimitFor, TierConfig
    <3>. QED
      BY <2>2, <3>1 DEF LimitFor, TierConfig
  <2>3. CASE FindHandler(q).config = None /\ FindHandler(r).config # None
    <3>1. <<q.tier, d>> = <<"custom", c, r.path>>
      BY <1>1, <2>3 DEF LimitFor, TierConfig
    <3>. QED
      BY <3>1
  <2>4. CASE FindHandler(q).config # None /\ FindHandler(r).config = None
    <3>1. <<"custom", d, q.path>> = <<r.tier, c>>
      BY <1>1, <2>4 DEF LimitFor, TierConfig
    <3>. QED
      BY <3>1
  <2>. QED
    BY <2>1, <2>2, <2>3, <2>4
<1>2. l \in L /\ \A m \in L : m.key = l.key => m = l
  BY <1>1
<1>3. LimitOf(l.key) = CHOOSE m \in L : m.key = l.key
  BY DEF LimitOf
<1>4. LimitOf(l.key) = l
  <2>. HIDE DEF l, L
  <2>. QED
    BY <1>2, <1>3
<1>5. l.limit \in Nat /\ l.window \in Nat
  BY RoutesAssumption, Constants DEF LimitFor, TierConfig
<1>6. l.key \in Keys
  BY DEF Keys
<1>. QED
  BY <1>4, <1>5, <1>6

LEMMA LimitTypes == \A k \in Keys : LimitOf(k).limit \in Nat /\ LimitOf(k).window \in Nat
BY KeyLimit DEF Keys

\* Requests that are all members of a set, under distinct names, are not more
\* than its members.
LEMMA NamedMembers ==
    ASSUME NEW R, NEW M, IsFiniteSet(M),
           \A b \in R : \E m \in M : m.member = b.member,
           \A a, b \in R : a.member = b.member => a = b
    PROVE  IsFiniteSet(R) /\ Cardinality(R) <= Cardinality(M)
<1>. DEFINE f == [b \in R |-> CHOOSE m \in M : m.member = b.member]
<1>1. \A b \in R : f[b] \in M /\ f[b].member = b.member
  OBVIOUS
<1>2. f \in [R -> M]
  BY <1>1
<1>3. \A a, b \in R : f[a] = f[b] => a = b
  BY <1>1
<1>. HIDE DEF f
<1>4. f \in Injection(R, M)
  BY <1>2, <1>3, Fun_IsInj
<1>. QED
  BY <1>4, FS_Injection

\* Each request has a name of its own.
NameInv ==
    /\ admitted \in [Keys -> SUBSET [member : Nat, at : Time]]
    /\ \A k \in Keys : \A a \in admitted[k] : a.member <= served
    /\ \A k \in Keys : \A a, b \in admitted[k] : a.member = b.member => a = b
    /\ \A s \in Slots : req[s].pc = "check" =>
          /\ req[s].member <= served
          /\ \A k \in Keys : \A a \in admitted[k] : a.member # req[s].member
          /\ \A v \in Slots : req[v].pc = "check" /\ req[v].member = req[s].member => v = s

\* A key expires no earlier than the youngest of its members leaves the window,
\* and a request admitted a window less MaxDelay ago is still a member.
MemberInv ==
    /\ window \in [Keys -> [members : SUBSET [member : Nat, score : Time], until : Int]]
    /\ \A k \in Keys :
          /\ IsFiniteSet(window[k].members)
          /\ window[k].until <= now + LimitOf(k).window
          /\ \A m \in window[k].members : m.score + LimitOf(k).window <= window[k].until
    /\ \A k \in Keys : \A a \in admitted[k] :
          a.at + LimitOf(k).window > now + MaxDelay =>
             \E m \in window[k].members : m.member = a.member /\ a.at <= m.score + MaxDelay

WindowInv == NameInv /\ MemberInv

LEMMA NameArrive ==
    ASSUME BaseInv, NameInv, NEW s \in Slots, NEW x \in Processes, NEW r \in Routes,
           NEW c \in Clients, Arrive(s, x, r, c)
    PROVE  NameInv'
<1>. DEFINE q == [pc |-> "check", at |-> now, member |-> served + 1,
                  proc |-> x, route |-> r, client |-> c]
<1>1. /\ served \in Nat /\ served' = served + 1 /\ UNCHANGED admitted
      /\ req' = [req EXCEPT ![s] = q] /\ req \in [Slots -> Request]
  BY DEF Arrive, Stage, limitVars, BaseInv, TypeInv
<1>2. q.pc = "check" /\ q.member = served + 1
  OBVIOUS
<1>. HIDE DEF q
<1>3. ASSUME NEW v \in Slots, req[v].pc = "check"
      PROVE  req[v].member \in Nat /\ req[v].member <= served
  BY <1>3, StageOf DEF BaseInv, TypeInv, Checking, NameInv
<1>4. ASSUME NEW k \in Keys, NEW a \in admitted[k]
      PROVE  a.member \in Nat /\ a.member <= served /\ a.member <= served + 1 /\ a.member # served + 1
  <2>1. a.member \in Nat /\ a.member <= served
    BY DEF NameInv
  <2>. QED
    BY <1>1, <2>1
<1>5. \A v \in Slots : req'[v] = IF v = s THEN q ELSE req[v]
  BY <1>1
<1>6. ASSUME NEW v \in Slots, req'[v].pc = "check"
      PROVE  /\ req'[v].member <= served + 1
             /\ \A k \in Keys : \A a \in admitted[k] : a.member # req'[v].member
             /\ \A u \in Slots : req'[u].pc = "check" /\ req'[u].member = req'[v].member => u = v
  <2>1. CASE v = s
    BY <1>1, <1>2, <1>3, <1>4, <1>5, <2>1
  <2>2. CASE v # s
    <3>1. req'[v] = req[v] /\ req[v].member \in Nat /\ req[v].member <= served
      BY <1>3, <1>5, <1>6, <2>2
    <3>2. req[v].member <= served + 1 /\ req[v].member # served + 1
      BY <1>1, <3>1
    <3>. QED
      BY <1>2, <1>5, <1>6, <2>2, <3>1, <3>2 DEF NameInv
  <2>. QED
    BY <2>1, <2>2
<1>. QED
  BY <1>1, <1>4, <1>6 DEF NameInv

\* A request that leaves the stage of the check, without being admitted.
LEMMA NameLeave ==
    ASSUME BaseInv, NameInv, NEW s \in Slots, NEW r, req' = [req EXCEPT ![s] = r],
           r.pc # "check", UNCHANGED <<served, admitted>>
    PROVE  NameInv'
<1>1. \A v \in Slots : req'[v] = IF v = s THEN r ELSE req[v]
  BY DEF BaseInv, TypeInv
<1>. QED
  BY <1>1 DEF NameInv

LEMMA IdleNotChecking == NoRequest.pc # "check"
BY DEF NoRequest

\* What a check does.
LEMMA CheckFacts ==
    ASSUME BaseInv, NEW s \in Slots, Check(s)
    PROVE  LET q == req[s]
               l == LimitFor(q.route, q.client)
               members == Slide(window[l.key].members, q.member, q.at, l.window)
               new == [member |-> q.member, at |-> now]
           IN  /\ q \in Checking /\ q.pc = "check"
               /\ q.at \in Nat /\ q.at <= now /\ now <= q.at + MaxDelay /\ now \in Time
               /\ LimitOf(l.key) = l /\ l.key \in Keys /\ l.limit \in Nat /\ l.window \in Nat
               /\ window' = [window EXCEPT ![l.key] = [members |-> members, until |-> now + l.window]]
               /\ \/ UNCHANGED admitted
                  \/ /\ Cardinality(members) <= l.limit
                     /\ admitted' = [admitted EXCEPT ![l.key] = @ \cup {new}]
               /\ \E r : req' = [req EXCEPT ![s] = r] /\ r.pc # "check"
               /\ UNCHANGED <<now, served>>
<1>1. req[s] \in Checking /\ req[s].pc = "check"
  BY StageOf DEF Check, BaseInv, TypeInv
<1>2. /\ req[s].at \in Nat /\ req[s].at <= now /\ now <= req[s].at + MaxDelay /\ now \in Time
      /\ req[s].route \in Routes /\ req[s].client \in Clients
  BY <1>1, StageOf, Constants DEF BaseInv, TypeInv, DelayInv, Checking
<1>3. \E r : req' = [req EXCEPT ![s] = r] /\ r.pc # "check"
  <2>. DEFINE q == [pc |-> "resolve", at |-> req[s].at, proc |-> req[s].proc]
  <2>1. req' = [req EXCEPT ![s] = q] \/ req' = [req EXCEPT ![s] = NoRequest]
    BY DEF Check, Stage, Finish
  <2>2. q.pc # "check"
    OBVIOUS
  <2>. HIDE DEF q
  <2>. QED
    BY <2>1, <2>2, IdleNotChecking
<1>. QED
  BY <1>1, <1>2, <1>3, KeyLimit DEF Check, Allowed

LEMMA NameCheck ==
    ASSUME BaseInv, NameInv, NEW s \in Slots, Check(s)
    PROVE  NameInv'
<1>. DEFINE q == req[s]  k == LimitFor(q.route, q.client).key
            new == [member |-> q.member, at |-> now]
<1>1. PICK r : req' = [req EXCEPT ![s] = r] /\ r.pc # "check"
  BY CheckFacts
<1>2. CASE UNCHANGED admitted
  BY <1>1, <1>2, NameLeave, CheckFacts
<1>3. CASE admitted' = [admitted EXCEPT ![k] = @ \cup {new}]
  <2>1. /\ q.pc = "check" /\ q.member \in Nat /\ now \in Time /\ k \in Keys /\ UNCHANGED served
    BY CheckFacts DEF Checking
  <2>2. /\ q.member <= served
        /\ \A j \in Keys : \A a \in admitted[j] : a.member # q.member
        /\ \A v \in Slots : req[v].pc = "check" /\ req[v].member = q.member => v = s
    BY <2>1 DEF NameInv
  <2>3. new \in [member : Nat, at : Time] /\ new.member = q.member
    BY <2>1
  <2>4. \A v \in Slots : req'[v] = IF v = s THEN r ELSE req[v]
    BY <1>1 DEF BaseInv, TypeInv
  <2>. HIDE DEF q, k, new
  <2>5. \A j \in Keys : admitted'[j] = IF j = k THEN admitted[j] \cup {new} ELSE admitted[j]
    BY <1>3 DEF NameInv
  <2>6. admitted' \in [Keys -> SUBSET [member : Nat, at : Time]]
    BY <1>3, <2>1, <2>3 DEF NameInv
  <2>7. \A j \in Keys : \A a \in admitted'[j] : a.member <= served
    BY <2>2, <2>3, <2>5 DEF NameInv
  <2>8. ASSUME NEW j \in Keys, NEW a \in admitted'[j], NEW b \in admitted'[j], a.member = b.member
        PROVE  a = b
    <3>1. /\ a \in admitted[j] \/ a = new
          /\ b \in admitted[j] \/ b = new
      BY <2>5
    <3>2. CASE a \in admitted[j] /\ b \in admitted[j]
      BY <2>8, <3>2 DEF NameInv
    <3>. QED
      BY <2>2, <2>3, <2>8, <3>1, <3>2
  <2>9. ASSUME NEW v \in Slots, req'[v].pc = "check"
        PROVE  /\ req'[v].member <= served
               /\ \A j \in Keys : \A a \in admitted'[j] : a.member # req'[v].member
               /\ \A u \in Slots : req'[u].pc = "check" /\ req'[u].member = req'[v].member => u = v
    <3>1. v # s /\ req'[v] = req[v]
      BY <1>1, <2>4, <2>9
    <3>2. req[v].member # q.member
      BY <2>2, <2>9, <3>1
    <3>3. /\ req[v].member <= served
          /\ \A j \in Keys : \A a \in admitted[j] : a.member # req[v].member
          /\ \A u \in Slots : req[u].pc = "check" /\ req[u].member = req[v].member => u = v
      BY <2>9, <3>1 DEF NameInv
    <3>4. \A j \in Keys : \A a \in admitted'[j] : a.member # req[v].member
      BY <2>3, <2>5, <3>2, <3>3
    <3>5. \A u \in Slots : req'[u].pc = "check" => req'[u] = req[u]
      BY <1>1, <2>4
    <3>. QED
      BY <3>1, <3>3, <3>4, <3>5
  <2>. QED
    BY <2>1, <2>6, <2>7, <2>8, <2>9 DEF NameInv
<1>. QED
  BY <1>2, <1>3, CheckFacts

\* The steps after the check and the steps of others.
LEMMA OtherRequestSteps ==
    ASSUME BaseInv, NEW s \in Slots,
           ResolveHit(s) \/ ResolveMiss(s) \/ StoreEntitlements(s) \/ Count(s) \/ Fault(s)
    PROVE  /\ \E r : req' = [req EXCEPT ![s] = r] /\ r.pc # "check"
           /\ UNCHANGED <<served, admitted, window, now>>
<1>1. ASSUME NEW e,
             IF Metered(e)
             THEN Stage(s, [pc |-> "count", at |-> req[s].at, start |-> e.start, included |-> e.included])
             ELSE Finish(s)
      PROVE  \E r : req' = [req EXCEPT ![s] = r] /\ r.pc # "check"
  <2>. DEFINE c == [pc |-> "count", at |-> req[s].at, start |-> e.start, included |-> e.included]
  <2>1. req' = [req EXCEPT ![s] = c] \/ req' = [req EXCEPT ![s] = NoRequest]
    BY <1>1 DEF Stage, Finish
  <2>2. c.pc # "check"
    OBVIOUS
  <2>. HIDE DEF c
  <2>. QED
    BY <2>1, <2>2, IdleNotChecking
<1>2. CASE ResolveHit(s)
  BY <1>1, <1>2 DEF ResolveHit, limitVars
<1>3. CASE ResolveMiss(s)
  <2>. DEFINE c == [pc |-> "store", at |-> req[s].at, proc |-> req[s].proc,
                    start |-> sub, included |-> metering]
  <2>1. req' = [req EXCEPT ![s] = c] /\ c.pc # "check"
    BY <1>3 DEF ResolveMiss, Stage
  <2>. HIDE DEF c
  <2>. QED
    BY <1>3, <2>1 DEF ResolveMiss, limitVars
<1>4. CASE StoreEntitlements(s)
  BY <1>1, <1>4 DEF StoreEntitlements, limitVars
<1>5. CASE Count(s) \/ Fault(s)
  BY <1>5, IdleNotChecking DEF Count, Fault, Finish, limitVars
<1>. QED
  BY <1>2, <1>3, <1>4, <1>5

LEMMA NameNext == BaseInv /\ NameInv /\ [Next]_vars => NameInv'
<1>. SUFFICES ASSUME BaseInv, NameInv, [Next]_vars PROVE NameInv'
  OBVIOUS
<1>1. CASE UNCHANGED <<req, served, admitted>>
  BY <1>1 DEF NameInv
<1>. QED
  BY <1>1, StepCases, NameArrive, NameCheck, NameLeave, OtherRequestSteps, SubscriptionStepSets
     DEF SetSubscription, UpdatePlan, DeactivatePlan, BillPeriod, Tick, vars, limitVars

LEMMA MemberCheck ==
    ASSUME BaseInv, WindowInv, NEW s \in Slots, Check(s)
    PROVE  MemberInv'
<1>. DEFINE q == req[s]
            l == LimitFor(q.route, q.client)
            k == l.key
            old == window[k].members
            add == [member |-> q.member, score |-> q.at]
            members == Slide(old, q.member, q.at, l.window)
            new == [member |-> q.member, at |-> now]
<1>1. /\ q.member \in Nat /\ q.at \in Time
      /\ q.at \in Nat /\ q.at <= now /\ now <= q.at + MaxDelay /\ now \in Time
      /\ LimitOf(k) = l /\ k \in Keys /\ l.limit \in Nat /\ l.window \in Nat
      /\ window' = [window EXCEPT ![k] = [members |-> members, until |-> now + l.window]]
      /\ UNCHANGED now
  BY CheckFacts DEF Checking
<1>2. UNCHANGED admitted \/ admitted' = [admitted EXCEPT ![k] = @ \cup {new}]
  BY CheckFacts
<1>3. members = {e \in old : e.score > q.at - l.window} \cup {add}
  BY DEF Slide
<1>4. /\ add \in [member : Nat, score : Time] /\ add.member = q.member /\ add.score = q.at
      /\ new.member = q.member /\ new.at = now
  BY <1>1
<1>5. /\ old \in SUBSET [member : Nat, score : Time] /\ IsFiniteSet(old)
      /\ window[k].until \in Int /\ window[k].until <= now + l.window
      /\ \A m \in old : m.score + l.window <= window[k].until
      /\ \A a \in admitted[k] :
            a.at + l.window > now + MaxDelay =>
               \E m \in old : m.member = a.member /\ a.at <= m.score + MaxDelay
  BY <1>1 DEF WindowInv, MemberInv
<1>6. now \in Nat /\ MaxDelay \in Nat
  BY <1>1, Constants
<1>7. admitted[k] \in SUBSET [member : Nat, at : Time]
  BY <1>1 DEF WindowInv, NameInv
<1>. HIDE DEF q, l, k, old, add, members, new
<1>8. members \in SUBSET [member : Nat, score : Time]
  BY <1>3, <1>4, <1>5
<1>9. IsFiniteSet(members)
  <2>1. IsFiniteSet({e \in old : e.score > q.at - l.window})
    BY <1>5, FS_Subset
  <2>. QED
    BY <1>3, <2>1, FS_AddElement
<1>10. ASSUME NEW m \in members PROVE m.score + l.window <= now + l.window
  <2>1. CASE m = add
    BY <1>1, <1>4, <1>6, <2>1
  <2>2. CASE m \in old
    <3>1. m.score \in Nat
      BY <1>5, <2>2, Constants
    <3>. QED
      BY <1>1, <1>5, <1>6, <2>2, <3>1
  <2>. QED
    BY <1>3, <2>1, <2>2
<1>11. ASSUME NEW a \in admitted[k], a.at + l.window > now + MaxDelay
       PROVE  \E m \in members : m.member = a.member /\ a.at <= m.score + MaxDelay
  <2>1. PICK m \in old : m.member = a.member /\ a.at <= m.score + MaxDelay
    BY <1>5, <1>11
  <2>2. m.score \in Nat /\ a.at \in Nat
    BY <1>5, <1>7, Constants
  <2>3. m.score > q.at - l.window
    BY <1>1, <1>6, <1>11, <2>1, <2>2
  <2>. QED
    BY <1>3, <2>1, <2>3
<1>12. \E m \in members : m.member = new.member /\ new.at <= m.score + MaxDelay
  BY <1>1, <1>3, <1>4
<1>13. window'[k] = [members |-> members, until |-> now + l.window]
       /\ \A j \in Keys \ {k} : window'[j] = window[j]
  BY <1>1 DEF WindowInv, MemberInv
<1>14. window' \in [Keys -> [members : SUBSET [member : Nat, score : Time], until : Int]]
  <2>1. now + l.window \in Int
    BY <1>1, <1>6
  <2>. QED
    BY <1>1, <1>8, <2>1 DEF WindowInv, MemberInv
<1>15. ASSUME NEW j \in Keys
       PROVE  /\ IsFiniteSet(window'[j].members)
              /\ window'[j].until <= now + LimitOf(j).window
              /\ \A m \in window'[j].members : m.score + LimitOf(j).window <= window'[j].until
  <2>1. CASE j = k
    <3>1. window'[j].members = members /\ window'[j].until = now + l.window /\ LimitOf(j) = l
      BY <1>1, <1>13, <2>1
    <3>2. now + l.window <= now + l.window
      BY <1>1, <1>6
    <3>. QED
      BY <1>9, <1>10, <3>1, <3>2
  <2>2. CASE j # k
    BY <1>13, <2>2 DEF WindowInv, MemberInv
  <2>. QED
    BY <2>1, <2>2
<1>16. ASSUME NEW j \in Keys, NEW a \in admitted'[j],
              a.at + LimitOf(j).window > now + MaxDelay
       PROVE  \E m \in window'[j].members : m.member = a.member /\ a.at <= m.score + MaxDelay
  <2>1. CASE j = k
    <3>1. a \in admitted[k] \/ a = new
      BY <1>2, <2>1 DEF WindowInv, NameInv
    <3>2. window'[j].members = members /\ LimitOf(j) = l
      BY <1>1, <1>13, <2>1
    <3>. QED
      BY <1>11, <1>12, <1>16, <3>1, <3>2
  <2>2. CASE j # k
    <3>1. admitted'[j] = admitted[j]
      BY <1>2, <2>2 DEF WindowInv, NameInv
    <3>. QED
      BY <1>13, <1>16, <2>2, <3>1 DEF WindowInv, MemberInv
  <2>. QED
    BY <2>1, <2>2
<1>. QED
  BY <1>1, <1>14, <1>15, <1>16 DEF MemberInv

LEMMA WindowTypes ==
    ASSUME WindowInv, NEW k \in Keys
    PROVE  /\ window[k].until \in Int
           /\ \A m \in window[k].members : m.score \in Nat
           /\ \A a \in admitted[k] : a.at \in Nat
           /\ LimitOf(k).window \in Nat
<1>1. window[k].members \subseteq [member : Nat, score : Time] /\ window[k].until \in Int
  BY DEF WindowInv, MemberInv
<1>2. admitted[k] \subseteq [member : Nat, at : Time]
  BY DEF WindowInv, NameInv
<1>. QED
  BY <1>1, <1>2, LimitTypes, Constants

LEMMA MemberTick ==
    ASSUME BaseInv, WindowInv, Tick
    PROVE  MemberInv'
<1>1. now' = now + 1 /\ now \in Nat /\ MaxDelay \in Nat /\ UNCHANGED admitted
  BY Constants DEF Tick, BaseInv, TypeInv
<1>2. \A k \in Keys : window'[k] = IF Dead(window[k].until) THEN EmptyWindow ELSE window[k]
  BY DEF Tick
<1>3. /\ EmptyWindow \in [members : SUBSET [member : Nat, score : Time], until : Int]
      /\ EmptyWindow.members = {} /\ EmptyWindow.until = -1
  BY DEF EmptyWindow, Forever
<1>4. window' \in [Keys -> [members : SUBSET [member : Nat, score : Time], until : Int]]
  BY <1>3 DEF Tick, WindowInv, MemberInv
<1>5. ASSUME NEW k \in Keys
      PROVE  /\ IsFiniteSet(window'[k].members)
             /\ window'[k].until <= now + 1 + LimitOf(k).window
             /\ \A m \in window'[k].members : m.score + LimitOf(k).window <= window'[k].until
  <2>1. LimitOf(k).window \in Nat /\ window[k].until \in Int
    BY WindowTypes
  <2>2. CASE window'[k] = EmptyWindow
    <3>1. window'[k].members = {} /\ window'[k].until = -1
      BY <1>3, <2>2
    <3>2. -1 <= now + 1 + LimitOf(k).window
      BY <1>1, <2>1
    <3>. QED
      BY <3>1, <3>2, FS_EmptySet
  <2>3. CASE window'[k] = window[k]
    BY <1>1, <2>1, <2>3 DEF WindowInv, MemberInv
  <2>. QED
    BY <1>2, <2>2, <2>3
<1>6. ASSUME NEW k \in Keys, NEW a \in admitted[k],
             a.at + LimitOf(k).window > now + 1 + MaxDelay
      PROVE  \E m \in window'[k].members : m.member = a.member /\ a.at <= m.score + MaxDelay
  <2>1. LimitOf(k).window \in Nat /\ window[k].until \in Int /\ a.at \in Nat
    BY WindowTypes
  <2>2. a.at + LimitOf(k).window > now + MaxDelay
    BY <1>1, <1>6, <2>1
  <2>3. PICK m \in window[k].members : m.member = a.member /\ a.at <= m.score + MaxDelay
    BY <2>2 DEF WindowInv, MemberInv
  <2>4. m.score \in Nat /\ m.score + LimitOf(k).window <= window[k].until
    BY WindowTypes DEF WindowInv, MemberInv
  <2>5. ~(window[k].until <= now + 1)
    BY <1>1, <1>6, <2>1, <2>3, <2>4
  <2>6. window'[k] = window[k]
    BY <1>2, <2>5 DEF Dead
  <2>. QED
    BY <2>3, <2>6
<1>. QED
  BY <1>1, <1>4, <1>5, <1>6 DEF MemberInv

LEMMA WindowNext == BaseInv /\ WindowInv /\ [Next]_vars => WindowInv'
<1>. SUFFICES ASSUME BaseInv, WindowInv, [Next]_vars PROVE WindowInv'
  OBVIOUS
<1>1. NameInv'
  BY NameNext DEF WindowInv
<1>2. CASE UNCHANGED <<now, window, admitted>>
  BY <1>1, <1>2 DEF WindowInv, MemberInv
<1>3. MemberInv' \/ UNCHANGED <<now, window, admitted>>
  BY StepCases, MemberCheck, MemberTick, OtherRequestSteps, SubscriptionStepSets
     DEF Arrive, SetSubscription, UpdatePlan, DeactivatePlan, BillPeriod, vars, limitVars
<1>. QED
  BY <1>1, <1>2, <1>3 DEF WindowInv

LEMMA WindowInit == Init => WindowInv
<1>. SUFFICES ASSUME Init PROVE WindowInv
  OBVIOUS
<1>1. /\ EmptyWindow \in [members : SUBSET [member : Nat, score : Time], until : Int]
      /\ EmptyWindow.members = {} /\ EmptyWindow.until = -1
  BY DEF EmptyWindow, Forever
<1>2. NameInv
  BY IdleNotChecking DEF Init, NameInv
<1>3. ASSUME NEW k \in Keys PROVE window[k].until <= now + LimitOf(k).window
  BY <1>1, LimitTypes DEF Init
<1>4. MemberInv
  BY <1>1, <1>3, FS_EmptySet DEF Init, MemberInv
<1>. QED
  BY <1>2, <1>4 DEF WindowInv

\* The admission of one more request.
LEMMA BoundCheck ==
    ASSUME BaseInv, WindowInv, WindowInv', WindowBound, NEW s \in Slots, Check(s)
    PROVE  WindowBound'
<1>. DEFINE q == req[s]
            l == LimitFor(q.route, q.client)
            k == l.key
            members == Slide(window[k].members, q.member, q.at, l.window)
            new == [member |-> q.member, at |-> now]
            Near(A, a, w) == {b \in A : a.at <= b.at /\ b.at < a.at + w - MaxDelay}
<1>1. /\ LimitOf(k) = l /\ k \in Keys /\ l.limit \in Nat /\ l.window \in Nat
      /\ window' = [window EXCEPT ![k] = [members |-> members, until |-> now + l.window]]
      /\ UNCHANGED now /\ now \in Nat /\ MaxDelay \in Nat
  BY CheckFacts, Constants
<1>2. CASE UNCHANGED admitted
  BY <1>2 DEF WindowBound
<1>3. CASE /\ Cardinality(members) <= l.limit
           /\ admitted' = [admitted EXCEPT ![k] = @ \cup {new}]
  <2>1. new.at = now
    OBVIOUS
  <2>2. window'[k].members = members
    BY <1>1 DEF WindowInv, MemberInv
  <2>. HIDE DEF q, l, k, members, new
  <2>3. /\ admitted'[k] = admitted[k] \cup {new}
        /\ \A j \in Keys \ {k} : admitted'[j] = admitted[j]
    BY <1>1, <1>3 DEF WindowInv, NameInv
  <2>4. /\ \A b \in admitted'[k] : b.at \in Nat
        /\ \A a, b \in admitted'[k] : a.member = b.member => a = b
        /\ \A b \in admitted'[k] : b.at + l.window > now + MaxDelay =>
              \E m \in members : m.member = b.member
        /\ IsFiniteSet(members)
    <3>1. admitted'[k] \subseteq [member : Nat, at : Time]
      BY <1>1 DEF WindowInv, NameInv
    <3>2. \A a, b \in admitted'[k] : a.member = b.member => a = b
      BY <1>1 DEF WindowInv, NameInv
    <3>3. /\ IsFiniteSet(window'[k].members)
          /\ \A b \in admitted'[k] : b.at + LimitOf(k).window > now' + MaxDelay =>
                \E m \in window'[k].members : m.member = b.member
      BY <1>1 DEF WindowInv, MemberInv
    <3>. QED
      BY <1>1, <2>2, <3>1, <3>2, <3>3, Constants
  <2>5. ASSUME NEW a \in admitted'[k]
        PROVE  Cardinality(Near(admitted'[k], a, l.window)) <= l.limit
    <3>1. CASE new \in Near(admitted'[k], a, l.window)
      <4>. DEFINE R == Near(admitted'[k], a, l.window)
      <4>1. now < a.at + l.window - MaxDelay /\ a.at \in Nat
        BY <2>1, <2>4, <2>5, <3>1
      <4>2. ASSUME NEW b \in R PROVE b \in admitted'[k] /\ b.at + l.window > now + MaxDelay
        <5>1. b \in admitted'[k] /\ b.at \in Nat /\ a.at <= b.at
          BY <2>4, <4>2
        <5>. QED
          BY <1>1, <4>1, <5>1
      <4>3. \A b \in R : \E m \in members : m.member = b.member
        BY <2>4, <4>2
      <4>4. \A b, c \in R : b.member = c.member => b = c
        BY <2>4, <4>2
      <4>. HIDE DEF R
      <4>5. Cardinality(R) <= Cardinality(members)
        BY <2>4, <4>3, <4>4, NamedMembers
      <4>6. IsFiniteSet(R) /\ Cardinality(R) \in Nat /\ Cardinality(members) \in Nat
        <5>1. Cardinality(members) \in Nat
          BY <2>4, FS_CardinalityType
        <5>2. IsFiniteSet(R)
          BY <2>4, <4>3, <4>4, NamedMembers
        <5>. QED
          BY <5>1, <5>2, FS_CardinalityType
      <4>. QED
        BY <1>1, <1>3, <4>5, <4>6 DEF R
    <3>2. CASE new \notin Near(admitted'[k], a, l.window)
      <4>1. CASE a \in admitted[k]
        <5>1. Near(admitted'[k], a, l.window) = Near(admitted[k], a, l.window)
          BY <2>3, <3>2
        <5>2. Cardinality(Near(admitted[k], a, l.window)) <= l.limit
          BY <1>1, <4>1 DEF WindowBound
        <5>. QED
          BY <5>1, <5>2
      <4>2. CASE a = new
        <5>1. ~(now < now + l.window - MaxDelay)
          BY <1>1, <2>1, <2>3, <3>2, <4>2
        <5>2. ASSUME NEW b \in Near(admitted'[k], a, l.window) PROVE FALSE
          <6>1. b.at \in Nat /\ now <= b.at /\ b.at < now + l.window - MaxDelay
            BY <2>1, <2>4, <4>2, <5>2
          <6>. QED
            BY <1>1, <5>1, <6>1
        <5>3. Near(admitted'[k], a, l.window) = {}
          BY <5>2
        <5>. QED
          <6>1. 0 <= l.limit
            BY <1>1
          <6>. QED
            BY <5>3, <6>1, FS_EmptySet
      <4>. QED
        BY <2>3, <4>1, <4>2
    <3>. QED
      BY <3>1, <3>2
  <2>6. ASSUME NEW j \in Keys, NEW a \in admitted'[j]
        PROVE  Cardinality(Near(admitted'[j], a, LimitOf(j).window)) <= LimitOf(j).limit
    <3>1. CASE j = k
      BY <1>1, <2>5, <2>6, <3>1
    <3>2. CASE j # k
      BY <2>3, <2>6, <3>2 DEF WindowBound
    <3>. QED
      BY <3>1, <3>2
  <2>. QED
    BY <2>6 DEF WindowBound
<1>. QED
  BY <1>2, <1>3, CheckFacts

\* RedisSlidingWindowLimiter.check: with the checks of any number of processes
\* executed in any order, each stamped up to MaxDelay before, no more than limit
\* requests of a key are admitted within window - MaxDelay ticks.
THEOREM WindowIsBounded == Spec => []WindowBound
<1>1. Init => WindowBound
  BY DEF Init, WindowBound
<1>2. BaseInv /\ WindowInv /\ WindowBound /\ [Next]_vars => WindowBound'
  <2>. SUFFICES ASSUME BaseInv, WindowInv, WindowBound, [Next]_vars PROVE WindowBound'
    OBVIOUS
  <2>1. WindowInv'
    BY WindowNext
  <2>2. CASE UNCHANGED admitted
    BY <2>2 DEF WindowBound
  <2>. QED
    BY <2>1, <2>2, StepCases, BoundCheck, OtherRequestSteps, SubscriptionStepSets
       DEF Arrive, SetSubscription, UpdatePlan, DeactivatePlan, BillPeriod, Tick, vars, limitVars
<1>. QED
  BY <1>1, <1>2, BaseInit, BaseNext, WindowInit, WindowNext, PTL DEF Spec

=============================================================================
