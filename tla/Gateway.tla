------------------------------- MODULE Gateway -------------------------------
(***************************************************************************)
(* What a request passes before its handler runs: the sliding-window rate  *)
(* limiter of the middleware, and the usage quota of the router-level      *)
(* dependency, with the Redis counters both keep, the entitlements each    *)
(* process caches, and the metered lines invoices draw from the counters.  *)
(*                                                                         *)
(* A process serves many requests at once; a request is a slot of it and   *)
(* is split at its awaits.  Time is counted in ticks; no request takes     *)
(* longer than MaxDelay.                                                   *)
(***************************************************************************)
EXTENDS Integers, FiniteSets, FiniteSetsExt, Functions

CONSTANTS
    Slots,          \* requests under way, over all processes
    Processes,      \* API processes
    Clients,        \* remote addresses
    RouteTable,     \* routes in order of registration
    TierLimit,      \* RATE_LIMIT_ADMIN, _SENSITIVE, _AUTHENTICATED, _PUBLIC
    TierWindow,     \* RATE_LIMIT_WINDOW_SECONDS
    None,
    Quantities,     \* values of included_quantity a plan may have
    EntitlementsTtl, PeriodLength, Grace, MinTtl,
    MaxDelay,       \* bound: ticks a request takes
    MaxTime, MaxRequests, MaxChanges     \* bounds

ASSUME GatewayAssumption ==
    /\ None \notin Nat
    /\ Quantities \subseteq Nat /\ \E q \in Quantities : \A r \in Quantities : r <= q
    /\ {EntitlementsTtl, PeriodLength, Grace, MinTtl, TierWindow} \subseteq Nat \ {0}
    /\ {MaxDelay, MaxTime, MaxRequests, MaxChanges} \subseteq Nat
    /\ MaxDelay < TierWindow

Time == 0..MaxTime
Forever == -1

VARIABLES
    now,
    req,        \* what each slot is doing
    window,     \* Redis: the sorted set of each rate limit key
    admitted,   \* history: the requests of a key that were admitted, and when
    sub,        \* the tenant's live subscription, or None
    metering,   \* included_quantity of its plan, or None: not metered
    offered,    \* is_active of the plan
    cached,     \* _entitlements_cache of each process
    counter,    \* Redis: billing:usage:<tenant>:api_requests:<period start>
    counted,    \* history: increments per period
    within,     \* history: requests let through by a period's counter in time
    billed,     \* history: the overage invoiced per period, and what was owed
    changedAt,  \* history: when sub last changed
    misplaced,  \* history: charges to another than the live period
    served, changes

limitVars == <<window, admitted>>
quotaVars == <<cached, counter, counted, within, misplaced>>
billVars == <<sub, metering, offered, changedAt, billed, changes>>
vars == <<now, req, limitVars, quotaVars, billVars, served>>

-----------------------------------------------------------------------------
(***************************************************************************)
(* Which limit applies.                                                    *)
(***************************************************************************)
Routes == Range(RouteTable)

\* _find_handler: the first route registered for the method.  (route.matches
\* answers with a member of a plain Enum, all of which are true.)
FindHandler(r) ==
    RouteTable[Min({i \in DOMAIN RouteTable : RouteTable[i].method = r.method})]

\* _get_tier_config; which prefix a path has is part of the route.
TierConfig(r, c) == [key |-> <<r.tier, c>>, limit |-> TierLimit[r.tier], window |-> TierWindow]

\* dispatch: a decorated handler limits per path, otherwise the tier decides.
\* request.state.user_id is set by nobody, so a client is its address.
LimitFor(r, c) ==
    LET config == FindHandler(r).config IN
    IF config # None
    THEN [key |-> <<"custom", c, r.path>>, limit |-> config.times, window |-> config.seconds]
    ELSE TierConfig(r, c)

\* What the decorators and the settings hold.  Only POST handlers are
\* decorated, so requests that share a custom key share its limit.
ASSUME RoutesAssumption ==
    /\ \A r \in Routes :
          /\ TierLimit[r.tier] \in Nat
          /\ FindHandler(r).config # None =>
                FindHandler(r).config \in [times : Nat, seconds : Nat \ {0}]
    /\ \A r, q \in Routes :
          (r.path = q.path /\ None \notin {FindHandler(r).config, FindHandler(q).config}) =>
             FindHandler(r).config = FindHandler(q).config

Keys == {LimitFor(r, c).key : r \in Routes, c \in Clients}
LimitOf(k) == CHOOSE l \in {LimitFor(r, c) : r \in Routes, c \in Clients} : l.key = k

EmptyWindow == [members |-> {}, until |-> Forever]

-----------------------------------------------------------------------------
NoRequest == [pc |-> "idle"]
NoCounter == [n |-> 0, until |-> Forever]
Periods == {t \in Time : t % PeriodLength = 0}
EndOf(p) == p + PeriodLength

Init ==
    /\ now = 0
    /\ req = [s \in Slots |-> NoRequest]
    /\ window = [k \in Keys |-> EmptyWindow]
    /\ admitted = [k \in Keys |-> {}]
    /\ sub \in {None, 0}
    /\ metering \in Quantities
    /\ offered = TRUE
    /\ cached = [x \in Processes |-> [start |-> None, included |-> None, expires |-> 0]]
    /\ counter = [p \in Periods |-> NoCounter]
    /\ counted = [p \in Periods |-> 0]
    /\ within = [p \in Periods |-> 0]
    /\ billed = [p \in Periods |-> None]
    /\ changedAt = 0
    /\ misplaced = {}
    /\ served = 0 /\ changes = 0

\* Slot s goes on with its next stage.
Stage(s, r) == req' = [req EXCEPT ![s] = r]
Finish(s) == req' = [req EXCEPT ![s] = NoRequest]

-----------------------------------------------------------------------------
(***************************************************************************)
(* The rate limiter.                                                       *)
(***************************************************************************)
\* dispatch reaches check, which reads the clock and draws a member (a uuid,
\* here the number of the request) before it awaits Redis.
\* /healthz, /readyz and /metrics are not limited and touch nothing here.
Arrive(s, x, r, c) ==
    /\ req[s] = NoRequest
    /\ served < MaxRequests
    /\ served' = served + 1
    /\ Stage(s, [pc |-> "check", at |-> now, member |-> served + 1,
                proc |-> x, route |-> r, client |-> c])
    /\ UNCHANGED <<now, limitVars, quotaVars, billVars>>

\* Mutant: members at the edge of the window, and just inside, are dropped.
SlideNarrow(members, m, at, width) ==
    {e \in members : e.score > at - width + MaxDelay} \cup {[member |-> m, score |-> at]}

\* ZREMRANGEBYSCORE -inf..at-width, then ZADD of m with score at.
Slide(members, m, at, width) ==
    {e \in members : e.score > at - width} \cup {[member |-> m, score |-> at]}

\* ZCARD
Allowed(members, limit) == Cardinality(members) <= limit

\* The transaction of check, and what dispatch makes of its count.
Check(s) ==
    LET q == req[s]
        l == LimitFor(q.route, q.client)
        members == Slide(window[l.key].members, q.member, q.at, l.window)
    IN
    /\ q.pc = "check"
    /\ window' = [window EXCEPT ![l.key] = [members |-> members, until |-> now + l.window]]
    /\ \/ /\ ~Allowed(members, l.limit)
          /\ Finish(s)
          /\ UNCHANGED admitted
       \/ /\ Allowed(members, l.limit)
          /\ admitted' = [admitted EXCEPT ![l.key] = @ \cup {[member |-> q.member, at |-> now]}]
          /\ IF q.route.metered THEN Stage(s, [pc |-> "resolve", at |-> q.at, proc |-> q.proc]) ELSE Finish(s)
    /\ UNCHANGED <<now, quotaVars, billVars, served>>

-----------------------------------------------------------------------------
(***************************************************************************)
(* Quota.                                                                  *)
(***************************************************************************)
\* Mutant: an entry is used whatever its age.
FreshAlways(e) == e.expires > 0

Fresh(e) == now < e.expires

\* extract_metering leaves no api_requests: the request is not counted.
Metered(e) == e.start # None /\ e.included # None

\* resolve_entitlements, cached.  A period-less entry stands for "none".
ResolveHit(s) ==
    LET e == cached[req[s].proc] IN
    /\ req[s].pc = "resolve"
    /\ Fresh(e)
    /\ IF Metered(e)
       THEN Stage(s, [pc |-> "count", at |-> req[s].at, start |-> e.start, included |-> e.included])
       ELSE Finish(s)
    /\ UNCHANGED <<now, limitVars, quotaVars, billVars, served>>

\* resolve_entitlements, not cached: the SELECT ...
ResolveMiss(s) ==
    /\ req[s].pc = "resolve"
    /\ ~Fresh(cached[req[s].proc])
    /\ Stage(s, [pc |-> "store", at |-> req[s].at, proc |-> req[s].proc, start |-> sub, included |-> metering])
    /\ UNCHANGED <<now, limitVars, quotaVars, billVars, served>>

\* ... and the entry made of its answer.
StoreEntitlements(s) ==
    LET q == req[s] IN
    /\ q.pc = "store"
    /\ cached' = [cached EXCEPT ![q.proc] =
          [start |-> q.start, included |-> IF q.start = None THEN None ELSE q.included,
           expires |-> now + EntitlementsTtl]]
    /\ IF Metered(q)
       THEN Stage(s, [pc |-> "count", at |-> q.at, start |-> q.start, included |-> q.included])
       ELSE Finish(s)
    /\ UNCHANGED <<now, limitVars, counter, counted, within, misplaced, billVars, served>>

\* ttl_for
TtlFor(p) == Max({MinTtl, EndOf(p) - now + Grace})

\* increment: INCRBY and EXPIRE in one transaction.
Increment(p) == [n |-> counter[p].n + 1, until |-> now + TtlFor(p)]

\* Mutant: the allowance may be reached once more.
OverQuotaLate(n, included) == n > included + 1

OverQuota(n, included) == n > included

\* enforce_api_quota: the increment and the comparison.
Count(s) ==
    LET q == req[s]
        p == q.start
        n == Increment(p).n
    IN
    /\ q.pc = "count"
    /\ counter' = [counter EXCEPT ![p] = Increment(p)]
    /\ counted' = [counted EXCEPT ![p] = @ + 1]
    /\ within' = IF OverQuota(n, q.included) \/ now >= EndOf(p) + Grace THEN within
                 ELSE [within EXCEPT ![p] = @ + 1]
    /\ misplaced' = IF p = sub THEN misplaced ELSE misplaced \cup {now - changedAt}
    /\ Finish(s)
    /\ UNCHANGED <<now, limitVars, cached, billVars, served>>

\* Redis does not answer the limiter: the request fails.  A failure inside
\* the quota check lets the request pass uncounted.
Fault(s) ==
    /\ req[s] # NoRequest
    /\ Finish(s)
    /\ UNCHANGED <<now, limitVars, quotaVars, billVars, served>>

-----------------------------------------------------------------------------
(***************************************************************************)
(* The subscription, its plan, and the invoices.                           *)
(***************************************************************************)
Change == changes < MaxChanges /\ changes' = changes + 1

\* A subscription starts, or is cancelled.
SetSubscription(x) ==
    /\ Change
    /\ sub # x
    /\ sub' = x
    /\ changedAt' = now
    /\ UNCHANGED <<now, req, limitVars, quotaVars, metering, offered, billed, served>>

CurrentPeriod == CHOOSE p \in Periods : p <= now /\ now < EndOf(p)
\* subscribe asks for an active plan.
Subscribe == offered /\ sub = None /\ SetSubscription(CurrentPeriod)
CancelSubscription == sub # None /\ SetSubscription(None)

\* Stripe reports the next period, at its start or late.
Renew == sub # None /\ EndOf(sub) \in Periods /\ now >= EndOf(sub) /\ SetSubscription(EndOf(sub))

\* update_plan: metering replaced, or cleared with an explicit null.
UpdatePlan(q) ==
    /\ Change
    /\ metering # q
    /\ metering' = q
    /\ UNCHANGED <<now, req, limitVars, quotaVars, sub, offered, changedAt, billed, served>>

\* deactivate_plan: the plan is no longer offered; its subscribers keep it.
DeactivatePlan ==
    /\ Change
    /\ offered
    /\ offered' = FALSE
    /\ UNCHANGED <<now, req, limitVars, quotaVars, sub, metering, changedAt, billed, served>>

\* compute_overage
Overage(used, included) == IF used > included THEN used - included ELSE 0

\* Mutant: the counter of the period that is running is read.
GetUsageRunning(p) == counter[CurrentPeriod].n

\* get_usage, when Redis answers: a missing counter reads as 0.
GetUsage(p) == counter[p].n

\* What get_usage may return: it fails open, a read that Redis does not answer is 0.
Readings(p) == {[answered |-> TRUE, used |-> GetUsage(p)], [answered |-> FALSE, used |-> 0]}

\* The endpoint get_usage: the live period as its tenant may see it.
UsageReports == {[used |-> r.used, included |-> metering] : r \in Readings(sub)}

\* append_metered_lines, for the subscription's period once it has ended, as
\* the sweep invoices it.  The invoice is written whether or not its read was
\* answered; owed is the overage of what was counted.
BillPeriod(p) ==
    /\ sub = p
    /\ now >= EndOf(p)
    /\ billed[p] = None
    /\ metering # None
    /\ \E r \in Readings(p) :
          billed' = [billed EXCEPT ![p] =
             [at |-> now, answered |-> r.answered, overage |-> Overage(r.used, metering),
              owed |-> Overage(counted[p], metering)]]
    /\ UNCHANGED <<now, req, limitVars, quotaVars, sub, metering, offered, changedAt, changes, served>>

-----------------------------------------------------------------------------
Dead(until) == until # Forever /\ until <= now + 1

\* Time passes unless a request would exceed MaxDelay; Redis drops the
\* keys that expire.
Tick ==
    /\ now < MaxTime
    /\ \A s \in Slots : req[s] # NoRequest => now < req[s].at + MaxDelay
    /\ now' = now + 1
    /\ window' = [k \in Keys |-> IF Dead(window[k].until) THEN EmptyWindow ELSE window[k]]
    /\ counter' = [p \in Periods |-> IF Dead(counter[p].until) THEN NoCounter ELSE counter[p]]
    /\ UNCHANGED <<req, admitted, cached, counted, within, misplaced, billVars, served>>

Next ==
    \/ \E s \in Slots :
          \/ \E x \in Processes, r \in Routes, c \in Clients : Arrive(s, x, r, c)
          \/ Check(s)
          \/ ResolveHit(s) \/ ResolveMiss(s) \/ StoreEntitlements(s) \/ Count(s)
          \/ Fault(s)
    \/ Subscribe \/ CancelSubscription \/ Renew
    \/ \E q \in Quantities \cup {None} : UpdatePlan(q)
    \/ DeactivatePlan
    \/ \E p \in Periods : BillPeriod(p)
    \/ Tick

Spec == Init /\ [][Next]_vars

-----------------------------------------------------------------------------
(***************************************************************************)
(* Properties.                                                             *)
(***************************************************************************)
TypeOK ==
    /\ now \in Time
    /\ \A s \in Slots : req[s].pc \in {"idle", "check", "resolve", "store", "count"}
    /\ sub \in Periods \cup {None}
    /\ metering \in Quantities \cup {None}
    /\ \A p \in Periods : counter[p].n <= counted[p]

\* The limiter's promise: whatever the order in which Redis executes checks
\* stamped up to MaxDelay earlier, no more than limit requests of a key are
\* admitted within window - MaxDelay ticks.
WindowBound ==
    \A k \in Keys :
        LET l == LimitOf(k) IN
        \A a \in admitted[k] :
            Cardinality({b \in admitted[k] :
                            a.at <= b.at /\ b.at < a.at + l.window - MaxDelay}) <= l.limit

\* The quota's promise: until a period's counter may expire, no more requests
\* are let through for it than the largest quantity a plan includes.
QuotaHolds == \A p \in Periods : within[p] <= Max(Quantities)

\* Cached entitlements are a bounded lie: a request is charged to another than
\* the tenant's period only shortly after a change of the subscription.
ChargedToCurrentPeriod ==
    \A age \in misplaced : age < EntitlementsTtl + 2 * MaxDelay

\* An invoice never bills more than was counted beyond the allowance, and bills
\* nothing if its read was not answered: append_metered_lines fails open.  Until
\* the counter may expire the readers are exact: an invoice whose read was answered
\* bills all of it, and the tenant is shown what was counted, or 0.
OverageExactInGrace ==
    /\ \A p \in Periods : billed[p] # None =>
          /\ billed[p].overage <= billed[p].owed
          /\ ~billed[p].answered => billed[p].overage = 0
          /\ (billed[p].answered /\ billed[p].at < EndOf(p) + Grace) =>
                billed[p].overage = billed[p].owed
    /\ (sub # None /\ metering # None /\ now < EndOf(sub) + Grace) =>
          \A u \in UsageReports : u.used \in {counted[sub], 0}

=============================================================================
