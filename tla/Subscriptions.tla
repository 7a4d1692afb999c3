--------------------------- MODULE Subscriptions ---------------------------
(***************************************************************************)
(* The subscriptions table and everybody who writes it: the tenant's       *)
(* self-service endpoints, the administrator's actions, the Stripe webhook *)
(* intake with its event ledger, and the dunning sweep.                    *)
(*                                                                         *)
(* Every handler runs in a database session of its own.  It SELECTs rows,  *)
(* computes on the loaded objects across awaits, and COMMITs; there is no  *)
(* row lock and no version column, so the sessions of different workers    *)
(* interleave between the two.  A handler is therefore two actions here:   *)
(* one that loads and computes, and Commit.  A commit flushes only the     *)
(* columns whose value differs from the loaded one (SQLAlchemy's unit of   *)
(* work), onto whatever the row has become meanwhile.                      *)
(***************************************************************************)
EXTENDS BillingDefs, FiniteSets

CONSTANTS
    Tenants,        \* tenants that own subscriptions; may hold NullTenant
    NullTenant,     \* the NULL tenant_id of a superuser outside every tenant
    Plans,          \* the plan catalog
    ActivePlans,    \* plans with is_active
    TrialPlans,     \* plans with trial_days > 0
    Price,          \* price_cents of a plan
    Currency,       \* currency of a plan
    Interval,       \* INTERVAL_DELTA of a plan, in clock ticks
    DefaultPeriod,  \* the 30 days assumed when Stripe sends no period end
    StripeIds,      \* Stripe's subscription ids
    Workers,        \* API and Celery workers, one session each
    Events,         \* Stripe event ids
    Payload,        \* the verified body of each event
    Actors,         \* which writers exist: "tenant", "admin", "stripe", "sweep"
    FormFields,     \* bound: columns the administrator's form names, of "plan",
                    \* "pending", "cancelAtEnd" and "stripe"
    MaxSubs,        \* bound: rows of the table
    MaxTime         \* bound: clock ticks

SubIds == 1..MaxSubs
Times  == Nat \cup {NoTime}

\* Stripe's status vocabulary; anything else is represented by "paused".
StripeStatus == {"active", "past_due", "canceled", "unpaid", "trialing", "paused"}

ASSUME CatalogAssumption ==
    /\ None \notin Plans
    /\ None \notin StripeIds
    /\ ActivePlans \subseteq Plans
    /\ TrialPlans \subseteq Plans
    /\ Price \in [Plans -> Nat]
    /\ Interval \in [Plans -> Nat]
    /\ DefaultPeriod \in Nat
    /\ MaxSubs \in Nat
    /\ MaxTime \in Nat

\* What process_event reads of an event.  "plan" may be None: metadata that
\* names no plan of the catalog.  "trialOver": the trial_end it carries has
\* passed.  "start"/"end" are Stripe's period or NoTime when not sent.
ASSUME PayloadAssumption ==
    /\ None \notin Events
    /\ Payload \in [Events ->
          [type : {"checkout", "updated", "deleted", "payment_failed", "other"},
           stripe : StripeIds, tenant : Tenants, plan : Plans \cup {None},
           status : StripeStatus \cup {None}, trialOver : BOOLEAN,
           start : Times, end : Times]]

Row == [tenant : Tenants, plan : Plans, status : SubscriptionStatus,
        pending : Plans \cup {None}, cancelAtEnd : BOOLEAN, stripe : StripeIds \cup {None},
        failed : Nat, retry : Int, canceledAt : BOOLEAN,
        suspendedAt : BOOLEAN, start : Nat, end : Nat]
NoRow == [absent |-> TRUE]

VARIABLES
    subs,       \* the table: SubIds -> row, NoRow where no row was inserted
    ledger,     \* stripe_events: "absent", "seen" (processed_at NULL), "processed"
    now,        \* datetime.now(UTC)
    sess,       \* each worker's session
    applied     \* history: how often each event's changes were committed

vars == <<subs, ledger, now, sess, applied>>

\* A session: where its handler is, the event it handles, the loaded rows,
\* what the handler made of them, and a row to insert.
Session == [pc : {"idle", "record", "handle", "commit", "mark"},
            ev : Events \cup {None},
            snap : [SubIds -> Row \cup {NoRow}],
            new : [SubIds -> Row \cup {NoRow}],
            ins : Row \cup {NoRow}]
NoRows == [i \in SubIds |-> NoRow]
IdleSession == [pc |-> "idle", ev |-> None, snap |-> NoRows, new |-> NoRows, ins |-> NoRow]

TypeOK ==
    /\ subs \in [SubIds -> Row \cup {NoRow}]
    /\ ledger \in [Events -> {"absent", "seen", "processed"}]
    /\ now \in Nat
    /\ sess \in [Workers -> Session]
    /\ applied \in [Events -> Nat]

Init ==
    /\ subs = NoRows
    /\ ledger = [e \in Events |-> "absent"]
    /\ now = 0
    /\ sess = [w \in Workers |-> IdleSession]
    /\ applied = [e \in Events |-> 0]

-----------------------------------------------------------------------------
(***************************************************************************)
(* Queries.                                                                *)
(***************************************************************************)
Rows(t) == {i \in SubIds : t[i] # NoRow}
IsLive(row) == row.status \in LIVE_STATUSES

LiveIds(t) == {i \in Rows(subs) : subs[i].tenant = t /\ IsLive(subs[i])}

\* get_live_for_tenant: the newest one, if there is one.
LiveSub(t) == {i \in LiveIds(t) : \A j \in LiveIds(t) : j <= i}

\* get_subscription_by_stripe_id
ByStripeId(s) == {i \in Rows(subs) : subs[i].stripe = s /\ s # None}

\* uq_live_subscription_per_tenant; NULLs never collide in a unique index.
LivePerTenant(t) ==
    \A i, j \in Rows(t) :
        (/\ i # j /\ t[i].tenant = t[j].tenant /\ t[i].tenant # NullTenant
         /\ IsLive(t[i])) => ~IsLive(t[j])

\* The unique stripe_subscription_id column.
StripeIdsDiffer(t) ==
    \A i, j \in Rows(t) :
        (i # j /\ t[i].stripe # None) => t[i].stripe # t[j].stripe

\* Mutant: the migration that creates the partial index is missing.
UniqueIndexesNoLive(t) == StripeIdsDiffer(t)

UniqueIndexes(t) == LivePerTenant(t) /\ StripeIdsDiffer(t)

-----------------------------------------------------------------------------
(***************************************************************************)
(* Sessions.                                                               *)
(***************************************************************************)
Idle(w) == sess[w].pc = "idle"

\* The handler has loaded rows S and turned each row i of them into f[i].
Stage(w, S, f) ==
    sess' = [sess EXCEPT ![w] =
                [pc |-> "commit", ev |-> sess[w].ev,
                 snap |-> [i \in SubIds |-> IF i \in S THEN subs[i] ELSE NoRow],
                 new  |-> [i \in SubIds |-> IF i \in S THEN f[i] ELSE NoRow],
                 ins  |-> NoRow]]

StageOne(w, i, row) == Stage(w, {i}, [j \in {i} |-> row])

StageInsert(w, row) ==
    sess' = [sess EXCEPT ![w] =
                [pc |-> "commit", ev |-> sess[w].ev,
                 snap |-> NoRows, new |-> NoRows, ins |-> row]]

Goto(w, pc) == sess' = [sess EXCEPT ![w].pc = pc]
Finish(w)   == sess' = [sess EXCEPT ![w] = IdleSession]

\* One column of an UPDATE: written only if the handler changed its value.
Col(current, loaded, computed) == IF computed # loaded THEN computed ELSE current

Flush(r, s, n) ==
    [tenant      |-> Col(r.tenant, s.tenant, n.tenant),
     plan        |-> Col(r.plan, s.plan, n.plan),
     status      |-> Col(r.status, s.status, n.status),
     pending     |-> Col(r.pending, s.pending, n.pending),
     cancelAtEnd |-> Col(r.cancelAtEnd, s.cancelAtEnd, n.cancelAtEnd),
     stripe      |-> Col(r.stripe, s.stripe, n.stripe),
     failed      |-> Col(r.failed, s.failed, n.failed),
     retry       |-> Col(r.retry, s.retry, n.retry),
     canceledAt  |-> Col(r.canceledAt, s.canceledAt, n.canceledAt),
     suspendedAt |-> Col(r.suspendedAt, s.suspendedAt, n.suspendedAt),
     start       |-> Col(r.start, s.start, n.start),
     end         |-> Col(r.end, s.end, n.end)]

Updated(w) ==
    [i \in SubIds |-> IF sess[w].snap[i] = NoRow THEN subs[i]
                      ELSE Flush(subs[i], sess[w].snap[i], sess[w].new[i])]

\* The tables the flush of w's session can produce: the updates, and the
\* inserted row under the next id of the sequence.
Flushed(w) ==
    IF sess[w].ins = NoRow
    THEN {Updated(w)}
    ELSE {[Updated(w) EXCEPT ![i] = sess[w].ins] :
             i \in {j \in SubIds : subs[j] = NoRow /\ \A k \in 1..(j-1) : subs[k] # NoRow}}

\* db.commit() succeeds.  A Stripe handler goes on to stamp its event.
Commit(w) ==
    /\ sess[w].pc = "commit"
    /\ \E t \in Flushed(w) : UniqueIndexes(t) /\ subs' = t
    /\ IF sess[w].ev = None
       THEN Finish(w) /\ UNCHANGED applied
       ELSE /\ sess' = [sess EXCEPT ![w] = [IdleSession EXCEPT !.pc = "mark",
                                                               !.ev = sess[w].ev]]
            /\ applied' = [applied EXCEPT ![sess[w].ev] = @ + 1]
    /\ UNCHANGED <<ledger, now>>

\* db.commit() raises IntegrityError: rolled back, the handler gives up.
CommitConflict(w) ==
    /\ sess[w].pc = "commit"
    /\ \E t \in Flushed(w) : ~UniqueIndexes(t)
    /\ Finish(w)
    /\ UNCHANGED <<subs, ledger, now, applied>>

\* The request ends before its next commit: an exception (the event bus or
\* the database is away), the request timeout, a crash of the worker.
Abort(w) ==
    /\ ~Idle(w)
    /\ Finish(w)
    /\ UNCHANGED <<subs, ledger, now, applied>>

-----------------------------------------------------------------------------
(***************************************************************************)
(* The tenant's self-service endpoints (subscriptions.py).                 *)
(***************************************************************************)
NewRow(t, p, status, stripe, start, end) ==
    [tenant |-> t, plan |-> p, status |-> status, pending |-> None,
     cancelAtEnd |-> FALSE, stripe |-> stripe, failed |-> 0, retry |-> NoTime,
     canceledAt |-> FALSE, suspendedAt |-> FALSE, start |-> start, end |-> end]

Subscribe(w, t, p) ==
    /\ "tenant" \in Actors /\ Idle(w)
    /\ p \in ActivePlans
    /\ LiveIds(t) = {}
    /\ StageInsert(w, NewRow(t, p, IF p \in TrialPlans THEN "trialing" ELSE "active",
                             None, now, now + Interval[p]))
    /\ UNCHANGED <<subs, ledger, now, applied>>

\* The plan switch of an upgrade and of the administrator's override.
SwitchPlan(row, p) ==
    [row EXCEPT !.plan = p, !.pending = None, !.start = now, !.end = now + Interval[p]]

\* decide_plan_change: dearer plans at once, the others at the period's end.
ChangePlan(w, t, p) ==
    /\ "tenant" \in Actors /\ Idle(w)
    /\ \E i \in LiveSub(t) :
          /\ p \in ActivePlans /\ p # subs[i].plan
          /\ Currency[p] = Currency[subs[i].plan]
          /\ StageOne(w, i, IF Price[p] > Price[subs[i].plan]
                            THEN SwitchPlan(subs[i], p)
                            ELSE [subs[i] EXCEPT !.pending = p])
    /\ UNCHANGED <<subs, ledger, now, applied>>

CancelNow(w, t) ==
    /\ "tenant" \in Actors /\ Idle(w)
    /\ \E i \in LiveSub(t) :
          /\ CanMove(subs[i].status, "canceled")
          /\ StageOne(w, i, Cancel(subs[i]))
    /\ UNCHANGED <<subs, ledger, now, applied>>

CancelAtPeriodEnd(w, t) ==
    /\ "tenant" \in Actors /\ Idle(w)
    /\ \E i \in LiveSub(t) :
          /\ subs[i].status # "trialing"
          /\ StageOne(w, i, [subs[i] EXCEPT !.cancelAtEnd = TRUE])
    /\ UNCHANGED <<subs, ledger, now, applied>>

Resume(w, t) ==
    /\ "tenant" \in Actors /\ Idle(w)
    /\ \E i \in LiveSub(t) :
          /\ subs[i].cancelAtEnd
          /\ StageOne(w, i, [subs[i] EXCEPT !.cancelAtEnd = FALSE])
    /\ UNCHANGED <<subs, ledger, now, applied>>

-----------------------------------------------------------------------------
(***************************************************************************)
(* The administrator's actions (admin/__init__.py), on any row.            *)
(***************************************************************************)
OverridePlan(w, i, p) ==
    /\ "admin" \in Actors /\ Idle(w)
    /\ subs[i] # NoRow /\ p \in ActivePlans
    /\ StageOne(w, i, SwitchPlan(subs[i], p))
    /\ UNCHANGED <<subs, ledger, now, applied>>

AdminMove(row, target) ==
    CASE target = "canceled"  -> Cancel(row)
      [] target = "suspended" -> Suspend(row)
      [] target = "active" /\ row.status = "past_due" -> Recover(row)
      [] OTHER -> [row EXCEPT !.status = target]

\* Mutant: assert_transition is not called.
SetStatusUnchecked(w, i, target) ==
    /\ "admin" \in Actors /\ Idle(w)
    /\ subs[i] # NoRow
    /\ StageOne(w, i, AdminMove(subs[i], target))
    /\ UNCHANGED <<subs, ledger, now, applied>>

SetStatus(w, i, target) ==
    /\ "admin" \in Actors /\ Idle(w)
    /\ subs[i] # NoRow /\ CanMove(subs[i].status, target)
    /\ StageOne(w, i, AdminMove(subs[i], target))
    /\ UNCHANGED <<subs, ledger, now, applied>>

\* What a column may hold after a form that may name it.
FormValues(column, values, current) ==
    IF column \in FormFields THEN values \cup {current} ELSE {current}

\* admin_edit, the generic form: every column it names takes the form's value,
\* unchecked, the others keep theirs.  A form with a trial_end, with a plan that
\* does not exist or with a number that does not parse raises before it commits.
AdminEdit(w, i) ==
    /\ "admin" \in Actors /\ Idle(w)
    /\ subs[i] # NoRow
    /\ \E p \in FormValues("plan", Plans, subs[i].plan),
          q \in FormValues("pending", Plans, subs[i].pending),
          b \in FormValues("cancelAtEnd", BOOLEAN, subs[i].cancelAtEnd),
          s \in FormValues("stripe", StripeIds, subs[i].stripe) :
             StageOne(w, i, [subs[i] EXCEPT !.plan = p, !.pending = q,
                                            !.cancelAtEnd = b, !.stripe = s])
    /\ UNCHANGED <<subs, ledger, now, applied>>

\* mark_paid of an invoice of row i recovers it in the same commit; it leaves a
\* row that is not past_due alone.
MarkPaid(w, i) ==
    /\ "admin" \in Actors /\ Idle(w)
    /\ subs[i] # NoRow /\ subs[i].status = "past_due"
    /\ StageOne(w, i, Recover(subs[i]))
    /\ UNCHANGED <<subs, ledger, now, applied>>

-----------------------------------------------------------------------------
(***************************************************************************)
(* The Stripe webhook intake (stripe.py, stripe_events.py).  Stripe        *)
(* delivers each event at least once, in any order, concurrently.  Every   *)
(* verified delivery is acknowledged, so a handler that gives up is not    *)
(* tried again.  A redelivery of a recorded event changes nothing and is   *)
(* not an action.                                                          *)
(***************************************************************************)

\* record_event, the SELECT: the event id is not in the ledger.
Deliver(w, e) ==
    /\ "stripe" \in Actors /\ Idle(w)
    /\ ledger[e] = "absent"
    /\ sess' = [sess EXCEPT ![w] = [IdleSession EXCEPT !.pc = "record", !.ev = e]]
    /\ UNCHANGED <<subs, ledger, now, applied>>

\* Mutant: the IntegrityError of the INSERT is not taken for a duplicate.
RecordEventTwice(w) ==
    /\ sess[w].pc = "record"
    /\ ledger' = [ledger EXCEPT ![sess[w].ev] = "seen"]
    /\ Goto(w, "handle")
    /\ UNCHANGED <<subs, now, applied>>

\* record_event, the INSERT: loses against a concurrent delivery that was
\* committed first.
RecordEvent(w) ==
    /\ sess[w].pc = "record"
    /\ IF ledger[sess[w].ev] = "absent"
       THEN /\ ledger' = [ledger EXCEPT ![sess[w].ev] = "seen"]
            /\ Goto(w, "handle")
       ELSE /\ Finish(w)
            /\ UNCHANGED ledger
    /\ UNCHANGED <<subs, now, applied>>

\* Mutant: a status other than trialing is stored as it came.
StatusFromStripeRaw(p) ==
    IF p.status = "trialing" /\ p.trialOver THEN "active" ELSE p.status

\* _status_from_stripe; None where it raises.
StatusFromStripe(p) ==
    CASE p.status = "trialing" -> IF p.trialOver THEN "active" ELSE "trialing"
      [] p.status = "unpaid"   -> "past_due"
      [] p.status \in {"active", "past_due", "canceled"} -> p.status
      [] OTHER -> None

\* _period_from_stripe
StartFromStripe(p) == IF p.start > 0 THEN p.start ELSE now
EndFromStripe(p) ==
    LET start == StartFromStripe(p)
        end   == IF p.end > 0 THEN p.end ELSE start + DefaultPeriod
    IN  IF end > start THEN end ELSE start + 1

Handling(w, types) ==
    /\ sess[w].pc = "handle"
    /\ Payload[sess[w].ev].type \in types

\* Mutant: the checkout overwrites the Stripe id of the live row.
HandleCheckoutRelink(w) ==
    /\ Handling(w, {"checkout"})
    /\ LET p == Payload[sess[w].ev]
       IN  \/ \E i \in LiveSub(p.tenant) : StageOne(w, i, [subs[i] EXCEPT !.stripe = p.stripe])
           \/ /\ LiveIds(p.tenant) = {} /\ p.plan # None
              /\ StageInsert(w, NewRow(p.tenant, p.plan, "active", p.stripe,
                                       StartFromStripe(p), EndFromStripe(p)))
    /\ UNCHANGED <<subs, ledger, now, applied>>

\* handle_checkout_completed
HandleCheckout(w) ==
    /\ Handling(w, {"checkout"})
    /\ LET p  == Payload[sess[w].ev]
           st == IF p.status = None THEN "active" ELSE StatusFromStripe(p)
       IN  \/ /\ p.plan = None                                         \* "skipped"
              /\ Goto(w, "mark")
           \/ /\ p.plan # None
              /\ \E i \in LiveSub(p.tenant) :
                    \/ /\ subs[i].stripe = None                         \* "linked"
                       /\ StageOne(w, i, [subs[i] EXCEPT !.stripe = p.stripe])
                    \/ /\ subs[i].stripe # None                         \* "duplicate"
                       /\ Goto(w, "mark")
           \/ /\ p.plan # None /\ LiveIds(p.tenant) = {}
              /\ \/ /\ st # None                                       \* "created"
                    /\ StageInsert(w, NewRow(p.tenant, p.plan, st, p.stripe,
                                             StartFromStripe(p), EndFromStripe(p)))
                 \/ /\ st = None                                       \* ValueError
                    /\ Finish(w)
    /\ UNCHANGED <<subs, ledger, now, applied>>

\* handle_subscription_sync: the row after its status moved to "target".
SyncRow(row, p, target) ==
    LET moved == CASE target = "canceled" -> Cancel(row)
                   [] target = "active" /\ row.status = "past_due" -> Recover(row)
                   [] OTHER -> [row EXCEPT !.status = target]
    IN  [moved EXCEPT !.start = StartFromStripe(p), !.end = EndFromStripe(p)]

\* Mutant: the synchronisation never calls assert_transition.
SyncUnchecked(row, target) == TRUE

\* Only the targets canceled, past_due and active pass assert_transition;
\* a target of trialing is assigned unchecked.
SyncChecked(row, target) == target = "trialing" \/ CanMove(row.status, target)

HandleSync(w) ==
    /\ Handling(w, {"updated", "deleted"})
    /\ LET e      == Payload[sess[w].ev]
           p      == IF e.type = "deleted" THEN [e EXCEPT !.status = "canceled"] ELSE e
           target == StatusFromStripe(p)
           known  == ByStripeId(p.stripe)
       IN  \/ /\ known = {}                                            \* "unknown"
              /\ Goto(w, "mark")
           \/ \E i \in known :
                 \/ /\ target = subs[i].status                         \* "unchanged"
                    /\ Goto(w, "mark")
                 \/ /\ target \notin {None, subs[i].status}            \* "synced"
                    /\ SyncChecked(subs[i], target)
                    /\ StageOne(w, i, SyncRow(subs[i], p, target))
                 \/ /\ \/ target = None                                \* ValueError
                       \/ target # subs[i].status /\ ~SyncChecked(subs[i], target)
                    /\ Finish(w)                                       \* "rejected"
    /\ UNCHANGED <<subs, ledger, now, applied>>

\* Mutant: record_payment_failure without its assert_transition.
HandlePaymentFailedUnchecked(w) ==
    /\ Handling(w, {"payment_failed"})
    /\ \E i \in ByStripeId(Payload[sess[w].ev].stripe) :
          StageOne(w, i, RecordFailure(subs[i], now))
    /\ UNCHANGED <<subs, ledger, now, applied>>

\* handle_payment_failed
HandlePaymentFailed(w) ==
    /\ Handling(w, {"payment_failed"})
    /\ LET known == ByStripeId(Payload[sess[w].ev].stripe)
       IN  \/ /\ known = {}                                            \* "unknown"
              /\ Goto(w, "mark")
           \/ \E i \in known :
                 \/ /\ subs[i].status = "past_due" \/ CanMove(subs[i].status, "past_due")
                    /\ StageOne(w, i, RecordFailure(subs[i], now))
                 \/ /\ ~(subs[i].status = "past_due" \/ CanMove(subs[i].status, "past_due"))
                    /\ Finish(w)                                       \* "rejected"
    /\ UNCHANGED <<subs, ledger, now, applied>>

HandleOther(w) ==
    /\ Handling(w, {"other"})
    /\ Goto(w, "mark")
    /\ UNCHANGED <<subs, ledger, now, applied>>

\* mark_processed
MarkProcessed(w) ==
    /\ sess[w].pc = "mark"
    /\ ledger' = [ledger EXCEPT ![sess[w].ev] = "processed"]
    /\ Finish(w)
    /\ UNCHANGED <<subs, now, applied>>

-----------------------------------------------------------------------------
(***************************************************************************)
(* The dunning sweep (tasks/dunning.py): all due rows in one transaction.  *)
(* A reminder that cannot be published is logged and its row committed all *)
(* the same.                                                               *)
(***************************************************************************)
DueRows == {i \in Rows(subs) : IsDue(subs[i], now)}

Sweep(w) ==
    /\ "sweep" \in Actors /\ Idle(w)
    /\ DueRows # {}
    /\ Stage(w, DueRows, [i \in DueRows |-> DunningTick(subs[i], now)])
    /\ UNCHANGED <<subs, ledger, now, applied>>

Tick ==
    /\ now < MaxTime
    /\ now' = now + 1
    /\ UNCHANGED <<subs, ledger, sess, applied>>

Next ==
    \/ \E w \in Workers :
          \/ \E t \in Tenants, p \in Plans : Subscribe(w, t, p) \/ ChangePlan(w, t, p)
          \/ \E t \in Tenants : CancelNow(w, t) \/ CancelAtPeriodEnd(w, t) \/ Resume(w, t)
          \/ \E i \in SubIds, p \in Plans : OverridePlan(w, i, p)
          \/ \E i \in SubIds, s \in SubscriptionStatus : SetStatus(w, i, s)
          \/ \E i \in SubIds : AdminEdit(w, i) \/ MarkPaid(w, i)
          \/ \E e \in Events : Deliver(w, e)
          \/ RecordEvent(w) \/ HandleCheckout(w) \/ HandleSync(w)
          \/ HandlePaymentFailed(w) \/ HandleOther(w) \/ MarkProcessed(w)
          \/ Sweep(w)
          \/ Commit(w) \/ CommitConflict(w) \/ Abort(w)
    \/ Tick

Spec == Init /\ [][Next]_vars
-----------------------------------------------------------------------------
(***************************************************************************)
(* Properties.                                                             *)
(***************************************************************************)

\* Subscription model docstring: "At most one live per tenant".  Subscribe and
\* checkout check first and insert later, so two of them can pass the check
\* together, and a synchronised or stale write can make a dead row live again;
\* the partial unique index has to stop all of these.
OneLivePerTenant ==
    \A i, j \in Rows(subs) :
        (/\ subs[i].tenant = subs[j].tenant /\ subs[i].tenant # NullTenant
         /\ {subs[i].status, subs[j].status} \subseteq {"trialing", "active", "past_due"}) => i = j

\* process_event applies the changes of an event id at most once, whatever
\* number of its deliveries run at the same time and wherever they are cut off.
EventAppliedOnce == \A e \in Events : applied[e] <= 1

\* No event is stamped processed, or has its changes committed, before its id
\* is in the ledger; and no two sessions work on the same recorded event.
LedgerGuardsHandlers ==
    \A v, w \in Workers :
        sess[w].pc \in {"handle", "mark"} \/ (sess[w].pc = "commit" /\ sess[w].ev # None) =>
            /\ ledger[sess[w].ev] = "seen"
            /\ (v # w /\ sess[v].ev = sess[w].ev) => sess[v].pc = "record"

\* Event e is a synchronisation whose target is trialing: the one status that
\* handle_subscription_sync assigns without assert_transition.
SetsTrial(e) ==
    /\ e # None
    /\ Payload[e].type = "updated" /\ StatusFromStripe(Payload[e]) = "trialing"

\* Event e is the checkout of a subscription that Stripe has canceled already:
\* the row it creates is canceled and carries no canceled_at.
BornDead(e) ==
    /\ e # None
    /\ Payload[e].type = "checkout" /\ Payload[e].status = "canceled"

\* w's session commits in this step what it made of row i.
Commits(w, i) ==
    /\ sess[w].pc = "commit" /\ sess'[w].pc # "commit"
    /\ sess[w].snap[i] # NoRow

\* The state machine of app/billing/services/billing.py: a status change outside
\* ALLOWED_TRANSITIONS is made by a commit whose session had loaded an older
\* status of the row, or is a move to trialing that Stripe asked for, which
\* handle_subscription_sync does not check.  No other writer, and no other
\* event, leaves the machine.
LegalUnlessStale ==
    [][\A i \in SubIds :
          (subs[i] # NoRow /\ subs'[i].status # subs[i].status) =>
              \/ CanMove(subs[i].status, subs'[i].status)
              \/ \E w \in Workers :
                    /\ Commits(w, i)
                    /\ \/ sess[w].snap[i].status # subs[i].status
                       \/ SetsTrial(sess[w].ev) /\ subs'[i].status = "trialing"]_vars

\* Neither of the two events whose handling is known to spoil a row's books was
\* recorded so far.
Orderly == \A e \in Events : ledger[e] # "absent" => ~SetsTrial(e) /\ ~BornDead(e)

\* With one session at a time, and until Stripe sends one of those two events,
\* the bookkeeping columns agree with the status: a subscription in good standing
\* carries no dunning state, a suspended one is off the schedule, and the stamps
\* say which terminal status was reached.
BookkeepingMatchesStatus ==
    Orderly =>
        \A i \in Rows(subs) :
            LET r == subs[i] IN
            /\ r.status \in {"trialing", "active"} => r.failed = 0 /\ r.retry = NoTime
            /\ r.status = "suspended" => r.retry = NoTime
            /\ r.retry # NoTime => r.failed > 0
            /\ r.canceledAt <=> r.status = "canceled"
            /\ r.suspendedAt <=> r.status = "suspended"

\* handle_checkout_completed attaches a Stripe id only "if the local live
\* subscription lacks one".  With one session at a time a linked row changes its
\* id only in the commit of a form of the administrator's that names another id:
\* no event of Stripe's and no side effect of another writer relinks it, so that
\* the later events of that Stripe subscription still find it.
StripeLinkKept ==
    [][\A i \in SubIds :
          (subs[i] # NoRow /\ subs[i].stripe # None /\ subs'[i].stripe # subs[i].stripe) =>
              \E w \in Workers :
                 /\ Commits(w, i) /\ sess[w].ev = None
                 /\ sess[w].new[i].stripe \in StripeIds \ {sess[w].snap[i].stripe}]_vars

\* The abstract state machine, seen through the status column.  It is overruled
\* while a synchronisation that asks for a trial is being committed.
Machine == INSTANCE SubscriptionMachine WITH
    Ids <- SubIds,
    status <- [i \in SubIds |-> IF subs[i] = NoRow THEN "none" ELSE subs[i].status],
    overruled <- \E w \in Workers : sess[w].pc = "commit" /\ SetsTrial(sess[w].ev)

\* With one session at a time the table implements the documented machine, but
\* for the trials that Stripe reports.
ImplementsMachine == Machine!Spec

\* SubscriptionStatus docstring: canceled and suspended are terminal.  The
\* code does not keep this: see the README's known disagreements.
TerminalStaysTerminal ==
    [][\A i \in SubIds :
          (subs[i] # NoRow /\ subs[i].status \in {"canceled", "suspended"}) =>
              subs'[i].status = subs[i].status]_vars

\* handle_payment_failed docstring: "Every distinct verified failure advances
\* the schedule".  The code does not keep this: two failures handled together
\* store the same count.
EveryFailureAdvances ==
    [][\A w \in Workers, i \in SubIds :
          (/\ sess[w].pc = "commit" /\ sess'[w].pc = "mark"
           /\ Payload[sess[w].ev].type = "payment_failed"
           /\ sess[w].snap[i] # NoRow) =>
              subs'[i].failed > subs[i].failed]_vars
=============================================================================
