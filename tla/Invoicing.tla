----------------------------- MODULE Invoicing -----------------------------
(***************************************************************************)
(* Invoices of subscription periods: the tenant's endpoints (generate,     *)
(* issue, pay, void) and the daily sweep that invoices every ended period. *)
(* The endpoints and the sweep run in sessions of their own, loading and   *)
(* committing in separate steps without a lock.  The sweep works through   *)
(* its list with one commit per insert and one per issue.                  *)
(*                                                                         *)
(* Of a subscription only the status and the current period are kept; its  *)
(* other writers, studied in Subscriptions, are single steps here.         *)
(* Amounts are left out: they are computed once, before the insert.        *)
(***************************************************************************)
EXTENDS BillingDefs

CONSTANTS
    Subs,           \* subscriptions
    ApiWorkers,     \* sessions of HTTP requests
    CeleryWorkers,  \* sessions of the sweep
    Requested,      \* explicit <<period_start, period_end>> of requests
    Interval,       \* length of a billing period, in clock ticks
    MaxInvoices,    \* bound: rows of the invoices table
    MaxTime,        \* bound: clock ticks
    MaxAborts       \* bound: requests and sweeps cut short

ASSUME InvoicingAssumption ==
    /\ ApiWorkers \cap CeleryWorkers = {}
    /\ Requested \subseteq Nat \X Nat
    /\ Interval \in Nat \ {0}
    /\ MaxInvoices \in Nat /\ MaxTime \in Nat /\ MaxAborts \in Nat

Workers == ApiWorkers \cup CeleryWorkers
InvIds  == 1..MaxInvoices

InvoiceStatus == {"draft", "open", "paid", "void"}

\* ALLOWED_TRANSITIONS and assert_invoice_transition of invoicing.py.
CanMoveInvoice(current, target) ==
    \/ current = "draft" /\ target \in {"open", "void"}
    \/ current = "open"  /\ target \in {"paid", "void"}

Sub     == [status : SubscriptionStatus, start : Nat, end : Nat]
Period  == [sub : Subs, start : Nat, end : Nat]
Invoice == [period : Period, status : InvoiceStatus, issuedAt : BOOLEAN, paidAt : BOOLEAN]
NoInvoice == [absent |-> TRUE]
NoPeriod  == [absent |-> TRUE]

VARIABLES
    subs,       \* the subscriptions
    invoices,   \* the table: NoInvoice where no row was inserted
    now,        \* datetime.now(UTC)
    sess,       \* each worker's session
    aborts      \* how many sessions were cut short

vars == <<subs, invoices, now, sess, aborts>>

\* A session: the periods the sweep has still to look at, the period being
\* invoiced, the invoice being moved with the status it was loaded with, and
\* whether its subscription was loaded past_due.
Session == [pc : {"idle", "next", "check", "insert", "refresh", "commit"},
            todo : SUBSET Period, cur : Period \cup {NoPeriod},
            inv : InvIds \cup {0}, loaded : InvoiceStatus, target : InvoiceStatus,
            recover : BOOLEAN]
IdleSession == [pc |-> "idle", todo |-> {}, cur |-> NoPeriod, inv |-> 0,
                loaded |-> "draft", target |-> "draft", recover |-> FALSE]

TypeOK ==
    /\ subs \in [Subs -> Sub]
    /\ invoices \in [InvIds -> Invoice \cup {NoInvoice}]
    /\ now \in Nat
    /\ sess \in [Workers -> Session]
    /\ aborts \in Nat

Init ==
    /\ subs = [s \in Subs |-> [status |-> "active", start |-> 0, end |-> Interval]]
    /\ invoices = [i \in InvIds |-> NoInvoice]
    /\ now = 0
    /\ sess = [w \in Workers |-> IdleSession]
    /\ aborts = 0

-----------------------------------------------------------------------------
(***************************************************************************)
(* Queries and session steps.                                              *)
(***************************************************************************)
Exists(i) == invoices[i] # NoInvoice

\* BLOCKING_STATUSES is every status but void.
Blocks(inv, p) ==
    inv # NoInvoice /\ inv.status # "void"
    /\ inv.period.sub = p.sub /\ inv.period.start = p.start

\* find_blocking_for_period finds one.
Blocked(p) == \E i \in InvIds : Blocks(invoices[i], p)

\* Mutant: the migration without the partial index.
UniquePeriodsNone(t) == TRUE

\* uq_invoice_per_subscription_period
UniquePeriods(t) ==
    \A i, j \in InvIds : i # j /\ t[i] # NoInvoice /\ t[i].status # "void"
                            => ~Blocks(t[j], t[i].period)

Idle(w)   == sess[w].pc = "idle"
Finish(w) == sess' = [sess EXCEPT ![w] = IdleSession]

\* A worker is done with one invoice: a request ends, the sweep goes on.
Continue(w) ==
    IF w \in CeleryWorkers
    THEN sess' = [sess EXCEPT ![w] = [IdleSession EXCEPT !.pc = "next", !.todo = sess[w].todo]]
    ELSE Finish(w)

-----------------------------------------------------------------------------
(***************************************************************************)
(* Generating an invoice.                                                  *)
(***************************************************************************)
CurrentPeriod(s) == [sub |-> s, start |-> subs[s].start, end |-> subs[s].end]
IsLive(s) == subs[s].status \in LIVE_STATUSES

\* POST /invoices/generate loads the live subscription and settles the period.
Generate(w, p) ==
    /\ Idle(w) /\ IsLive(p.sub)
    /\ \/ p = CurrentPeriod(p.sub)
       \/ <<p.start, p.end>> \in Requested
    /\ p.end > p.start
    /\ sess' = [sess EXCEPT ![w] = [IdleSession EXCEPT !.pc = "check", !.cur = p]]
    /\ UNCHANGED <<subs, invoices, now, aborts>>

\* Mutant: the sweep looks for periods that ended before now.
DuePeriodsStrict == {CurrentPeriod(s) : s \in {s \in Subs : IsLive(s) /\ subs[s].end < now}}

\* The SELECT of generate_due_invoices.
DuePeriods == {CurrentPeriod(s) : s \in {s \in Subs : IsLive(s) /\ subs[s].end <= now}}

\* The beat schedule starts the sweep; with nothing due it changes nothing.
SweepStart(w) ==
    /\ Idle(w) /\ DuePeriods # {}
    /\ sess' = [sess EXCEPT ![w] = [IdleSession EXCEPT !.pc = "next", !.todo = DuePeriods]]
    /\ UNCHANGED <<subs, invoices, now, aborts>>

\* The loop takes the loaded subscriptions in whatever order they came.
SweepNext(w) ==
    /\ sess[w].pc = "next"
    /\ IF sess[w].todo = {}
       THEN Finish(w)
       ELSE \E p \in sess[w].todo :
               sess' = [sess EXCEPT ![w] = [IdleSession EXCEPT !.pc = "check", !.cur = p,
                                                               !.todo = sess[w].todo \ {p}]]
    /\ UNCHANGED <<subs, invoices, now, aborts>>

\* find_blocking_for_period: a covered period is a 409, or skipped by the sweep.
Check(w) ==
    /\ sess[w].pc = "check"
    /\ IF Blocked(sess[w].cur)
       THEN Continue(w)
       ELSE sess' = [sess EXCEPT ![w].pc = "insert"]
    /\ UNCHANGED <<subs, invoices, now, aborts>>

\* crud_invoice.create: the draft under the next id.  The sweep goes on to
\* issue it.
NextId(i) == ~Exists(i) /\ \A j \in 1..(i-1) : Exists(j)

Inserted(w, i) ==
    [invoices EXCEPT ![i] = [period |-> sess[w].cur, status |-> "draft",
                             issuedAt |-> FALSE, paidAt |-> FALSE]]

Insert(w) ==
    /\ sess[w].pc = "insert"
    /\ \E i \in InvIds :
          /\ NextId(i) /\ UniquePeriods(Inserted(w, i))
          /\ invoices' = Inserted(w, i)
          /\ IF w \in CeleryWorkers
             THEN sess' = [sess EXCEPT ![w] = [@ EXCEPT !.pc = "refresh", !.inv = i]]
             ELSE Finish(w)
    /\ UNCHANGED <<subs, now, aborts>>

\* The IntegrityError becomes a 409.  It ends the sweep too: after the rollback
\* the loaded subscriptions are expired, and the loop's error handler reads one.
InsertConflict(w) ==
    /\ sess[w].pc = "insert"
    /\ \E i \in InvIds : NextId(i) /\ ~UniquePeriods(Inserted(w, i))
    /\ Finish(w)
    /\ UNCHANGED <<subs, invoices, now, aborts>>

-----------------------------------------------------------------------------
(***************************************************************************)
(* Moving an invoice: load and assert_invoice_transition, then commit.     *)
(***************************************************************************)
Load(w, i, target) ==
    /\ Exists(i) /\ CanMoveInvoice(invoices[i].status, target)
    /\ sess' = [sess EXCEPT ![w] =
          [@ EXCEPT !.pc = "commit", !.inv = i, !.loaded = invoices[i].status, !.target = target,
                    !.recover = /\ target = "paid"
                                /\ subs[invoices[i].period.sub].status = "past_due"]]
    /\ UNCHANGED <<subs, invoices, now, aborts>>

\* The issue, pay and void endpoints.
Issue(w, i) == Idle(w) /\ Load(w, i, "open")

\* Mutant: mark_paid takes a draft as well.
MarkPaidAny(w, i) ==
    /\ Idle(w) /\ Exists(i) /\ invoices[i].status \in {"draft", "open"}
    /\ sess' = [sess EXCEPT ![w] =
          [@ EXCEPT !.pc = "commit", !.inv = i, !.loaded = invoices[i].status, !.target = "paid"]]
    /\ UNCHANGED <<subs, invoices, now, aborts>>

MarkPaid(w, i) == Idle(w) /\ Load(w, i, "paid")

\* Mutant: void without its assert_invoice_transition.
VoidAny(w, i) ==
    /\ Idle(w) /\ Exists(i) /\ invoices[i].status # "void"
    /\ sess' = [sess EXCEPT ![w] =
          [@ EXCEPT !.pc = "commit", !.inv = i, !.loaded = invoices[i].status, !.target = "void"]]
    /\ UNCHANGED <<subs, invoices, now, aborts>>

Void(w, i) == Idle(w) /\ Load(w, i, "void")

\* The sweep re-reads its new invoice and issues it if it is still a draft.
Refresh(w) ==
    /\ sess[w].pc = "refresh"
    /\ IF invoices[sess[w].inv].status = "draft"
       THEN Load(w, sess[w].inv, "open")
       ELSE Continue(w) /\ UNCHANGED <<subs, invoices, now, aborts>>

\* The row as the UPDATE leaves it, with the stamp of its new status.
MovedRow(row, target) ==
    [period |-> row.period, status |-> target,
     issuedAt |-> row.issuedAt \/ target = "open", paidAt |-> row.paidAt \/ target = "paid"]

Moved(w) == [invoices EXCEPT ![sess[w].inv] = MovedRow(@, sess[w].target)]

\* A payment also recovers the subscription it loaded as past_due.
Commit(w) ==
    /\ sess[w].pc = "commit"
    /\ UniquePeriods(Moved(w))
    /\ invoices' = Moved(w)
    /\ subs' = IF sess[w].recover
               THEN [subs EXCEPT ![invoices[sess[w].inv].period.sub].status = "active"]
               ELSE subs
    /\ Continue(w)
    /\ UNCHANGED <<now, aborts>>

CommitConflict(w) ==
    /\ sess[w].pc = "commit"
    /\ ~UniquePeriods(Moved(w))
    /\ Finish(w)
    /\ UNCHANGED <<subs, invoices, now, aborts>>

\* The request or the sweep dies between two steps.
Abort(w) ==
    /\ ~Idle(w) /\ aborts < MaxAborts
    /\ Finish(w)
    /\ aborts' = aborts + 1
    /\ UNCHANGED <<subs, invoices, now>>

-----------------------------------------------------------------------------
(***************************************************************************)
(* The subscription's other writers and the clock.                         *)
(***************************************************************************)
MoveSubscription(s, target) ==
    /\ CanMove(subs[s].status, target)
    /\ subs' = [subs EXCEPT ![s].status = target]
    /\ UNCHANGED <<invoices, now, sess, aborts>>

\* Mutant: the interval is taken off the old period instead of added.
StartPeriodBackwards(s) ==
    /\ now > subs[s].start
    /\ subs' = [subs EXCEPT ![s] = [status |-> @.status, start |-> now,
                                    end |-> subs[s].start - Interval]]
    /\ UNCHANGED <<invoices, now, sess, aborts>>

\* An upgrade, the administrator's override or a synchronisation starts a
\* new period.
StartPeriod(s) ==
    /\ now > subs[s].start
    /\ subs' = [subs EXCEPT ![s] = [status |-> @.status, start |-> now, end |-> now + Interval]]
    /\ UNCHANGED <<invoices, now, sess, aborts>>

Tick ==
    /\ now < MaxTime
    /\ now' = now + 1
    /\ UNCHANGED <<subs, invoices, sess, aborts>>

Periods == {CurrentPeriod(s) : s \in Subs}
           \cup {[sub |-> s, start |-> r[1], end |-> r[2]] : s \in Subs, r \in Requested}

\* What a session does next once it has begun.
Step(w) ==
    \/ SweepNext(w) \/ Check(w) \/ Insert(w) \/ InsertConflict(w)
    \/ Refresh(w) \/ Commit(w) \/ CommitConflict(w)

Next ==
    \/ \E w \in ApiWorkers, p \in Periods : Generate(w, p)
    \/ \E w \in ApiWorkers, i \in InvIds : Issue(w, i) \/ MarkPaid(w, i) \/ Void(w, i)
    \/ \E w \in CeleryWorkers : SweepStart(w)
    \/ \E w \in Workers : Step(w) \/ Abort(w)
    \/ \E s \in Subs, t \in SubscriptionStatus : MoveSubscription(s, t)
    \/ \E s \in Subs : StartPeriod(s)
    \/ Tick

\* A running session goes on, and beat starts the sweep again and again.
Fairness ==
    /\ \A w \in Workers : WF_vars(Step(w))
    /\ \A w \in CeleryWorkers : WF_vars(SweepStart(w))

Spec == Init /\ [][Next]_vars /\ Fairness
-----------------------------------------------------------------------------
(***************************************************************************)
(* Properties.                                                             *)
(***************************************************************************)

\* "At most one non-voided invoice per (subscription, period)": generate checks
\* and inserts in two steps, the sweep runs beside it, and a stale issue or
\* payment can bring a voided invoice back.
OneInvoicePerPeriod ==
    \A i, j \in InvIds :
        (/\ Exists(i) /\ invoices[i].status \in {"draft", "open", "paid"}
         /\ Exists(j) /\ invoices[j].status \in {"draft", "open", "paid"}
         /\ invoices[i].period.sub = invoices[j].period.sub
         /\ invoices[i].period.start = invoices[j].period.start) => i = j

\* Money is only taken against an issued invoice, whatever the sessions that
\* moved it had loaded.
PaidWasIssued ==
    \A i \in InvIds : Exists(i) =>
        /\ invoices[i].status = "paid" => invoices[i].paidAt
        /\ invoices[i].paidAt => invoices[i].issuedAt
        /\ invoices[i].status = "open" => invoices[i].issuedAt

\* The only moves outside the invoice state machine are made by a commit whose
\* session had loaded an older status of the invoice.
InvoiceLegalUnlessStale ==
    [][\A i \in InvIds :
          (Exists(i) /\ invoices'[i].status # invoices[i].status) =>
              \/ <<invoices[i].status, invoices'[i].status>> \in
                    {<<"draft", "open">>, <<"draft", "void">>, <<"open", "paid">>, <<"open", "void">>}
              \/ \E w \in Workers : /\ sess[w].pc = "commit" /\ sess'[w].pc # "commit"
                                    /\ sess[w].inv = i /\ sess[w].loaded # invoices[i].status]_vars

\* The sweep invoices every period that has ended, unless the subscription dies
\* or moves to another period first, although sweeps crash, run into
\* conflicts with requests and skip what requests have covered.  (A full table
\* is the model's bound.)
EndedPeriodInvoiced ==
    \A s \in Subs : \A start \in 0..MaxTime :
        (IsLive(s) /\ subs[s].start = start /\ subs[s].end <= now) ~>
            \/ ~IsLive(s) \/ subs[s].start # start
            \/ Blocked(CurrentPeriod(s))
            \/ \A i \in InvIds : Exists(i)

\* InvoiceStatus docstring: "paid -> (terminal)".  The code does not keep this:
\* a void that loaded the open invoice overwrites the payment.
PaidIsTerminal ==
    [][\A i \in InvIds :
          (Exists(i) /\ invoices[i].status = "paid") => invoices'[i].status = "paid"]_vars

\* generate_due_invoices: "Sweep-issued drafts are issued immediately so
\* downstream (dunning, admin views) sees open invoices, not drafts."  The code
\* does not keep this when the sweep dies between its two commits.
SweptDraftIssued ==
    \A w \in CeleryWorkers, i \in InvIds :
        (sess[w].pc = "refresh" /\ sess[w].inv = i) ~>
            (Exists(i) /\ invoices[i].status # "draft")
=============================================================================
