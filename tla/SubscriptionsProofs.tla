------------------------ MODULE SubscriptionsProofs ------------------------
(***************************************************************************)
(* Theorems about Subscriptions and Proration, for any number of workers,  *)
(* tenants, plans, events, rows and ticks.                                 *)
(***************************************************************************)
EXTENDS Proration, TLAPS

-----------------------------------------------------------------------------
(***************************************************************************)
(* The inductive invariants.                                               *)
(***************************************************************************)

\* A session only holds rows that are still in the table, and has a new value
\* for each of them; it works on an event exactly while it is past Deliver.
SessionsConsistent ==
    \A w \in Workers :
        /\ \A i \in SubIds : sess[w].snap[i] # NoRow => subs[i] # NoRow /\ sess[w].new[i] # NoRow
        /\ sess[w].pc = "idle" => sess[w].ev = None
        /\ sess[w].pc \in {"record", "handle", "mark"} => sess[w].ev # None

TypeInv == TypeOK /\ SessionsConsistent

\* w is past the ledger's gate with its event: handling it, about to commit
\* its changes, or about to stamp it.
Holds(w) ==
    \/ sess[w].pc \in {"handle", "mark"}
    \/ sess[w].pc = "commit" /\ sess[w].ev # None

\* The ledger lets one session per event through, once: before the first gate
\* nothing was applied, and nothing before that session's commit either.
LedgerInv ==
    /\ \A e \in Events : applied[e] <= 1
    /\ \A e \in Events : ledger[e] = "absent" => applied[e] = 0
    /\ \A w \in Workers : Holds(w) => ledger[sess[w].ev] = "seen"
    /\ \A w \in Workers : Holds(w) /\ sess[w].pc # "mark" => applied[sess[w].ev] = 0
    /\ \A v, w \in Workers : v # w /\ Holds(v) /\ Holds(w) => sess[v].ev # sess[w].ev

\* The status moved along ALLOWED_TRANSITIONS or stayed.
LegalMove(old, new) == new.status = old.status \/ CanMove(old.status, new.status)
BornStatuses == {"trialing", "active", "past_due", "canceled"}

\* A linked row keeps its Stripe id.
KeepsLink(old, new) == old.stripe # None => new.stripe = old.stripe

\* BookkeepingMatchesStatus, of one row.
Books(r) ==
    /\ r.status \in {"trialing", "active"} => r.failed = 0 /\ r.retry = NoTime
    /\ r.status = "suspended" => r.retry = NoTime
    /\ r.retry # NoTime => r.failed > 0
    /\ r.canceledAt <=> r.status = "canceled"
    /\ r.suspendedAt <=> r.status = "suspended"

\* What a handler does to a row it has loaded, on behalf of event e or of nobody
\* at Stripe's (e = None), and what a row it inserts is like.
Change(old, new, e) ==
    /\ old.stripe # None => new.stripe # None
    /\ e # None => KeepsLink(old, new)
    /\ IF SetsTrial(e) THEN new.status = "trialing"
                       ELSE LegalMove(old, new) /\ (Books(old) => Books(new))
Birth(row, e) ==
    /\ row.status \in BornStatuses
    /\ ~BornDead(e) => Books(row)

\* Every staged update starts from the loaded row and changes it as the handlers
\* do; every staged insert is a row as the handlers make them.
Staged ==
    \A w \in Workers :
        /\ \A i \in SubIds : sess[w].snap[i] # NoRow =>
              Change(sess[w].snap[i], sess[w].new[i], sess[w].ev)
        /\ sess[w].ins # NoRow => Birth(sess[w].ins, sess[w].ev)

-----------------------------------------------------------------------------
(***************************************************************************)
(* What the row operations return.                                         *)
(***************************************************************************)

\* Assigning a value of its type to a column leaves a row a row.
LEMMA Columns ==
    \A row \in Row :
        /\ row.failed \in Nat /\ row.status \in SubscriptionStatus
        /\ \A v \in Plans : [row EXCEPT !.plan = v] \in Row
        /\ \A v \in SubscriptionStatus : [row EXCEPT !.status = v] \in Row
        /\ \A v \in Plans \cup {None} : [row EXCEPT !.pending = v] \in Row
        /\ \A v \in BOOLEAN : [row EXCEPT !.cancelAtEnd = v] \in Row
        /\ \A v \in StripeIds \cup {None} : [row EXCEPT !.stripe = v] \in Row
        /\ \A v \in Nat : [row EXCEPT !.failed = v] \in Row
        /\ \A v \in Int : [row EXCEPT !.retry = v] \in Row
        /\ \A v \in BOOLEAN : [row EXCEPT !.canceledAt = v] \in Row
        /\ \A v \in BOOLEAN : [row EXCEPT !.suspendedAt = v] \in Row
        /\ \A v \in Nat : [row EXCEPT !.start = v] \in Row
        /\ \A v \in Nat : [row EXCEPT !.end = v] \in Row
BY DEF Row

\* The constants the row operations assign have their columns' types.
LEMMA Assigned ==
    /\ NoTime \in Int /\ 0 \in Nat /\ TRUE \in BOOLEAN /\ FALSE \in BOOLEAN
    /\ {"active", "past_due", "canceled", "suspended"} \subseteq SubscriptionStatus
BY DEF NoTime, SubscriptionStatus

\* reset_dunning returns a row.
LEMMA ResetDunningType == \A row \in Row : ResetDunning(row) \in Row
BY Columns, Assigned, Zenon DEF ResetDunning

\* Every row operation of the dunning service returns a row.
LEMMA DunningRows ==
    ASSUME NEW row \in Row, NEW t \in Nat
    PROVE  /\ RecordFailure(row, t) \in Row
           /\ Suspend(row) \in Row
           /\ DunningTick(row, t) \in Row
           /\ Recover(row) \in Row
           /\ Cancel(row) \in Row
<1>1. t + BackoffDelay(row.failed + 1) \in Int
  <2>1. 2^((row.failed + 1) - 1) \in Int
    BY SMT DEF Row
  <2>. QED
    BY <2>1, DunningSettings DEF BackoffDelay
<1>2. Suspend(row) \in Row
  BY Columns, Assigned, Zenon DEF Suspend
<1>3. Cancel(row) \in Row
  BY Columns, Assigned, Zenon DEF Cancel
<1>4. row.failed + 1 \in Nat
  BY Columns
<1>5. DunningTick(row, t) \in Row
  BY Columns, <1>1, <1>2, <1>4, Zenon DEF DunningTick
<1>6. RecordFailure(row, t) \in Row
  <2>1. [row EXCEPT !.status = "past_due"] \in Row
    BY Columns, Assigned
  <2>2. [row EXCEPT !.status = "past_due"].failed = row.failed
    BY DEF Row
  <2>. QED
    BY <2>1, <2>2, <1>1, <1>4, Columns, Zenon DEF RecordFailure
<1>7. Recover(row) \in Row
  BY Columns, Assigned, ResetDunningType, Zenon DEF Recover
<1>. QED
  BY <1>2, <1>3, <1>5, <1>6, <1>7

\* A new row is a row.
LEMMA NewRowType ==
    ASSUME NEW t \in Tenants, NEW p \in Plans, NEW status \in SubscriptionStatus,
           NEW stripe \in StripeIds \cup {None}, NEW start \in Nat, NEW end \in Nat
    PROVE  NewRow(t, p, status, stripe, start, end) \in Row
BY DEF NewRow, Row, NoTime, None

\* A plan switch and a synchronisation turn a row into a row.
LEMMA SwitchPlanType ==
    ASSUME now \in Nat, NEW row \in Row, NEW p \in Plans
    PROVE  SwitchPlan(row, p) \in Row
<1>1. now + Interval[p] \in Nat
  BY CatalogAssumption
<1>. QED
  BY <1>1, Columns, Zenon DEF SwitchPlan

\* The period computed from a payload (_period_from_stripe) is a pair of times,
\* and it ends after it starts, whatever Stripe sent.
LEMMA PeriodType ==
    ASSUME now \in Nat, NEW e \in Events
    PROVE  /\ StartFromStripe(Payload[e]) \in Nat
           /\ EndFromStripe(Payload[e]) \in Nat
           /\ EndFromStripe(Payload[e]) > StartFromStripe(Payload[e])
<1>1. Payload[e].start \in Times /\ Payload[e].end \in Times
  BY PayloadAssumption
<1>2. StartFromStripe(Payload[e]) \in Nat
  BY <1>1 DEF StartFromStripe, Times, NoTime
<1>. QED
  BY <1>1, <1>2, CatalogAssumption DEF EndFromStripe, Times, NoTime

\* _status_from_stripe yields a status of the column, or raises.
LEMMA StatusFromStripeType ==
    ASSUME NEW p, StatusFromStripe(p) # None
    PROVE  StatusFromStripe(p) \in SubscriptionStatus
BY DEF StatusFromStripe, SubscriptionStatus, None

\* The row that handle_subscription_sync stages is a row.
LEMMA SyncRowType ==
    ASSUME now \in Nat, NEW row \in Row, NEW p,
           StartFromStripe(p) \in Nat, EndFromStripe(p) \in Nat,
           NEW target \in SubscriptionStatus
    PROVE  /\ SyncRow(row, p, target) \in Row
           /\ SyncRow(row, p, target).status = target
<1> DEFINE moved == CASE target = "canceled" -> Cancel(row)
                      [] target = "active" /\ row.status = "past_due" -> Recover(row)
                      [] OTHER -> [row EXCEPT !.status = target]
<1>1. CASE target = "canceled"
  <2>1. moved = Cancel(row)
    BY <1>1
  <2>2. moved \in Row /\ moved.status = target
    BY <2>1, <1>1, DunningRows DEF Cancel, Row
  <2>. QED
    BY <2>2 DEF SyncRow, Row
<1>2. CASE target = "active" /\ row.status = "past_due"
  <2>1. moved = Recover(row)
    BY <1>2
  <2>2. moved \in Row /\ moved.status = target
    BY <2>1, <1>2, DunningRows DEF Recover, ResetDunning, Row
  <2>. QED
    BY <2>2 DEF SyncRow, Row
<1>3. CASE target # "canceled" /\ ~(target = "active" /\ row.status = "past_due")
  <2>1. moved = [row EXCEPT !.status = target]
    BY <1>3
  <2>2. moved \in Row /\ moved.status = target
    BY <2>1 DEF Row
  <2>. QED
    BY <2>2 DEF SyncRow, Row
<1>. QED
  BY <1>1, <1>2, <1>3

\* The row that admin_subscription_set_status stages is a row.
LEMMA AdminMoveType ==
    ASSUME NEW row \in Row, NEW target \in SubscriptionStatus
    PROVE  /\ AdminMove(row, target) \in Row
           /\ AdminMove(row, target).status = target
<1>1. CASE target = "canceled"
  BY <1>1, DunningRows DEF AdminMove, Cancel, Row
<1>2. CASE target = "suspended"
  BY <1>2, DunningRows DEF AdminMove, Suspend, Row
<1>3. CASE target = "active" /\ row.status = "past_due"
  BY <1>3, DunningRows DEF AdminMove, Recover, ResetDunning, Row
<1>4. CASE target \notin {"canceled", "suspended"} /\ ~(target = "active" /\ row.status = "past_due")
  <2>1. AdminMove(row, target) = [row EXCEPT !.status = target]
    BY <1>4 DEF AdminMove
  <2>. QED
    BY <2>1 DEF Row
<1>. QED
  BY <1>1, <1>2, <1>3, <1>4

\* A plan change, now or at the period's end, keeps the books and the Stripe id.
LEMMA PlanBooks ==
    ASSUME NEW row \in Row, NEW p
    PROVE  /\ KeepsLink(row, SwitchPlan(row, p)) /\ KeepsLink(row, [row EXCEPT !.pending = p])
           /\ Books(row) => Books(SwitchPlan(row, p))
           /\ Books(row) => Books([row EXCEPT !.pending = p])
BY DEF SwitchPlan, Books, KeepsLink, Row

\* A cancellation for the period's end, and its undoing, keep the
\* books and the Stripe id.
LEMMA EndBooks ==
    ASSUME NEW row \in Row, NEW b \in BOOLEAN
    PROVE  /\ KeepsLink(row, [row EXCEPT !.cancelAtEnd = b])
           /\ Books(row) => Books([row EXCEPT !.cancelAtEnd = b])
BY DEF Books, KeepsLink, Row

\* Attaching a Stripe id keeps the books, and replaces none on a bare row.
LEMMA LinkBooks ==
    ASSUME NEW row \in Row, NEW s
    PROVE  /\ row.stripe = None => KeepsLink(row, [row EXCEPT !.stripe = s])
           /\ Books(row) => Books([row EXCEPT !.stripe = s])
BY DEF Books, KeepsLink, Row

\* An immediate cancellation stamps the row and clears what is pending.
LEMMA CancelBooks ==
    ASSUME NEW row \in Row
    PROVE  /\ KeepsLink(row, Cancel(row))
           /\ Books(row) /\ CanMove(row.status, "canceled") => Books(Cancel(row))
<1>1. CanMove(row.status, "canceled") => row.status \in {"trialing", "active", "past_due"}
  BY DEF CanMove, ALLOWED_TRANSITIONS, Row
<1>. QED
  BY <1>1 DEF Cancel, Books, KeepsLink, Row

\* A suspension of a past_due row stamps it and takes it off the schedule.
LEMMA SuspendBooks ==
    ASSUME NEW row \in Row
    PROVE  /\ KeepsLink(row, Suspend(row))
           /\ Books(row) /\ row.status = "past_due" => Books(Suspend(row))
BY DEF Suspend, Books, KeepsLink, Row

\* A recovery of a past_due row clears its dunning columns.
LEMMA RecoverBooks ==
    ASSUME NEW row \in Row
    PROVE  /\ KeepsLink(row, Recover(row))
           /\ Books(row) /\ row.status = "past_due" => Books(Recover(row))
BY DEF Recover, ResetDunning, Books, KeepsLink, Row

\* An assignment of the status alone, along the machine.
LEMMA StatusBooks ==
    ASSUME NEW row \in Row, NEW target, CanMove(row.status, target),
           target \notin {"canceled", "suspended"}, ~(target = "active" /\ row.status = "past_due")
    PROVE  /\ KeepsLink(row, [row EXCEPT !.status = target])
           /\ Books(row) => Books([row EXCEPT !.status = target])
<1>1. row.status \in {"trialing", "active"} /\ target \in {"active", "past_due"}
  BY DEF CanMove, ALLOWED_TRANSITIONS, SubscriptionStatus, Row
<1>. QED
  BY <1>1 DEF Books, KeepsLink, Row

\* A recorded failure counts and schedules, on a row that may be past_due.
LEMMA FailureBooks ==
    ASSUME NEW row \in Row, NEW t
    PROVE  /\ KeepsLink(row, RecordFailure(row, t))
           /\ Books(row) /\ (row.status = "past_due" \/ CanMove(row.status, "past_due")) =>
                 Books(RecordFailure(row, t))
<1>1. CanMove(row.status, "past_due") => row.status \in {"trialing", "active"}
  BY DEF CanMove, ALLOWED_TRANSITIONS, SubscriptionStatus, Row
<1>. QED
  BY <1>1 DEF RecordFailure, Books, KeepsLink, Row

\* One round of the dunning sweep over a due row.
LEMMA TickBooks ==
    ASSUME NEW row \in Row, NEW t, row.status = "past_due"
    PROVE  KeepsLink(row, DunningTick(row, t)) /\ (Books(row) => Books(DunningTick(row, t)))
<1>1. CASE row.failed >= MaxAttempts
  BY <1>1, SuspendBooks DEF DunningTick
<1>2. CASE ~(row.failed >= MaxAttempts)
  BY <1>2 DEF DunningTick, Books, KeepsLink, Row
<1>. QED
  BY <1>1, <1>2

\* The administrator's status change, once assert_transition has passed.
LEMMA AdminBooks ==
    ASSUME NEW row \in Row, NEW target, CanMove(row.status, target)
    PROVE  KeepsLink(row, AdminMove(row, target)) /\ (Books(row) => Books(AdminMove(row, target)))
<1>1. CASE target = "canceled"
  BY <1>1, CancelBooks DEF AdminMove
<1>2. CASE target = "suspended"
  <2>1. row.status = "past_due"
    BY <1>2 DEF CanMove, ALLOWED_TRANSITIONS, SubscriptionStatus, Row
  <2>. QED
    BY <1>2, <2>1, SuspendBooks DEF AdminMove
<1>3. CASE target = "active" /\ row.status = "past_due"
  BY <1>3, RecoverBooks DEF AdminMove
<1>4. CASE target \notin {"canceled", "suspended"} /\ ~(target = "active" /\ row.status = "past_due")
  <2>1. AdminMove(row, target) = [row EXCEPT !.status = target]
    BY <1>4 DEF AdminMove
  <2>. QED
    BY <1>4, <2>1, StatusBooks
<1>. QED
  BY <1>1, <1>2, <1>3, <1>4

\* A synchronisation moves the status and copies the period, which is not part
\* of the books.
LEMMA SyncBooks ==
    ASSUME NEW row \in Row, NEW p, NEW target \in SubscriptionStatus
    PROVE  /\ KeepsLink(row, SyncRow(row, p, target))
           /\ Books(row) /\ CanMove(row.status, target) /\ target # "suspended" =>
                 Books(SyncRow(row, p, target))
<1> DEFINE moved == CASE target = "canceled" -> Cancel(row)
                      [] target = "active" /\ row.status = "past_due" -> Recover(row)
                      [] OTHER -> [row EXCEPT !.status = target]
<1>1. /\ moved \in Row /\ KeepsLink(row, moved)
      /\ Books(row) /\ CanMove(row.status, target) /\ target # "suspended" => Books(moved)
  <2>1. CASE target = "canceled"
    <3>1. moved = Cancel(row)
      BY <2>1
    <3>. QED
      BY <2>1, <3>1, CancelBooks, DunningRows
  <2>2. CASE target = "active" /\ row.status = "past_due"
    <3>1. moved = Recover(row)
      BY <2>2
    <3>. QED
      BY <2>2, <3>1, RecoverBooks, DunningRows
  <2>3. CASE target # "canceled" /\ ~(target = "active" /\ row.status = "past_due")
    <3>1. moved = [row EXCEPT !.status = target]
      BY <2>3
    <3>2. moved \in Row
      BY <3>1, Columns
    <3>3. KeepsLink(row, moved)
      BY <3>1 DEF KeepsLink, Row
    <3>. QED
      BY <2>3, <3>1, <3>2, <3>3, StatusBooks
  <2>. QED
    BY <2>1, <2>2, <2>3
<1>2. SyncRow(row, p, target) = [moved EXCEPT !.start = StartFromStripe(p), !.end = EndFromStripe(p)]
  BY DEF SyncRow
<1> HIDE DEF moved
<1>3. /\ SyncRow(row, p, target).stripe = moved.stripe
      /\ Books(moved) => Books(SyncRow(row, p, target))
  <2> DEFINE start == StartFromStripe(p)
             end == EndFromStripe(p)
             next == SyncRow(row, p, target)
  <2>1. moved \in Row /\ next = [moved EXCEPT !.start = start, !.end = end]
    BY <1>1, <1>2
  <2> HIDE DEF start, end, next
  <2>2. next.stripe = moved.stripe /\ (Books(moved) => Books(next))
    BY <2>1 DEF Row, Books
  <2>. QED
    BY <2>2 DEF next
<1>4. KeepsLink(row, SyncRow(row, p, target))
  BY <1>1, <1>3 DEF KeepsLink
<1>. QED
  BY <1>1, <1>3, <1>4

\* A row is born with its books in order, unless it is born canceled.
LEMMA NewBooks ==
    ASSUME NEW t, NEW p, NEW status \in {"trialing", "active", "past_due"}, NEW stripe,
           NEW start, NEW end
    PROVE  Books(NewRow(t, p, status, stripe, start, end))
BY DEF NewRow, Books

-----------------------------------------------------------------------------
(***************************************************************************)
(* Type correctness.                                                       *)
(***************************************************************************)

\* A slot that is not empty holds a row.
LEMMA SlotIsRow ==
    ASSUME TypeOK, NEW i \in SubIds, subs[i] # NoRow
    PROVE  subs[i] \in Row
BY DEF TypeOK

\* The live row that get_live_for_tenant returns is a row of the table.
LEMMA LiveSubType ==
    ASSUME TypeOK, NEW t, NEW i \in LiveSub(t)
    PROVE  i \in SubIds /\ subs[i] \in Row /\ IsLive(subs[i])
BY SlotIsRow DEF LiveSub, LiveIds, Rows

\* NULL columns apart, an empty slot is never mistaken for a row.
LEMMA NoRowIsNotARow == NoRow \notin Row
<1>1. ASSUME NoRow \in Row PROVE FALSE
  <2>1. DOMAIN NoRow = {"absent"}
    BY DEF NoRow
  <2>2. "tenant" \in DOMAIN NoRow
    BY <1>1 DEF Row
  <2>. QED
    BY <2>1, <2>2
<1>. QED
  BY <1>1

\* The UPDATE of a row with a changed copy of a loaded row gives a row.
LEMMA FlushType ==
    ASSUME NEW r \in Row, NEW s \in Row, NEW n \in Row
    PROVE  Flush(r, s, n) \in Row
BY DEF Flush, Col, Row

\* A flush keeps the table well typed and deletes no row.
LEMMA FlushedType ==
    ASSUME TypeInv, NEW w \in Workers, NEW t \in Flushed(w)
    PROVE  /\ t \in [SubIds -> Row \cup {NoRow}]
           /\ \A i \in SubIds : subs[i] # NoRow => t[i] # NoRow
<1>1. sess[w] \in Session
  BY DEF TypeInv, TypeOK
<1>2. ASSUME NEW i \in SubIds
      PROVE  /\ Updated(w)[i] \in Row \cup {NoRow}
             /\ subs[i] # NoRow => Updated(w)[i] # NoRow
  <2>1. CASE sess[w].snap[i] = NoRow
    BY <2>1 DEF Updated, TypeInv, TypeOK
  <2>2. CASE sess[w].snap[i] # NoRow
    <3>1. subs[i] \in Row /\ sess[w].snap[i] \in Row /\ sess[w].new[i] \in Row
      BY <1>1, <2>2 DEF TypeInv, TypeOK, SessionsConsistent, Session
    <3>2. Updated(w)[i] = Flush(subs[i], sess[w].snap[i], sess[w].new[i])
      BY <2>2 DEF Updated
    <3>. QED
      BY <3>1, <3>2, FlushType, NoRowIsNotARow
  <2>. QED
    BY <2>1, <2>2
<1>3. Updated(w) \in [SubIds -> Row \cup {NoRow}]
  BY <1>2 DEF Updated
<1>4. CASE sess[w].ins = NoRow
  BY <1>2, <1>3, <1>4 DEF Flushed
<1>5. CASE sess[w].ins # NoRow
  <2>1. PICK i \in SubIds : t = [Updated(w) EXCEPT ![i] = sess[w].ins]
    BY <1>5 DEF Flushed
  <2>2. sess[w].ins \in Row
    BY <1>1, <1>5 DEF Session
  <2>. QED
    BY <1>2, <1>3, <2>1, <2>2, NoRowIsNotARow
<1>. QED
  BY <1>4, <1>5

-----------------------------------------------------------------------------
(***************************************************************************)
(* What the handlers do, seen from the sessions: stage updates of rows,    *)
(* stage an insert, go on to stamp the event, or give up.                  *)
(***************************************************************************)

StagesUpdate(w) ==
    \E S \in SUBSET Rows(subs) : \E f \in [S -> Row] :
        Stage(w, S, f) /\ \A i \in S : Change(subs[i], f[i], sess[w].ev)

StagesInsert(w) ==
    \E row \in Row : StageInsert(w, row) /\ Birth(row, sess[w].ev)

EndsEvent(w) == sess[w].pc = "handle" /\ (Goto(w, "mark") \/ Finish(w))

Tenant(w) ==
    \/ \E t \in Tenants, p \in Plans : Subscribe(w, t, p) \/ ChangePlan(w, t, p)
    \/ \E t \in Tenants : CancelNow(w, t) \/ CancelAtPeriodEnd(w, t) \/ Resume(w, t)
Admin(w) ==
    \/ \E i \in SubIds, p \in Plans : OverridePlan(w, i, p)
    \/ \E i \in SubIds, s \in SubscriptionStatus : SetStatus(w, i, s)
    \/ \E i \in SubIds : AdminEdit(w, i) \/ MarkPaid(w, i)
Stripe(w) ==
    HandleCheckout(w) \/ HandleSync(w) \/ HandlePaymentFailed(w) \/ HandleOther(w)
Handler(w) == Tenant(w) \/ Admin(w) \/ Stripe(w) \/ Sweep(w)

\* Staging one row of the table is staging a set of rows.
LEMMA StageOneUpdates ==
    ASSUME TypeInv, NEW w \in Workers, NEW i \in SubIds, subs[i] # NoRow, NEW row \in Row,
           StageOne(w, i, row), Change(subs[i], row, sess[w].ev)
    PROVE  StagesUpdate(w)
<1> DEFINE f == [j \in {i} |-> row]
<1>1. {i} \in SUBSET Rows(subs)
  BY DEF Rows
<1>2. f \in [{i} -> Row]
  OBVIOUS
<1>3. Stage(w, {i}, f)
  BY DEF StageOne
<1>4. \A j \in {i} : Change(subs[j], f[j], sess[w].ev)
  OBVIOUS
<1>. QED
  BY <1>1, <1>2, <1>3, <1>4 DEF StagesUpdate

\* The tenant's endpoints stage one legal update, or the insert of a live row.
LEMMA TenantShape ==
    ASSUME TypeInv, NEW w \in Workers, Tenant(w)
    PROVE  /\ UNCHANGED <<subs, ledger, now, applied>>
           /\ Idle(w)
           /\ StagesUpdate(w) \/ StagesInsert(w)
<1>h. Idle(w) /\ UNCHANGED <<subs, ledger, now, applied>>
  BY DEF Tenant, Subscribe, ChangePlan, CancelNow, CancelAtPeriodEnd, Resume
<1>e. sess[w].ev = None /\ ~SetsTrial(None) /\ ~BornDead(None)
  BY <1>h DEF Idle, TypeInv, SessionsConsistent, SetsTrial, BornDead
<1>t. TypeOK /\ now \in Nat
  BY DEF TypeInv, TypeOK
<1>1. ASSUME NEW t \in Tenants, NEW p \in Plans, Subscribe(w, t, p)
      PROVE  StagesInsert(w)
  <2> DEFINE st == IF p \in TrialPlans THEN "trialing" ELSE "active"
  <2> DEFINE row == NewRow(t, p, st, None, now, now + Interval[p])
  <2>1. row \in Row
    <3>1. now + Interval[p] \in Nat
      BY <1>t, CatalogAssumption
    <3>2. st \in SubscriptionStatus
      BY DEF SubscriptionStatus
    <3>. QED
      BY <1>t, <3>1, <3>2, NewRowType
  <2>2. Birth(row, sess[w].ev)
    <3>1. row.status \in BornStatuses
      BY DEF NewRow, BornStatuses
    <3>2. Books(row)
      BY NewBooks
    <3>. QED
      BY <1>e, <3>1, <3>2 DEF Birth
  <2>. QED
    BY <1>1, <2>1, <2>2 DEF Subscribe, StagesInsert
<1>2. ASSUME NEW t \in Tenants, NEW p \in Plans, ChangePlan(w, t, p)
      PROVE  StagesUpdate(w)
  <2>1. PICK i \in LiveSub(t) :
            StageOne(w, i, IF Price[p] > Price[subs[i].plan]
                           THEN SwitchPlan(subs[i], p)
                           ELSE [subs[i] EXCEPT !.pending = p])
    BY <1>e, <1>2 DEF ChangePlan
  <2>2. i \in SubIds /\ subs[i] \in Row /\ IsLive(subs[i])
    BY <1>t, LiveSubType
  <2>3. SwitchPlan(subs[i], p) \in Row /\ SwitchPlan(subs[i], p).status = subs[i].status
    BY <1>t, <2>2, SwitchPlanType DEF SwitchPlan, Row
  <2>4. [subs[i] EXCEPT !.pending = p] \in Row /\ [subs[i] EXCEPT !.pending = p].status = subs[i].status
    BY <2>2 DEF Row
  <2>5. Change(subs[i], SwitchPlan(subs[i], p), sess[w].ev) /\ Change(subs[i], [subs[i] EXCEPT !.pending = p], sess[w].ev)
    BY <1>e, <2>2, <2>3, <2>4, PlanBooks DEF Change, KeepsLink, LegalMove
  <2>. QED
    BY <2>1, <2>2, <2>3, <2>4, <2>5, StageOneUpdates, NoRowIsNotARow
<1>3. ASSUME NEW t \in Tenants, CancelNow(w, t)
      PROVE  StagesUpdate(w)
  <2>1. PICK i \in LiveSub(t) :
            CanMove(subs[i].status, "canceled") /\ StageOne(w, i, Cancel(subs[i]))
    BY <1>3 DEF CancelNow
  <2>2. i \in SubIds /\ subs[i] \in Row /\ IsLive(subs[i])
    BY <1>t, LiveSubType
  <2>3. Cancel(subs[i]) \in Row /\ Cancel(subs[i]).status = "canceled"
    BY <2>2, DunningRows DEF Cancel, Row
  <2>4. Change(subs[i], Cancel(subs[i]), sess[w].ev)
    BY <1>e, <2>1, <2>2, <2>3, CancelBooks DEF Change, KeepsLink, LegalMove
  <2>. QED
    BY <2>1, <2>2, <2>3, <2>4, StageOneUpdates, NoRowIsNotARow
<1>4. ASSUME NEW t \in Tenants, CancelAtPeriodEnd(w, t) \/ Resume(w, t)
      PROVE  StagesUpdate(w)
  <2>1. PICK i \in LiveSub(t), b \in BOOLEAN : StageOne(w, i, [subs[i] EXCEPT !.cancelAtEnd = b])
    BY <1>4 DEF CancelAtPeriodEnd, Resume
  <2>2. i \in SubIds /\ subs[i] \in Row /\ IsLive(subs[i])
    BY <1>t, LiveSubType
  <2>3. [subs[i] EXCEPT !.cancelAtEnd = b] \in Row /\ [subs[i] EXCEPT !.cancelAtEnd = b].status = subs[i].status
    BY <2>2 DEF Row
  <2>4. Change(subs[i], [subs[i] EXCEPT !.cancelAtEnd = b], sess[w].ev)
    BY <1>e, <2>2, <2>3, EndBooks DEF Change, KeepsLink, LegalMove
  <2>. QED
    BY <2>1, <2>2, <2>3, <2>4, StageOneUpdates, NoRowIsNotARow
<1>. QED
  BY <1>1, <1>2, <1>3, <1>4, <1>h DEF Tenant

\* The administrator's actions stage one legal update.
LEMMA AdminShape ==
    ASSUME TypeInv, NEW w \in Workers, Admin(w)
    PROVE  /\ UNCHANGED <<subs, ledger, now, applied>>
           /\ Idle(w)
           /\ StagesUpdate(w)
<1>h. Idle(w) /\ UNCHANGED <<subs, ledger, now, applied>>
  BY DEF Admin, OverridePlan, SetStatus, AdminEdit, MarkPaid
<1>e. sess[w].ev = None /\ ~SetsTrial(None) /\ ~BornDead(None)
  BY <1>h DEF Idle, TypeInv, SessionsConsistent, SetsTrial, BornDead
<1>t. TypeOK /\ now \in Nat
  BY DEF TypeInv, TypeOK
<1>1. ASSUME NEW i \in SubIds, NEW p \in Plans, OverridePlan(w, i, p)
      PROVE  StagesUpdate(w)
  <2>1. subs[i] \in Row
    BY <1>t, <1>1, SlotIsRow DEF OverridePlan
  <2>2. SwitchPlan(subs[i], p) \in Row /\ SwitchPlan(subs[i], p).status = subs[i].status
    BY <1>t, <2>1, SwitchPlanType DEF SwitchPlan, Row
  <2>3. Change(subs[i], SwitchPlan(subs[i], p), sess[w].ev)
    BY <1>e, <2>1, <2>2, PlanBooks DEF Change, KeepsLink, LegalMove
  <2>. QED
    BY <1>1, <2>2, <2>3, StageOneUpdates DEF OverridePlan
<1>2. ASSUME NEW i \in SubIds, NEW s \in SubscriptionStatus, SetStatus(w, i, s)
      PROVE  StagesUpdate(w)
  <2>1. subs[i] \in Row
    BY <1>t, <1>2, SlotIsRow DEF SetStatus
  <2>2. Change(subs[i], AdminMove(subs[i], s), sess[w].ev)
    BY <1>e, <1>2, <2>1, AdminMoveType, AdminBooks DEF SetStatus, Change, KeepsLink, LegalMove
  <2>. QED
    BY <1>2, <2>1, <2>2, AdminMoveType, StageOneUpdates DEF SetStatus
<1>3. ASSUME NEW i \in SubIds, AdminEdit(w, i)
      PROVE  StagesUpdate(w)
  <2>1. subs[i] \in Row
    BY <1>t, <1>3, SlotIsRow DEF AdminEdit
  <2>2. PICK p \in Plans, q \in Plans \cup {None}, b \in BOOLEAN, s \in StripeIds \cup {subs[i].stripe} :
            StageOne(w, i, [subs[i] EXCEPT !.plan = p, !.pending = q,
                                           !.cancelAtEnd = b, !.stripe = s])
    <3>1. /\ FormValues("plan", Plans, subs[i].plan) \subseteq Plans
          /\ FormValues("pending", Plans, subs[i].pending) \subseteq Plans \cup {None}
          /\ FormValues("cancelAtEnd", BOOLEAN, subs[i].cancelAtEnd) \subseteq BOOLEAN
          /\ FormValues("stripe", StripeIds, subs[i].stripe) \subseteq StripeIds \cup {subs[i].stripe}
      BY <2>1 DEF FormValues, Row
    <3>. QED
      BY <1>3, <3>1, Zenon DEF AdminEdit
  <2> DEFINE new == [subs[i] EXCEPT !.plan = p, !.pending = q, !.cancelAtEnd = b, !.stripe = s]
  <2>3. /\ new \in Row /\ new.status = subs[i].status /\ (Books(subs[i]) => Books(new))
        /\ subs[i].stripe # None => new.stripe # None
    <3>1. s \in StripeIds \cup {None}
      BY <2>1 DEF Row
    <3>2. /\ new \in Row /\ new.status = subs[i].status /\ new.stripe = s
          /\ Books(subs[i]) => Books(new)
      BY <2>1, <3>1 DEF Books, Row
    <3> HIDE DEF new
    <3>. QED
      BY <3>2, CatalogAssumption
  <2>4. StageOne(w, i, new) /\ subs[i] # NoRow
    BY <1>3, <2>2 DEF AdminEdit
  <2> HIDE DEF new
  <2>5. Change(subs[i], new, sess[w].ev)
    BY <1>e, <2>3 DEF Change, KeepsLink, LegalMove
  <2>. QED
    BY <2>3, <2>4, <2>5, StageOneUpdates
<1>4. ASSUME NEW i \in SubIds, MarkPaid(w, i)
      PROVE  StagesUpdate(w)
  <2>1. subs[i] \in Row /\ subs[i].status = "past_due" /\ StageOne(w, i, Recover(subs[i]))
    BY <1>t, <1>4, SlotIsRow DEF MarkPaid
  <2>2. Recover(subs[i]) \in Row /\ Recover(subs[i]).status = "active"
    BY <2>1, DunningRows DEF Recover, ResetDunning, Row
  <2>3. CanMove("past_due", "active")
    BY DEF CanMove, ALLOWED_TRANSITIONS, SubscriptionStatus
  <2>4. Change(subs[i], Recover(subs[i]), sess[w].ev)
    BY <1>e, <2>1, <2>2, <2>3, RecoverBooks DEF Change, KeepsLink, LegalMove
  <2>. QED
    BY <2>1, <2>2, <2>4, StageOneUpdates, NoRowIsNotARow
<1>. QED
  BY <1>1, <1>2, <1>3, <1>4, <1>h DEF Admin

\* The dunning sweep stages a legal update of every due row.
LEMMA SweepShape ==
    ASSUME TypeInv, NEW w \in Workers, Sweep(w)
    PROVE  /\ UNCHANGED <<subs, ledger, now, applied>>
           /\ Idle(w)
           /\ StagesUpdate(w)
<1>h. Idle(w) /\ UNCHANGED <<subs, ledger, now, applied>>
  BY DEF Sweep
<1>e. sess[w].ev = None /\ ~SetsTrial(None) /\ ~BornDead(None)
  BY <1>h DEF Idle, TypeInv, SessionsConsistent, SetsTrial, BornDead
<1> DEFINE f == [i \in DueRows |-> DunningTick(subs[i], now)]
<1>1. DueRows \in SUBSET Rows(subs)
  BY DEF DueRows
<1>2. \A i \in DueRows : subs[i] \in Row /\ subs[i].status = "past_due"
  BY SlotIsRow DEF TypeInv, DueRows, Rows, IsDue
<1>3. ASSUME NEW i \in DueRows
      PROVE  DunningTick(subs[i], now) \in Row /\ Change(subs[i], DunningTick(subs[i], now), sess[w].ev)
  <2>1. subs[i] \in Row /\ subs[i].status = "past_due" /\ now \in Nat
    BY <1>2 DEF TypeInv, TypeOK
  <2>2. DunningTick(subs[i], now).status \in {"past_due", "suspended"}
    BY <2>1 DEF DunningTick, Suspend, Row
  <2>3. LegalMove(subs[i], DunningTick(subs[i], now))
    BY <2>1, <2>2 DEF LegalMove, CanMove, ALLOWED_TRANSITIONS, SubscriptionStatus
  <2>. QED
    BY <1>e, <2>1, <2>3, DunningRows, TickBooks DEF Change, KeepsLink
<1>4. f \in [DueRows -> Row]
  BY <1>3
<1>5. \A i \in DueRows : Change(subs[i], f[i], sess[w].ev)
  BY <1>3
<1>. QED
  BY <1>1, <1>4, <1>5, <1>h DEF Sweep, StagesUpdate

\* The Stripe handlers stage one update, legal unless the event asks for a trial,
\* or an insert, or are done with the event.
LEMMA StripeShape ==
    ASSUME TypeInv, NEW w \in Workers, Stripe(w)
    PROVE  /\ UNCHANGED <<subs, ledger, now, applied>>
           /\ sess[w].pc = "handle"
           /\ StagesUpdate(w) \/ StagesInsert(w) \/ EndsEvent(w)
<1>h. UNCHANGED <<subs, ledger, now, applied>> /\ sess[w].pc = "handle"
  BY DEF Stripe, HandleCheckout, HandleSync, HandlePaymentFailed, HandleOther, Handling
<1> DEFINE e == sess[w].ev
<1>t. TypeOK /\ now \in Nat /\ e \in Events
  BY <1>h DEF TypeInv, TypeOK, SessionsConsistent, Session
<1>p. /\ Payload[e].stripe \in StripeIds
      /\ Payload[e].tenant \in Tenants
      /\ Payload[e].plan \in Plans \cup {None}
  BY <1>t, PayloadAssumption
<1>1. CASE HandleCheckout(w)
  <2> DEFINE p  == Payload[e]
             st == IF p.status = None THEN "active" ELSE StatusFromStripe(p)
             row == NewRow(p.tenant, p.plan, st, p.stripe, StartFromStripe(p), EndFromStripe(p))
  <2>1. ASSUME NEW i \in LiveSub(p.tenant), subs[i].stripe = None,
               StageOne(w, i, [subs[i] EXCEPT !.stripe = p.stripe])
        PROVE  StagesUpdate(w)
    <3>1. i \in SubIds /\ subs[i] \in Row
      BY <1>t, LiveSubType
    <3>2. /\ [subs[i] EXCEPT !.stripe = p.stripe] \in Row
          /\ [subs[i] EXCEPT !.stripe = p.stripe].status = subs[i].status
      BY <1>p, <3>1 DEF Row
    <3>3. Change(subs[i], [subs[i] EXCEPT !.stripe = p.stripe], e)
      <4>1. ~SetsTrial(e)
        BY <1>1 DEF HandleCheckout, Handling, SetsTrial
      <4>. QED
        BY <2>1, <3>1, <3>2, <4>1, LinkBooks DEF Change, KeepsLink, LegalMove
    <3>. QED
      BY <2>1, <3>1, <3>2, <3>3, StageOneUpdates, NoRowIsNotARow
  <2>2. ASSUME p.plan # None, st # None, StageInsert(w, row)
        PROVE  StagesInsert(w)
    <3>1. st \in BornStatuses
      BY <2>2 DEF StatusFromStripe, BornStatuses
    <3>2. st \in SubscriptionStatus
      BY <3>1 DEF BornStatuses, SubscriptionStatus
    <3>3. row \in Row
      BY <1>t, <1>p, <2>2, <3>2, NewRowType, PeriodType
    <3>4. row.status = st
      BY DEF NewRow
    <3>5. ~BornDead(e) => st # "canceled"
      <4>1. p.type = "checkout" /\ e # None
        BY <1>1, <1>t, PayloadAssumption DEF HandleCheckout, Handling
      <4>2. ~BornDead(e) => p.status # "canceled"
        BY <4>1 DEF BornDead
      <4>. QED
        BY <4>2 DEF StatusFromStripe, None
    <3>6. ~BornDead(e) => Books(row)
      <4>1. st # "canceled" => st \in {"trialing", "active", "past_due"}
        BY <3>1 DEF BornStatuses
      <4>. QED
        BY <3>5, <4>1, NewBooks
    <3>. QED
      BY <2>2, <3>1, <3>3, <3>4, <3>6 DEF StagesInsert, Birth
  <2>3. \/ Goto(w, "mark") \/ Finish(w)
        \/ \E i \in LiveSub(p.tenant) : /\ subs[i].stripe = None
                                         /\ StageOne(w, i, [subs[i] EXCEPT !.stripe = p.stripe])
        \/ p.plan # None /\ st # None /\ StageInsert(w, row)
    BY <1>1 DEF HandleCheckout
  <2>. QED
    BY <1>h, <2>1, <2>2, <2>3 DEF EndsEvent
<1>2. CASE HandleSync(w)
  <2> DEFINE p == IF Payload[e].type = "deleted"
                  THEN [Payload[e] EXCEPT !.status = "canceled"] ELSE Payload[e]
             target == StatusFromStripe(p)
  <2>1. ASSUME NEW i \in SubIds, subs[i] # NoRow, target # None, SyncChecked(subs[i], target),
               StageOne(w, i, SyncRow(subs[i], p, target))
        PROVE  StagesUpdate(w)
    <3>1. subs[i] \in Row
      BY <1>t, <2>1, SlotIsRow
    <3>2. StartFromStripe(p) \in Nat /\ EndFromStripe(p) \in Nat
      <4>1. p.start = Payload[e].start /\ p.end = Payload[e].end
        BY <1>t, PayloadAssumption
      <4>2. StartFromStripe(p) = StartFromStripe(Payload[e])
        BY <4>1 DEF StartFromStripe
      <4>3. EndFromStripe(p) = EndFromStripe(Payload[e])
        BY <4>1, <4>2 DEF EndFromStripe
      <4>. QED
        BY <1>t, <4>2, <4>3, PeriodType
    <3>3. target \in SubscriptionStatus
      BY <2>1, StatusFromStripeType
    <3>4. SyncRow(subs[i], p, target) \in Row /\ SyncRow(subs[i], p, target).status = target
      BY <1>t, <3>1, <3>2, <3>3, SyncRowType
    <3>5. SetsTrial(e) <=> target = "trialing"
      <4>1. CASE Payload[e].type = "deleted"
        <5>1. p.status = "canceled"
          BY <1>t, <4>1, PayloadAssumption
        <5>. QED
          BY <4>1, <5>1 DEF StatusFromStripe, SetsTrial
      <4>2. CASE Payload[e].type # "deleted"
        <5>1. Payload[e].type = "updated" /\ e # None
          BY <1>2, <1>t, <4>2, PayloadAssumption DEF HandleSync, Handling
        <5>. QED
          BY <5>1 DEF SetsTrial
      <4>. QED
        BY <4>1, <4>2
    <3>6. Change(subs[i], SyncRow(subs[i], p, target), e)
      <4>1. ~SetsTrial(e) => CanMove(subs[i].status, target)
        BY <2>1, <3>5 DEF SyncChecked
      <4>2. target # "suspended"
        BY DEF StatusFromStripe, None
      <4>3. /\ KeepsLink(subs[i], SyncRow(subs[i], p, target))
            /\ Books(subs[i]) /\ CanMove(subs[i].status, target) =>
                  Books(SyncRow(subs[i], p, target))
        BY <3>1, <3>3, <4>2, SyncBooks
      <4>. QED
        BY <3>4, <3>5, <4>1, <4>3 DEF Change, KeepsLink, LegalMove
    <3>. QED
      BY <2>1, <3>4, <3>6, StageOneUpdates
  <2>2. ByStripeId(p.stripe) \subseteq {i \in SubIds : subs[i] # NoRow}
    BY DEF ByStripeId, Rows
  <2>3. \/ Goto(w, "mark") \/ Finish(w)
        \/ \E i \in ByStripeId(p.stripe) : /\ target # None /\ SyncChecked(subs[i], target)
                                           /\ StageOne(w, i, SyncRow(subs[i], p, target))
    BY <1>2 DEF HandleSync
  <2>. QED
    BY <1>h, <2>1, <2>2, <2>3 DEF EndsEvent
<1>3. CASE HandlePaymentFailed(w)
  <2>1. ASSUME NEW i \in SubIds, subs[i] # NoRow,
               subs[i].status = "past_due" \/ CanMove(subs[i].status, "past_due"),
               StageOne(w, i, RecordFailure(subs[i], now))
        PROVE  StagesUpdate(w)
    <3>1. subs[i] \in Row
      BY <1>t, <2>1, SlotIsRow
    <3>2. RecordFailure(subs[i], now) \in Row
      BY <1>t, <3>1, DunningRows
    <3>3. RecordFailure(subs[i], now).status = "past_due"
      BY <3>1 DEF RecordFailure, Row
    <3>4. Change(subs[i], RecordFailure(subs[i], now), e)
      <4>1. ~SetsTrial(e)
        BY <1>3 DEF HandlePaymentFailed, Handling, SetsTrial
      <4>. QED
        BY <2>1, <3>1, <3>3, <4>1, FailureBooks DEF Change, KeepsLink, LegalMove
    <3>. QED
      BY <2>1, <3>2, <3>4, StageOneUpdates
  <2>2. ByStripeId(Payload[e].stripe) \subseteq {i \in SubIds : subs[i] # NoRow}
    BY DEF ByStripeId, Rows
  <2>3. \/ Goto(w, "mark") \/ Finish(w)
        \/ \E i \in ByStripeId(Payload[e].stripe) :
              /\ subs[i].status = "past_due" \/ CanMove(subs[i].status, "past_due")
              /\ StageOne(w, i, RecordFailure(subs[i], now))
    BY <1>3 DEF HandlePaymentFailed
  <2>. QED
    BY <1>h, <2>1, <2>2, <2>3 DEF EndsEvent
<1>4. CASE HandleOther(w)
  BY <1>4, <1>h DEF HandleOther, EndsEvent
<1>. QED
  BY <1>h, <1>1, <1>2, <1>3, <1>4 DEF Stripe

\* The shape of every handler step, and the step split by it.
LEMMA HandlerShape ==
    ASSUME TypeInv, NEW w \in Workers, Handler(w)
    PROVE  /\ UNCHANGED <<subs, ledger, now, applied>>
           /\ \/ sess[w].pc \in {"idle", "handle"} /\ (StagesUpdate(w) \/ StagesInsert(w))
              \/ EndsEvent(w)
BY TenantShape, AdminShape, StripeShape, SweepShape DEF Handler, Idle

\* Every step of the specification is a handler's load, one of the session's own
\* steps, or a tick: the case split used by the invariance proofs.
LEMMA StepCases ==
    ASSUME [Next]_vars
    PROVE  \/ \E w \in Workers : \/ Handler(w)
                                 \/ \E e \in Events : Deliver(w, e)
                                 \/ RecordEvent(w) \/ MarkProcessed(w)
                                 \/ Commit(w) \/ CommitConflict(w) \/ Abort(w)
           \/ Tick
           \/ UNCHANGED vars
BY DEF Next, Handler, Tenant, Admin, Stripe

-----------------------------------------------------------------------------
(***************************************************************************)
(* Type correctness.                                                       *)
(***************************************************************************)

\* A session without a handler is a session.
LEMMA IdleSessionType == IdleSession \in Session
BY DEF IdleSession, Session, NoRows, None

\* Each way in which a step changes w's session, the table growing only.
LEMMA SessionTypeStep ==
    ASSUME TypeInv, NEW w \in Workers, NEW s \in Session,
           sess' = [sess EXCEPT ![w] = s],
           \A i \in SubIds : subs[i] # NoRow => subs'[i] # NoRow,
           \A i \in SubIds : s.snap[i] # NoRow => subs'[i] # NoRow /\ s.new[i] # NoRow,
           s.pc = "idle" => s.ev = None,
           s.pc \in {"record", "handle", "mark"} => s.ev # None
    PROVE  sess' \in [Workers -> Session] /\ SessionsConsistent'
<1>1. sess' \in [Workers -> Session]
  BY DEF TypeInv, TypeOK
<1>2. \A v \in Workers : sess'[v] = IF v = w THEN s ELSE sess[v]
  BY DEF TypeInv, TypeOK
<1>. QED
  BY <1>1, <1>2 DEF TypeInv, SessionsConsistent

\* The columns of a session without a handler.
LEMMA IdleSessionColumns ==
    /\ IdleSession.pc = "idle" /\ IdleSession.ev = None
    /\ \A i \in SubIds : IdleSession.snap[i] = NoRow
BY DEF IdleSession, NoRows

\* A step that only ends sessions keeps the types.
LEMMA FinishTypeStep ==
    ASSUME TypeInv, NEW w \in Workers, Finish(w),
           \A i \in SubIds : subs[i] # NoRow => subs'[i] # NoRow
    PROVE  sess' \in [Workers -> Session] /\ SessionsConsistent'
BY SessionTypeStep, IdleSessionType, IdleSessionColumns DEF Finish

\* A session that holds no rows and waits at pc with event e.
LEMMA EventSession ==
    ASSUME NEW e \in Events, NEW pc \in {"record", "mark"}
    PROVE  LET s == [IdleSession EXCEPT !.pc = pc, !.ev = e]
           IN  /\ s \in Session /\ s.pc = pc /\ s.ev = e /\ e # None
               /\ \A i \in SubIds : s.snap[i] = NoRow
BY PayloadAssumption DEF IdleSession, Session, NoRows

\* A step that only moves a session on keeps the types.
LEMMA GotoTypeStep ==
    ASSUME TypeInv, NEW w \in Workers, NEW pc \in {"handle", "mark"},
           sess[w].pc \in {"record", "handle"}, Goto(w, pc), subs' = subs
    PROVE  sess' \in [Workers -> Session] /\ SessionsConsistent'
<1> DEFINE s == [sess[w] EXCEPT !.pc = pc]
<1>1. sess[w] \in Session
  BY DEF TypeInv, TypeOK
<1>2. s \in Session /\ s.pc = pc /\ s.ev = sess[w].ev /\ s.snap = sess[w].snap /\ s.new = sess[w].new
  BY <1>1 DEF Session
<1>3. sess' = [sess EXCEPT ![w] = s]
  BY DEF Goto
<1>4. /\ s.ev # None
      /\ \A i \in SubIds : s.snap[i] # NoRow => subs'[i] # NoRow /\ s.new[i] # NoRow
  BY <1>2 DEF TypeInv, SessionsConsistent
<1> HIDE DEF s
<1>. QED
  BY <1>2, <1>3, <1>4, SessionTypeStep

\* A step that stages typed rows in a session keeps the types.
LEMMA StageTypeStep ==
    ASSUME TypeInv, NEW w \in Workers, StagesUpdate(w) \/ StagesInsert(w), subs' = subs
    PROVE  sess' \in [Workers -> Session] /\ SessionsConsistent'
<1>w. sess[w] \in Session
  BY DEF TypeInv, TypeOK
<1>1. CASE StagesUpdate(w)
  <2>0. PICK S \in SUBSET Rows(subs) : \E f \in [S -> Row] : Stage(w, S, f)
    BY <1>1 DEF StagesUpdate
  <2>1. PICK f \in [S -> Row] : Stage(w, S, f)
    BY <2>0
  <2> DEFINE s == [pc |-> "commit", ev |-> sess[w].ev,
                   snap |-> [i \in SubIds |-> IF i \in S THEN subs[i] ELSE NoRow],
                   new  |-> [i \in SubIds |-> IF i \in S THEN f[i] ELSE NoRow],
                   ins  |-> NoRow]
  <2>2. /\ s.snap \in [SubIds -> Row \cup {NoRow}]
        /\ s.new \in [SubIds -> Row \cup {NoRow}]
    BY DEF TypeInv, TypeOK
  <2>3. s \in Session
    BY <1>w, <2>2 DEF Session
  <2>4. \A i \in SubIds : s.snap[i] # NoRow => subs'[i] # NoRow /\ s.new[i] # NoRow
    BY NoRowIsNotARow DEF Rows
  <2>5. sess' = [sess EXCEPT ![w] = s]
    BY <2>1 DEF Stage
  <2>6. s.pc = "commit"
    OBVIOUS
  <2> HIDE DEF s
  <2>. QED
    BY <2>3, <2>4, <2>5, <2>6, SessionTypeStep
<1>2. CASE StagesInsert(w)
  <2>1. PICK row \in Row : StageInsert(w, row)
    BY <1>2 DEF StagesInsert
  <2> DEFINE s == [pc |-> "commit", ev |-> sess[w].ev,
                   snap |-> NoRows, new |-> NoRows, ins |-> row]
  <2>2. s \in Session
    BY <1>w DEF Session, NoRows
  <2>3. \A i \in SubIds : s.snap[i] = NoRow
    BY DEF NoRows
  <2>4. sess' = [sess EXCEPT ![w] = s]
    BY <2>1 DEF StageInsert
  <2>5. s.pc = "commit"
    OBVIOUS
  <2> HIDE DEF s
  <2>. QED
    BY <2>2, <2>3, <2>4, <2>5, SessionTypeStep
<1>. QED
  BY <1>1, <1>2

\* TypeInv is inductive.
LEMMA TypeInvStep ==
    ASSUME TypeInv, [Next]_vars
    PROVE  TypeInv'
<1>t. TypeOK /\ SessionsConsistent
  BY DEF TypeInv
<1>1. ASSUME NEW w \in Workers, Handler(w) PROVE TypeInv'
  <2>1. UNCHANGED <<subs, ledger, now, applied>>
    BY <1>1, HandlerShape
  <2>2. \/ StagesUpdate(w) \/ StagesInsert(w)
        \/ sess[w].pc = "handle" /\ Goto(w, "mark")
        \/ Finish(w)
    BY <1>1, HandlerShape DEF EndsEvent
  <2>3. sess' \in [Workers -> Session] /\ SessionsConsistent'
    BY <2>1, <2>2, StageTypeStep, GotoTypeStep, FinishTypeStep
  <2>. QED
    BY <1>t, <2>1, <2>3 DEF TypeInv, TypeOK
<1>2. ASSUME NEW w \in Workers, NEW e \in Events, Deliver(w, e) PROVE TypeInv'
  <2> DEFINE s == [IdleSession EXCEPT !.pc = "record", !.ev = e]
  <2>1. /\ s \in Session /\ s.pc = "record" /\ s.ev # None
        /\ \A i \in SubIds : s.snap[i] = NoRow
    BY EventSession
  <2>2. sess' = [sess EXCEPT ![w] = s] /\ UNCHANGED <<subs, ledger, now, applied>>
    BY <1>2 DEF Deliver
  <2> HIDE DEF s
  <2>3. sess' \in [Workers -> Session] /\ SessionsConsistent'
    BY <2>1, <2>2, SessionTypeStep
  <2>. QED
    BY <1>t, <2>2, <2>3 DEF TypeInv, TypeOK
<1>3. ASSUME NEW w \in Workers, RecordEvent(w) PROVE TypeInv'
  <2>1. sess[w].pc = "record" /\ UNCHANGED <<subs, now, applied>>
    BY <1>3 DEF RecordEvent
  <2>2. ledger' \in [Events -> {"absent", "seen", "processed"}]
    BY <1>3, <1>t DEF RecordEvent, TypeOK
  <2>3. sess' \in [Workers -> Session] /\ SessionsConsistent'
    BY <1>3, <2>1, GotoTypeStep, FinishTypeStep DEF RecordEvent
  <2>. QED
    BY <1>t, <2>1, <2>2, <2>3 DEF TypeInv, TypeOK
<1>4. ASSUME NEW w \in Workers, MarkProcessed(w) PROVE TypeInv'
  <2>1. ledger' \in [Events -> {"absent", "seen", "processed"}]
    BY <1>4, <1>t DEF MarkProcessed, TypeOK
  <2>2. sess' \in [Workers -> Session] /\ SessionsConsistent'
    BY <1>4, FinishTypeStep DEF MarkProcessed
  <2>. QED
    BY <1>4, <1>t, <2>1, <2>2 DEF TypeInv, TypeOK, MarkProcessed
<1>5. ASSUME NEW w \in Workers, Commit(w) PROVE TypeInv'
  <2>1. subs' \in Flushed(w)
    BY <1>5 DEF Commit
  <2>2. /\ subs' \in [SubIds -> Row \cup {NoRow}]
        /\ \A i \in SubIds : subs[i] # NoRow => subs'[i] # NoRow
    BY <2>1, FlushedType
  <2>3. CASE sess[w].ev = None
    <3>1. sess' \in [Workers -> Session] /\ SessionsConsistent'
      BY <1>5, <2>2, <2>3, FinishTypeStep DEF Commit
    <3>. QED
      BY <1>5, <1>t, <2>2, <2>3, <3>1 DEF TypeInv, TypeOK, Commit
  <2>4. CASE sess[w].ev # None
    <3> DEFINE e == sess[w].ev
               s == [IdleSession EXCEPT !.pc = "mark", !.ev = e]
    <3>1. e \in Events
      BY <1>t, <2>4 DEF TypeOK, Session
    <3>2. /\ s \in Session /\ s.pc = "mark" /\ s.ev # None
          /\ \A i \in SubIds : s.snap[i] = NoRow
      BY <3>1, EventSession
    <3>3. sess' = [sess EXCEPT ![w] = s]
      BY <1>5, <2>4 DEF Commit
    <3>4. applied' \in [Events -> Nat]
      BY <1>5, <1>t, <2>4, <3>1 DEF Commit, TypeOK
    <3> HIDE DEF s
    <3>5. sess' \in [Workers -> Session] /\ SessionsConsistent'
      BY <2>2, <3>2, <3>3, SessionTypeStep
    <3>. QED
      BY <1>5, <1>t, <2>2, <3>4, <3>5 DEF TypeInv, TypeOK, Commit
  <2>. QED
    BY <2>3, <2>4
<1>6. ASSUME NEW w \in Workers, CommitConflict(w) \/ Abort(w) PROVE TypeInv'
  <2>1. Finish(w) /\ UNCHANGED <<subs, ledger, now, applied>>
    BY <1>6 DEF CommitConflict, Abort
  <2>2. sess' \in [Workers -> Session] /\ SessionsConsistent'
    BY <2>1, FinishTypeStep
  <2>. QED
    BY <1>t, <2>1, <2>2 DEF TypeInv, TypeOK
<1>7. CASE Tick
  BY <1>7, <1>t DEF Tick, TypeInv, TypeOK, SessionsConsistent
<1>8. CASE UNCHANGED vars
  BY <1>8, <1>t DEF vars, TypeInv, TypeOK, SessionsConsistent
<1>. QED
  BY <1>1, <1>2, <1>3, <1>4, <1>5, <1>6, <1>7, <1>8, StepCases

\* The empty table satisfies the inductive type invariant.
LEMMA TypeInvInit == Init => TypeInv
<1>. SUFFICES ASSUME Init PROVE TypeInv
  OBVIOUS
<1>1. \A w \in Workers : sess[w] = IdleSession
  BY DEF Init
<1>2. SessionsConsistent
  BY <1>1, IdleSessionColumns DEF SessionsConsistent
<1>3. TypeOK
  BY <1>1, IdleSessionType DEF Init, TypeOK, NoRows
<1>. QED
  BY <1>2, <1>3 DEF TypeInv

\* The inductive type invariant holds in every reachable state.
LEMMA TypeInvAlways == Spec => []TypeInv
BY TypeInvInit, TypeInvStep, PTL DEF Spec

\* Every variable keeps its type: the sessions flush well-formed rows onto
\* rows that exist, whatever the others committed in between.
THEOREM TypeCorrect == Spec => []TypeOK
<1>1. TypeInv => TypeOK
  BY DEF TypeInv
<1>. QED
  BY <1>1, TypeInvAlways, PTL

-----------------------------------------------------------------------------
(***************************************************************************)
(* One live subscription per tenant.                                       *)
(***************************************************************************)

\* No step breaks uq_live_subscription_per_tenant: only Commit writes the
\* table, and it writes what the index admits.
LEMMA LivePerTenantStep ==
    ASSUME TypeInv, LivePerTenant(subs), [Next]_vars
    PROVE  LivePerTenant(subs')
<1>1. ASSUME NEW w \in Workers, Commit(w) PROVE LivePerTenant(subs')
  BY <1>1 DEF Commit, UniqueIndexes
<1>2. ASSUME subs' = subs PROVE LivePerTenant(subs')
  BY <1>2
<1>3. \/ \E w \in Workers : Commit(w)
      \/ subs' = subs
  BY StepCases, HandlerShape
     DEF Deliver, RecordEvent, MarkProcessed, CommitConflict, Abort, Tick, vars
<1>. QED
  BY <1>1, <1>2, <1>3

\* However the check-then-insert handlers interleave, no tenant holds two live
\* subscriptions.
THEOREM OneLive == Spec => []OneLivePerTenant
<1>1. Init => LivePerTenant(subs)
  BY DEF Init, LivePerTenant, Rows, NoRows
<1>2. TypeInv /\ LivePerTenant(subs) /\ [Next]_vars => LivePerTenant(subs)'
  BY LivePerTenantStep DEF LivePerTenant, Rows, IsLive
<1>3. LivePerTenant(subs) => OneLivePerTenant
  BY DEF LivePerTenant, OneLivePerTenant, IsLive, LIVE_STATUSES
<1>. QED
  BY <1>1, <1>2, <1>3, TypeInvAlways, PTL DEF Spec

-----------------------------------------------------------------------------
(***************************************************************************)
(* The event ledger.                                                       *)
(***************************************************************************)

\* A step of w that leaves the ledger and the history alone, and after which
\* w holds no event that it did not hold before.
LEMMA LedgerQuietStep ==
    ASSUME TypeInv, LedgerInv, NEW w \in Workers, NEW s \in Session,
           sess' = [sess EXCEPT ![w] = s], UNCHANGED <<ledger, applied>>,
           s.pc \in {"idle", "record"} \/ s.ev = None
              \/ (Holds(w) /\ s.ev = sess[w].ev /\ (sess[w].pc = "mark" => s.pc = "mark")),
           s.pc \in {"handle", "mark"} => s.ev # None
    PROVE  LedgerInv'
<1>1. \A v \in Workers : sess'[v] = IF v = w THEN s ELSE sess[v]
  BY DEF TypeInv, TypeOK
<1>2. \A v \in Workers : v # w => (Holds(v)' <=> Holds(v)) /\ sess'[v].ev = sess[v].ev /\ sess'[v].pc = sess[v].pc
  BY <1>1 DEF Holds
<1>3. Holds(w)' => /\ Holds(w) /\ sess'[w].ev = sess[w].ev
                   /\ sess'[w].pc # "mark" => sess[w].pc # "mark"
  BY <1>1 DEF Holds
<1>. QED
  BY <1>2, <1>3 DEF LedgerInv

\* A step that ends a session keeps the ledger invariant.
LEMMA FinishLedgerStep ==
    ASSUME TypeInv, LedgerInv, NEW w \in Workers, Finish(w), UNCHANGED <<ledger, applied>>
    PROVE  LedgerInv'
BY LedgerQuietStep, IdleSessionType, IdleSessionColumns DEF Finish

\* Every step keeps the ledger invariant, one case per action that touches the
\* ledger or the session of an event.
LEMMA LedgerInvStep ==
    ASSUME TypeInv, LedgerInv, [Next]_vars
    PROVE  LedgerInv'
<1>t. TypeOK /\ SessionsConsistent
  BY DEF TypeInv
<1>s. TypeInv'
  BY TypeInvStep
<1>1. ASSUME NEW w \in Workers, Handler(w) PROVE LedgerInv'
  <2>1. UNCHANGED <<ledger, applied>>
    BY <1>1, HandlerShape
  <2>2. CASE Finish(w)
    BY <2>1, <2>2, FinishLedgerStep
  <2>3. ASSUME NEW s, sess' = [sess EXCEPT ![w] = s], s.ev = sess[w].ev,
               \/ sess[w].pc \in {"idle", "handle"} /\ s.pc = "commit"
               \/ sess[w].pc = "handle" /\ s.pc = "mark"
        PROVE  LedgerInv'
    <3>1. s \in Session
      BY <1>s, <1>t, <2>3 DEF TypeInv, TypeOK
    <3>2. sess[w].pc = "idle" => s.ev = None
      BY <1>t, <2>3 DEF SessionsConsistent
    <3>3. sess[w].pc = "handle" => Holds(w) /\ s.ev # None
      BY <1>t, <2>3 DEF SessionsConsistent, Holds
    <3>. QED
      BY <2>1, <2>3, <3>1, <3>2, <3>3, LedgerQuietStep
  <2>4. CASE sess[w].pc = "handle" /\ Goto(w, "mark")
    <3> DEFINE s == [sess[w] EXCEPT !.pc = "mark"]
    <3>1. sess' = [sess EXCEPT ![w] = s]
      BY <2>4 DEF Goto
    <3>2. s.ev = sess[w].ev /\ s.pc = "mark"
      BY <1>t DEF TypeOK, Session
    <3> HIDE DEF s
    <3>. QED
      BY <2>3, <2>4, <3>1, <3>2
  <2>5. CASE sess[w].pc \in {"idle", "handle"} /\ (StagesUpdate(w) \/ StagesInsert(w))
    <3>1. PICK snap, new, ins :
              sess' = [sess EXCEPT ![w] = [pc |-> "commit", ev |-> sess[w].ev,
                                           snap |-> snap, new |-> new, ins |-> ins]]
      BY <2>5 DEF StagesUpdate, Stage, StagesInsert, StageInsert
    <3> DEFINE s == [pc |-> "commit", ev |-> sess[w].ev, snap |-> snap, new |-> new, ins |-> ins]
    <3>2. sess' = [sess EXCEPT ![w] = s] /\ s.ev = sess[w].ev /\ s.pc = "commit"
      BY <3>1
    <3> HIDE DEF s
    <3>. QED
      BY <2>3, <2>5, <3>2
  <2>. QED
    BY <1>1, <2>2, <2>4, <2>5, HandlerShape DEF EndsEvent
<1>2. ASSUME NEW w \in Workers, NEW e \in Events, Deliver(w, e) PROVE LedgerInv'
  <2> DEFINE s == [IdleSession EXCEPT !.pc = "record", !.ev = e]
  <2>1. s \in Session /\ s.pc = "record"
    BY EventSession
  <2>2. sess' = [sess EXCEPT ![w] = s] /\ UNCHANGED <<ledger, applied>>
    BY <1>2 DEF Deliver
  <2> HIDE DEF s
  <2>. QED
    BY <2>1, <2>2, LedgerQuietStep
<1>3. ASSUME NEW w \in Workers, RecordEvent(w) PROVE LedgerInv'
  <2> DEFINE e == sess[w].ev
  <2>1. e \in Events
    BY <1>3, <1>t DEF RecordEvent, SessionsConsistent, TypeOK, Session
  <2>2. CASE ledger[e] # "absent"
    BY <1>3, <2>2, FinishLedgerStep DEF RecordEvent
  <2>3. CASE ledger[e] = "absent"
    <3>1. /\ ledger' = [ledger EXCEPT ![e] = "seen"] /\ UNCHANGED applied
          /\ sess' = [sess EXCEPT ![w].pc = "handle"]
      BY <1>3, <2>3 DEF RecordEvent, Goto
    <3>2. \A v \in Workers : v # w => sess'[v] = sess[v]
      BY <1>t, <3>1 DEF TypeOK
    <3>3. sess'[w].pc = "handle" /\ sess'[w].ev = e
      BY <1>t, <3>1 DEF TypeOK, Session
    <3>4. \A d \in Events : ledger'[d] = IF d = e THEN "seen" ELSE ledger[d]
      BY <1>t, <3>1 DEF TypeOK
    <3>5. \A v \in Workers : Holds(v) => sess[v].ev \in Events /\ sess[v].ev # e
      BY <1>t, <2>3 DEF LedgerInv, Holds, SessionsConsistent, TypeOK, Session
    <3>6. \A v \in Workers : v # w => (Holds(v)' <=> Holds(v))
      BY <3>2 DEF Holds
    <3>7. applied[e] = 0
      BY <2>1, <2>3 DEF LedgerInv
    <3>. QED
      BY <2>1, <3>1, <3>2, <3>3, <3>4, <3>5, <3>6, <3>7 DEF LedgerInv
  <2>. QED
    BY <2>2, <2>3
<1>4. ASSUME NEW w \in Workers, MarkProcessed(w) PROVE LedgerInv'
  <2> DEFINE e == sess[w].ev
  <2>1. Holds(w) /\ e \in Events
    BY <1>4, <1>t DEF MarkProcessed, Holds, SessionsConsistent, TypeOK, Session
  <2>2. /\ \A d \in Events : ledger'[d] = IF d = e THEN "processed" ELSE ledger[d]
        /\ UNCHANGED applied
        /\ \A v \in Workers : sess'[v] = IF v = w THEN IdleSession ELSE sess[v]
    BY <1>4, <1>t DEF MarkProcessed, Finish, TypeOK
  <2>3. ~Holds(w)' /\ \A v \in Workers : v # w => (Holds(v)' <=> Holds(v))
    BY <2>2, IdleSessionColumns DEF Holds
  <2>4. \A v \in Workers : v # w /\ Holds(v) => sess[v].ev \in Events /\ sess[v].ev # e
    BY <1>t, <2>1 DEF LedgerInv, Holds, SessionsConsistent, TypeOK, Session
  <2>. QED
    BY <2>1, <2>2, <2>3, <2>4 DEF LedgerInv
<1>5. ASSUME NEW w \in Workers, Commit(w) PROVE LedgerInv'
  <2>1. CASE sess[w].ev = None
    BY <1>5, <2>1, FinishLedgerStep DEF Commit
  <2>2. CASE sess[w].ev # None
    <3> DEFINE e == sess[w].ev
               s == [IdleSession EXCEPT !.pc = "mark", !.ev = e]
    <3>1. e \in Events /\ Holds(w) /\ sess[w].pc # "mark"
      BY <1>5, <1>t, <2>2 DEF Commit, Holds, TypeOK, Session
    <3>2. s.pc = "mark" /\ s.ev = e
      BY <3>1, EventSession
    <3>3. /\ \A v \in Workers : sess'[v] = IF v = w THEN s ELSE sess[v]
          /\ \A d \in Events : applied'[d] = IF d = e THEN applied[d] + 1 ELSE applied[d]
          /\ UNCHANGED ledger
      BY <1>5, <1>t, <2>2, <3>1 DEF Commit, TypeOK
    <3> HIDE DEF s
    <3>4. Holds(w)' /\ \A v \in Workers : v # w => (Holds(v)' <=> Holds(v))
      BY <3>2, <3>3 DEF Holds
    <3>5. \A v \in Workers : v # w /\ Holds(v) => sess[v].ev \in Events /\ sess[v].ev # e
      BY <1>t, <3>1 DEF LedgerInv, Holds, SessionsConsistent, TypeOK, Session
    <3>6. applied[e] = 0 /\ ledger[e] = "seen"
      BY <3>1 DEF LedgerInv
    <3>. QED
      BY <3>1, <3>2, <3>3, <3>4, <3>5, <3>6 DEF LedgerInv
  <2>. QED
    BY <2>1, <2>2
<1>6. ASSUME NEW w \in Workers, CommitConflict(w) \/ Abort(w) PROVE LedgerInv'
  BY <1>6, FinishLedgerStep DEF CommitConflict, Abort
<1>7. CASE Tick \/ UNCHANGED vars
  BY <1>7 DEF Tick, vars, LedgerInv, Holds
<1>. QED
  BY <1>1, <1>2, <1>3, <1>4, <1>5, <1>6, <1>7, StepCases

\* The ledger invariant holds in every reachable state.
LEMMA LedgerInvAlways == Spec => []LedgerInv
<1>1. Init => LedgerInv
  BY IdleSessionColumns DEF Init, LedgerInv, Holds
<1>. QED
  BY <1>1, LedgerInvStep, TypeInvAlways, PTL DEF Spec

\* However often Stripe delivers an event, and wherever a delivery is cut off,
\* its changes are committed at most once.
THEOREM AppliedOnce == Spec => []EventAppliedOnce
<1>1. LedgerInv => EventAppliedOnce
  BY DEF LedgerInv, EventAppliedOnce
<1>. QED
  BY <1>1, LedgerInvAlways, PTL

\* The ledger's gate: a handler past it owns its event.
THEOREM LedgerGuards == Spec => []LedgerGuardsHandlers
<1>1. TypeInv /\ LedgerInv => LedgerGuardsHandlers
  BY DEF TypeInv, TypeOK, Session, SessionsConsistent, LedgerInv, Holds, LedgerGuardsHandlers
<1>. QED
  BY <1>1, TypeInvAlways, LedgerInvAlways, PTL

-----------------------------------------------------------------------------
(***************************************************************************)
(* The state machine.                                                      *)
(***************************************************************************)

\* Every step keeps the staged changes in order: each handler has made its
\* checks on the row it loaded before it stages a change.
LEMMA StagedStep ==
    ASSUME TypeInv, Staged, [Next]_vars
    PROVE  Staged'
<1>t. TypeOK
  BY DEF TypeInv
<1>a. ASSUME NEW w \in Workers, NEW s, sess' = [sess EXCEPT ![w] = s],
             \A i \in SubIds : s.snap[i] # NoRow => Change(s.snap[i], s.new[i], s.ev),
             s.ins # NoRow => Birth(s.ins, s.ev)
      PROVE  Staged'
  <2>1. \A v \in Workers : sess'[v] = IF v = w THEN s ELSE sess[v]
    BY <1>t, <1>a DEF TypeOK
  <2>. QED
    BY <1>a, <2>1 DEF Staged
<1>b. ASSUME NEW w \in Workers, Finish(w) PROVE Staged'
  <2>1. IdleSession.ins = NoRow
    BY DEF IdleSession
  <2>. QED
    BY <1>a, <1>b, <2>1, IdleSessionColumns DEF Finish
<1>c. ASSUME NEW w \in Workers, NEW pc, Goto(w, pc) PROVE Staged'
  <2> DEFINE s == [sess[w] EXCEPT !.pc = pc]
  <2>1. s.snap = sess[w].snap /\ s.new = sess[w].new /\ s.ins = sess[w].ins /\ s.ev = sess[w].ev
    BY <1>t DEF TypeOK, Session
  <2>2. sess' = [sess EXCEPT ![w] = s]
    BY <1>c DEF Goto
  <2> HIDE DEF s
  <2>. QED
    BY <1>a, <2>1, <2>2 DEF Staged
<1>d. ASSUME NEW w \in Workers, NEW e, NEW pc,
             sess' = [sess EXCEPT ![w] = [IdleSession EXCEPT !.pc = pc, !.ev = e]]
      PROVE  Staged'
  <2> DEFINE s == [IdleSession EXCEPT !.pc = pc, !.ev = e]
  <2>1. s.ins = NoRow /\ \A i \in SubIds : s.snap[i] = NoRow
    BY DEF IdleSession, NoRows
  <2> HIDE DEF s
  <2>2. sess' = [sess EXCEPT ![w] = s]
    BY <1>d DEF s
  <2>. QED
    BY <1>a, <2>1, <2>2
<1>1. ASSUME NEW w \in Workers, Handler(w) PROVE Staged'
  <2>1. CASE StagesUpdate(w)
    <3>1. PICK S \in SUBSET Rows(subs) : \E f \in [S -> Row] :
              Stage(w, S, f) /\ \A i \in S : Change(subs[i], f[i], sess[w].ev)
      BY <2>1 DEF StagesUpdate
    <3>2. PICK f \in [S -> Row] : Stage(w, S, f) /\ \A i \in S : Change(subs[i], f[i], sess[w].ev)
      BY <3>1
    <3> DEFINE s == [pc |-> "commit", ev |-> sess[w].ev,
                     snap |-> [i \in SubIds |-> IF i \in S THEN subs[i] ELSE NoRow],
                     new  |-> [i \in SubIds |-> IF i \in S THEN f[i] ELSE NoRow],
                     ins  |-> NoRow]
    <3>3. \A i \in SubIds : s.snap[i] # NoRow => s.snap[i] = subs[i] /\ s.new[i] = f[i] /\ i \in S
      OBVIOUS
    <3>4. sess' = [sess EXCEPT ![w] = s] /\ s.ins = NoRow /\ s.ev = sess[w].ev
      BY <3>2 DEF Stage
    <3> HIDE DEF s
    <3>5. \A i \in SubIds : s.snap[i] # NoRow => Change(s.snap[i], s.new[i], s.ev)
      BY <3>2, <3>3, <3>4
    <3>. QED
      BY <1>a, <3>4, <3>5
  <2>2. CASE StagesInsert(w)
    <3>1. PICK row \in Row : StageInsert(w, row) /\ Birth(row, sess[w].ev)
      BY <2>2 DEF StagesInsert
    <3> DEFINE s == [pc |-> "commit", ev |-> sess[w].ev,
                     snap |-> NoRows, new |-> NoRows, ins |-> row]
    <3>2. /\ sess' = [sess EXCEPT ![w] = s]
          /\ s.ins = row /\ s.ev = sess[w].ev /\ \A i \in SubIds : s.snap[i] = NoRow
      BY <3>1 DEF StageInsert, NoRows
    <3> HIDE DEF s
    <3>. QED
      BY <1>a, <3>1, <3>2
  <2>3. CASE EndsEvent(w)
    BY <1>b, <1>c, <2>3 DEF EndsEvent
  <2>. QED
    BY <1>1, <2>1, <2>2, <2>3, HandlerShape
<1>2. ASSUME NEW w \in Workers, NEW e \in Events, Deliver(w, e) PROVE Staged'
  BY <1>2, <1>d DEF Deliver
<1>3. ASSUME NEW w \in Workers, RecordEvent(w) \/ MarkProcessed(w) \/ CommitConflict(w) \/ Abort(w)
      PROVE  Staged'
  BY <1>3, <1>b, <1>c DEF RecordEvent, MarkProcessed, CommitConflict, Abort
<1>4. ASSUME NEW w \in Workers, Commit(w) PROVE Staged'
  BY <1>4, <1>b, <1>d DEF Commit
<1>5. CASE Tick \/ UNCHANGED vars
  BY <1>5 DEF Tick, vars, Staged
<1>. QED
  BY <1>1, <1>2, <1>3, <1>4, <1>5, StepCases

\* What a session has staged is a handler's change of what it loaded, in every
\* reachable state.
LEMMA StagedAlways == Spec => []Staged
<1>1. Init => Staged
  <2>1. IdleSession.ins = NoRow
    BY DEF IdleSession
  <2>. QED
    BY <2>1, IdleSessionColumns DEF Init, Staged
<1>2. TypeInv /\ Staged /\ [Next]_vars => Staged'
  BY StagedStep
<1>. QED
  BY <1>1, <1>2, TypeInvAlways, PTL DEF Spec

\* What a commit does to the status of one row.
LEMMA CommittedStatus ==
    ASSUME TypeInv, Staged, NEW w \in Workers, Commit(w), NEW i \in SubIds
    PROVE  \/ subs'[i] = subs[i]
           \/ subs[i] = NoRow /\ subs'[i] \in Row /\ subs'[i].status \in BornStatuses
           \/ /\ subs[i] # NoRow /\ subs'[i] \in Row /\ sess[w].snap[i] # NoRow
              /\ \/ subs'[i].status = subs[i].status
                 \/ CanMove(sess[w].snap[i].status, subs'[i].status)
                 \/ SetsTrial(sess[w].ev) /\ subs'[i].status = "trialing"
<1>w. sess[w] \in Session
  BY DEF TypeInv, TypeOK
<1>1. subs' \in Flushed(w)
  BY DEF Commit
<1>2. CASE sess[w].snap[i] = NoRow
  <2>1. Updated(w)[i] = subs[i]
    BY <1>2 DEF Updated
  <2>2. CASE sess[w].ins = NoRow
    BY <1>1, <2>1, <2>2 DEF Flushed
  <2>3. CASE sess[w].ins # NoRow
    <3>1. PICK j \in SubIds : subs[j] = NoRow /\ subs' = [Updated(w) EXCEPT ![j] = sess[w].ins]
      BY <1>1, <2>3 DEF Flushed
    <3>2. sess[w].ins \in Row /\ sess[w].ins.status \in BornStatuses
      BY <1>w, <2>3 DEF Session, Staged, Birth
    <3>3. subs'[i] = IF i = j THEN sess[w].ins ELSE subs[i]
      BY <2>1, <3>1 DEF Updated
    <3>. QED
      BY <3>1, <3>2, <3>3
  <2>. QED
    BY <2>2, <2>3
<1>3. CASE sess[w].snap[i] # NoRow
  <2>1. /\ subs[i] \in Row /\ subs[i] # NoRow
        /\ sess[w].snap[i] \in Row /\ sess[w].new[i] \in Row
    BY <1>w, <1>3 DEF TypeInv, TypeOK, SessionsConsistent, Session
  <2>2. subs'[i] = Flush(subs[i], sess[w].snap[i], sess[w].new[i])
    <3>1. Updated(w)[i] = Flush(subs[i], sess[w].snap[i], sess[w].new[i])
      BY <1>3 DEF Updated
    <3>2. subs'[i] = Updated(w)[i]
      BY <1>1, <2>1 DEF Flushed, Updated
    <3>. QED
      BY <3>1, <3>2
  <2>3. subs'[i].status = Col(subs[i].status, sess[w].snap[i].status, sess[w].new[i].status)
    BY <2>2 DEF Flush
  <2>4. subs'[i] \in Row
    BY <2>1, <2>2, FlushType
  <2>5. \/ LegalMove(sess[w].snap[i], sess[w].new[i])
        \/ SetsTrial(sess[w].ev) /\ sess[w].new[i].status = "trialing"
    BY <1>3 DEF Staged, Change
  <2>. QED
    BY <1>3, <2>1, <2>3, <2>4, <2>5 DEF Col, LegalMove
<1>. QED
  BY <1>2, <1>3

\* A commit ends the session's wait for it.
LEMMA CommitEnds ==
    ASSUME TypeInv, NEW w \in Workers, Commit(w)
    PROVE  sess[w].pc = "commit" /\ sess'[w].pc # "commit"
<1>1. sess[w].pc = "commit" /\ (\/ sess'[w] = IdleSession
                                \/ sess'[w] = [IdleSession EXCEPT !.pc = "mark", !.ev = sess[w].ev])
  BY DEF Commit, Finish, TypeInv, TypeOK
<1>2. IdleSession.pc # "commit"
  BY DEF IdleSession
<1>3. [IdleSession EXCEPT !.pc = "mark", !.ev = sess[w].ev].pc = "mark"
  BY DEF IdleSession
<1>. QED
  BY <1>1, <1>2, <1>3

\* Only a commit touches the table.
LEMMA OnlyCommitWrites ==
    ASSUME TypeInv, [Next]_vars
    PROVE  subs' = subs \/ \E w \in Workers : Commit(w)
BY StepCases, HandlerShape
   DEF Deliver, RecordEvent, MarkProcessed, CommitConflict, Abort, Tick, vars

\* Every status change outside ALLOWED_TRANSITIONS is a stale write, for which
\* assert_transition was passed with a status the row no longer had, or the trial
\* that a synchronisation assigns unchecked: for any payloads of any events.
THEOREM IllegalOnlyIfStale == Spec => LegalUnlessStale
<1> DEFINE Step == \A i \in SubIds :
                      (subs[i] # NoRow /\ subs'[i].status # subs[i].status) =>
                          \/ CanMove(subs[i].status, subs'[i].status)
                          \/ \E w \in Workers :
                                /\ Commits(w, i)
                                /\ \/ sess[w].snap[i].status # subs[i].status
                                   \/ SetsTrial(sess[w].ev) /\ subs'[i].status = "trialing"
<1>1. ASSUME TypeInv, Staged, [Next]_vars PROVE Step
  <2>1. CASE subs' = subs
    BY <2>1
  <2>2. ASSUME NEW w \in Workers, Commit(w) PROVE Step
    <3>1. SUFFICES ASSUME NEW i \in SubIds, subs[i] # NoRow, subs'[i].status # subs[i].status
                   PROVE  \/ CanMove(subs[i].status, subs'[i].status)
                          \/ /\ Commits(w, i)
                             /\ \/ sess[w].snap[i].status # subs[i].status
                                \/ SetsTrial(sess[w].ev) /\ subs'[i].status = "trialing"
      OBVIOUS
    <3>2. sess[w].pc = "commit" /\ sess'[w].pc # "commit"
      BY <1>1, <2>2, CommitEnds
    <3>3. /\ sess[w].snap[i] # NoRow
          /\ \/ CanMove(sess[w].snap[i].status, subs'[i].status)
             \/ SetsTrial(sess[w].ev) /\ subs'[i].status = "trialing"
      BY <1>1, <2>2, <3>1, CommittedStatus
    <3>. QED
      BY <3>2, <3>3 DEF Commits
  <2>. QED
    BY <1>1, <2>1, <2>2, OnlyCommitWrites
<1>2. TypeInv /\ Staged /\ [Next]_vars => [Step]_vars
  BY <1>1
<1>3. (Spec => LegalUnlessStale) <=> (Spec => [][Step]_vars)
  BY DEF LegalUnlessStale
<1>. QED
  BY <1>2, <1>3, TypeInvAlways, StagedAlways, PTL DEF Spec

-----------------------------------------------------------------------------
(***************************************************************************)
(* One session at a time: the documented machine is implemented.           *)
(***************************************************************************)

\* The loaded rows are the table's: nobody committed since.
Fresh ==
    \A w \in Workers : \A i \in SubIds :
        sess[w].snap[i] # NoRow => sess[w].snap[i] = subs[i]

\* A step loads a row as it is, keeps what was loaded, or drops it; a commit
\* drops it.
LEMMA SnapStep ==
    ASSUME TypeInv, [Next]_vars, NEW w \in Workers, NEW i \in SubIds
    PROVE  /\ sess'[w].snap[i] \in {NoRow, sess[w].snap[i], subs[i]}
           /\ Commit(w) => sess'[w].snap[i] = NoRow
<1>t. TypeOK
  BY DEF TypeInv
<1>i. \A e, pc : [IdleSession EXCEPT !.pc = pc, !.ev = e].snap[i] = NoRow
  BY DEF IdleSession, NoRows
<1>f. ASSUME NEW v \in Workers, Finish(v)
      PROVE  sess'[w].snap[i] \in {NoRow, sess[w].snap[i]} /\ (v = w => sess'[w].snap[i] = NoRow)
  BY <1>f, <1>t, IdleSessionColumns DEF Finish, TypeOK
<1>g. ASSUME NEW v \in Workers, NEW pc, Goto(v, pc)
      PROVE  sess'[w].snap[i] = sess[w].snap[i]
  BY <1>g, <1>t DEF Goto, TypeOK, Session
<1>e. ASSUME NEW v \in Workers, NEW e, NEW pc,
             sess' = [sess EXCEPT ![v] = [IdleSession EXCEPT !.pc = pc, !.ev = e]]
      PROVE  sess'[w].snap[i] \in {NoRow, sess[w].snap[i]} /\ (v = w => sess'[w].snap[i] = NoRow)
  BY <1>e, <1>i, <1>t DEF TypeOK
<1>1. ASSUME NEW v \in Workers, Handler(v)
      PROVE  sess'[w].snap[i] \in {NoRow, sess[w].snap[i], subs[i]}
  <2>1. CASE StagesUpdate(v)
    <3>1. PICK S \in SUBSET Rows(subs) : \E f \in [S -> Row] : Stage(v, S, f)
      BY <2>1 DEF StagesUpdate
    <3>. QED
      BY <1>t, <3>1 DEF Stage, TypeOK
  <2>2. CASE StagesInsert(v)
    BY <1>t, <2>2 DEF StagesInsert, StageInsert, NoRows, TypeOK
  <2>3. CASE EndsEvent(v)
    BY <1>f, <1>g, <2>3 DEF EndsEvent
  <2>. QED
    BY <1>1, <2>1, <2>2, <2>3, HandlerShape
<1>2. ASSUME NEW v \in Workers, Commit(v)
      PROVE  sess'[w].snap[i] \in {NoRow, sess[w].snap[i]} /\ (v = w => sess'[w].snap[i] = NoRow)
  BY <1>2, <1>e, <1>f DEF Commit
<1>3. ASSUME NEW v \in Workers, NEW e \in Events, Deliver(v, e)
      PROVE  sess'[w].snap[i] \in {NoRow, sess[w].snap[i]}
  BY <1>3, <1>e DEF Deliver
<1>4. ASSUME NEW v \in Workers, RecordEvent(v) \/ MarkProcessed(v) \/ CommitConflict(v) \/ Abort(v)
      PROVE  sess'[w].snap[i] \in {NoRow, sess[w].snap[i]}
  BY <1>4, <1>f, <1>g DEF RecordEvent, MarkProcessed, CommitConflict, Abort
<1>5. ASSUME Tick \/ UNCHANGED vars
      PROVE  sess'[w].snap[i] = sess[w].snap[i]
  BY <1>5 DEF Tick, vars
<1>6. Commit(w) => sess'[w].snap[i] = NoRow
  BY <1>2
<1>. QED
  BY <1>1, <1>2, <1>3, <1>4, <1>5, <1>6, StepCases

\* With one session, what it loaded is what the table holds, in every reachable
\* state.
LEMMA FreshAlways ==
    ASSUME \A v, w \in Workers : v = w
    PROVE  Spec => []Fresh
<1>1. Init => Fresh
  BY IdleSessionColumns DEF Init, Fresh
<1>2. ASSUME TypeInv, Fresh, [Next]_vars PROVE Fresh'
  <2>1. CASE subs' = subs
    BY <1>2, <2>1, SnapStep DEF Fresh
  <2>2. ASSUME NEW w \in Workers, Commit(w) PROVE Fresh'
    BY <1>2, <2>2, SnapStep DEF Fresh
  <2>. QED
    BY <1>2, <2>1, <2>2, OnlyCommitWrites
<1>. QED
  BY <1>1, <1>2, TypeInvAlways, PTL DEF Spec

\* A deployment with a single worker implements the documented state machine,
\* overruled only while it commits a trial that Stripe reports: all the other
\* violations need two sessions.
THEOREM SerialImplementsMachine ==
    ASSUME \A v, w \in Workers : v = w
    PROVE  Spec => ImplementsMachine
<1> DEFINE st == [i \in SubIds |-> IF subs[i] = NoRow THEN "none" ELSE subs[i].status]
           ov == \E w \in Workers : sess[w].pc = "commit" /\ SetsTrial(sess[w].ev)
<1>1. Init => Machine!Init
  <2>1. Init => ~ov
    BY IdleSessionColumns DEF Init
  <2>. QED
    BY <2>1 DEF Init, NoRows, Machine!Init
<1>2. ASSUME TypeInv, TypeInv', Staged, Fresh, [Next]_vars
      PROVE  Machine!Next
  <2>b. ov' \in BOOLEAN
    OBVIOUS
  <2>1. CASE subs' = subs
    BY <2>b, <2>1 DEF Machine!Next
  <2>2. ASSUME NEW w \in Workers, Commit(w) PROVE Machine!Next
    <3>1. ASSUME NEW i \in SubIds
          PROVE  st'[i] = st[i] \/ Machine!Born(i) \/ Machine!Moves(i) \/ Machine!Overrules(i)
      <4>1. CASE subs'[i] = subs[i]
        BY <4>1
      <4>2. CASE subs[i] = NoRow /\ subs'[i] \in Row /\ subs'[i].status \in BornStatuses
        BY <4>2, NoRowIsNotARow DEF Machine!Born, BornStatuses
      <4>3. CASE subs[i] # NoRow /\ subs'[i] \in Row /\ subs'[i].status = subs[i].status
        BY <4>3, NoRowIsNotARow
      <4>4. CASE /\ subs[i] # NoRow /\ subs'[i] \in Row /\ sess[w].snap[i] # NoRow
                 /\ CanMove(sess[w].snap[i].status, subs'[i].status)
        <5>1. CanMove(subs[i].status, subs'[i].status) /\ subs[i].status \in SubscriptionStatus
          BY <1>2, <4>4, Columns DEF Fresh, TypeInv, TypeOK
        <5>2. <<subs[i].status, subs'[i].status>> \in Machine!Documented
          BY <5>1 DEF CanMove, ALLOWED_TRANSITIONS, SubscriptionStatus, Machine!Documented
        <5>3. st[i] = subs[i].status /\ st'[i] = subs'[i].status
          BY <4>4, NoRowIsNotARow
        <5>. QED
          BY <5>2, <5>3 DEF Machine!Moves
      <4>5. CASE /\ subs[i] # NoRow /\ subs'[i] \in Row
                 /\ SetsTrial(sess[w].ev) /\ subs'[i].status = "trialing"
        <5>1. ov
          BY <2>2, <4>5 DEF Commit
        <5>2. subs[i].status # "none"
          BY <1>2, <4>5, Columns DEF TypeInv, TypeOK, SubscriptionStatus
        <5>3. st[i] = subs[i].status /\ st'[i] = subs'[i].status
          BY <4>5, NoRowIsNotARow
        <5>. QED
          BY <4>5, <5>1, <5>2, <5>3 DEF Machine!Overrules
      <4>. QED
        BY <1>2, <2>2, <4>1, <4>2, <4>3, <4>4, <4>5, CommittedStatus
    <3>. QED
      BY <2>b, <3>1 DEF Machine!Next
  <2>. QED
    BY <1>2, <2>1, <2>2, OnlyCommitWrites
<1>. QED
  BY <1>1, <1>2, TypeInvAlways, StagedAlways, FreshAlways, PTL
     DEF Spec, ImplementsMachine, Machine!Spec

-----------------------------------------------------------------------------
(***************************************************************************)
(* One session at a time: the columns beside the status.                   *)
(***************************************************************************)

\* Onto the row that was loaded, an UPDATE of the changed columns writes the
\* computed row.
LEMMA FlushFresh ==
    ASSUME NEW r \in Row, NEW n \in Row
    PROVE  Flush(r, r, n) = n
BY DEF Flush, Col, Row

\* What a commit makes of a slot when nobody committed since the load.
LEMMA CommittedFresh ==
    ASSUME TypeInv, Staged, Fresh, NEW w \in Workers, Commit(w), NEW i \in SubIds
    PROVE  \/ subs'[i] = subs[i]
           \/ subs[i] = NoRow /\ Birth(subs'[i], sess[w].ev)
           \/ /\ subs[i] # NoRow /\ Change(subs[i], subs'[i], sess[w].ev)
              /\ sess[w].snap[i] = subs[i] /\ sess[w].new[i] = subs'[i]
<1>w. sess[w] \in Session
  BY DEF TypeInv, TypeOK
<1>1. subs' \in Flushed(w)
  BY DEF Commit
<1>2. CASE sess[w].snap[i] = NoRow
  <2>1. Updated(w)[i] = subs[i]
    BY <1>2 DEF Updated
  <2>2. CASE sess[w].ins = NoRow
    BY <1>1, <2>1, <2>2 DEF Flushed
  <2>3. CASE sess[w].ins # NoRow
    <3>1. PICK j \in SubIds : subs[j] = NoRow /\ subs' = [Updated(w) EXCEPT ![j] = sess[w].ins]
      BY <1>1, <2>3 DEF Flushed
    <3>2. Birth(sess[w].ins, sess[w].ev)
      BY <2>3 DEF Staged
    <3>3. subs'[i] = IF i = j THEN sess[w].ins ELSE subs[i]
      BY <2>1, <3>1 DEF Updated
    <3>. QED
      BY <3>1, <3>2, <3>3
  <2>. QED
    BY <2>2, <2>3
<1>3. CASE sess[w].snap[i] # NoRow
  <2>1. /\ subs[i] \in Row /\ subs[i] # NoRow
        /\ sess[w].snap[i] = subs[i] /\ sess[w].new[i] \in Row
    BY <1>w, <1>3 DEF TypeInv, TypeOK, SessionsConsistent, Session, Fresh
  <2>2. subs'[i] = Updated(w)[i]
    BY <1>1, <2>1 DEF Flushed, Updated
  <2>3. Updated(w)[i] = Flush(subs[i], sess[w].snap[i], sess[w].new[i])
    BY <1>3 DEF Updated
  <2>4. Change(subs[i], sess[w].new[i], sess[w].ev)
    BY <1>3, <2>1 DEF Staged
  <2>. QED
    BY <2>1, <2>2, <2>3, <2>4, FlushFresh
<1>. QED
  BY <1>2, <1>3

\* The ledger forgets no event.
LEMMA LedgerGrows ==
    ASSUME TypeInv, [Next]_vars, NEW e \in Events, ledger[e] # "absent"
    PROVE  ledger'[e] # "absent"
<1>1. ledger \in [Events -> {"absent", "seen", "processed"}]
  BY DEF TypeInv, TypeOK
<1>2. ledger' = ledger \/ \E d, s : ledger' = [ledger EXCEPT ![d] = s] /\ s \in {"seen", "processed"}
  BY StepCases, HandlerShape
     DEF Deliver, RecordEvent, MarkProcessed, Commit, CommitConflict, Abort, Tick, vars
<1>. QED
  BY <1>1, <1>2

\* With a single worker, and until Stripe reports a trial to synchronise or the
\* checkout of a canceled subscription, the dunning columns and the stamps always
\* agree with the status, whatever the administrator's forms write.
THEOREM SerialBookkeeping ==
    ASSUME \A v, w \in Workers : v = w
    PROVE  Spec => []BookkeepingMatchesStatus
<1> DEFINE Inv == Orderly => \A i \in SubIds : subs[i] # NoRow => Books(subs[i])
<1>1. Init => Inv
  BY DEF Init, NoRows
<1>2. ASSUME TypeInv, LedgerInv, Staged, Fresh, Inv, [Next]_vars PROVE Inv'
  <2>0. SUFFICES ASSUME Orderly', NEW i \in SubIds, subs'[i] # NoRow PROVE Books(subs'[i])
    OBVIOUS
  <2>1. Orderly
    BY <1>2, <2>0, LedgerGrows DEF Orderly, SetsTrial, BornDead, StatusFromStripe
  <2>2. CASE subs' = subs
    BY <1>2, <2>0, <2>1, <2>2
  <2>3. ASSUME NEW w \in Workers, Commit(w) PROVE Books(subs'[i])
    <3>1. ~SetsTrial(sess[w].ev) /\ ~BornDead(sess[w].ev)
      <4>1. CASE sess[w].ev = None
        BY <4>1 DEF SetsTrial, BornDead
      <4>2. CASE sess[w].ev # None
        <5>1. sess[w].ev \in Events /\ Holds(w)
          BY <1>2, <2>3, <4>2 DEF TypeInv, TypeOK, Session, Commit, Holds
        <5>2. ledger[sess[w].ev] # "absent"
          BY <1>2, <5>1 DEF LedgerInv
        <5>. QED
          BY <2>1, <5>1, <5>2 DEF Orderly
      <4>. QED
        BY <4>1, <4>2
    <3>. QED
      BY <1>2, <2>0, <2>1, <2>3, <3>1, CommittedFresh DEF Birth, Change
  <2>. QED
    BY <1>2, <2>2, <2>3, OnlyCommitWrites
<1>3. Inv => BookkeepingMatchesStatus
  BY DEF BookkeepingMatchesStatus, Rows, Books
<1> HIDE DEF Inv
<1>. QED
  BY <1>1, <1>2, <1>3, TypeInvAlways, LedgerInvAlways, StagedAlways, FreshAlways, PTL DEF Spec

\* With a single worker the Stripe id of a linked row is changed by nobody but an
\* administrator whose form names another one, whatever Stripe sends.
THEOREM SerialLinkKept ==
    ASSUME \A v, w \in Workers : v = w
    PROVE  Spec => StripeLinkKept
<1> DEFINE Step == \A i \in SubIds :
                      (subs[i] # NoRow /\ subs[i].stripe # None /\ subs'[i].stripe # subs[i].stripe) =>
                          \E w \in Workers :
                             /\ Commits(w, i) /\ sess[w].ev = None
                             /\ sess[w].new[i].stripe \in StripeIds \ {sess[w].snap[i].stripe}
<1>1. ASSUME TypeInv, TypeInv', Staged, Fresh, [Next]_vars PROVE Step
  <2>1. CASE subs' = subs
    BY <2>1
  <2>2. ASSUME NEW w \in Workers, Commit(w) PROVE Step
    <3>1. SUFFICES ASSUME NEW i \in SubIds, subs[i] # NoRow, subs[i].stripe # None,
                          subs'[i].stripe # subs[i].stripe
                   PROVE  /\ Commits(w, i) /\ sess[w].ev = None
                          /\ sess[w].new[i].stripe \in StripeIds \ {sess[w].snap[i].stripe}
      OBVIOUS
    <3>2. /\ Change(subs[i], subs'[i], sess[w].ev)
          /\ sess[w].snap[i] = subs[i] /\ sess[w].new[i] = subs'[i]
      BY <1>1, <2>2, <3>1, CommittedFresh
    <3>3. sess[w].ev = None
      BY <3>1, <3>2 DEF Change, KeepsLink
    <3>4. subs'[i].stripe \in StripeIds
      <4>1. subs'[i] \in Row
        BY <1>1, <2>2, <3>1, FlushedType DEF Commit
      <4>2. subs'[i].stripe # None
        BY <3>1, <3>2 DEF Change
      <4>. QED
        BY <4>1, <4>2 DEF Row
    <3>. QED
      BY <1>1, <2>2, <3>1, <3>2, <3>3, <3>4, CommitEnds DEF Commits
  <2>. QED
    BY <1>1, <2>1, <2>2, OnlyCommitWrites
<1>2. TypeInv /\ TypeInv' /\ Staged /\ Fresh /\ [Next]_vars => [Step]_vars
  BY <1>1
<1>3. (Spec => StripeLinkKept) <=> (Spec => [][Step]_vars)
  BY DEF StripeLinkKept
<1>. QED
  BY <1>2, <1>3, TypeInvAlways, StagedAlways, FreshAlways, PTL DEF Spec

-----------------------------------------------------------------------------
(***************************************************************************)
(* The money of an upgrade.                                                *)
(***************************************************************************)

\* Python's round is within a half of the quotient.
LEMMA RoundBounds ==
    ASSUME NEW num \in Nat, NEW den \in Nat \ {0}
    PROVE  /\ Round(num, den) \in Nat
           /\ 2 * (den * Round(num, den)) <= 2 * num + den
           /\ 2 * num <= 2 * (den * Round(num, den)) + den
<1> DEFINE q == num \div den
           m == num % den
<1>1. q \in Nat /\ m \in 0..(den - 1) /\ num = den * q + m
  OBVIOUS
<1>2. Round(num, den) \in {q, q + 1}
  BY DEF Round
<1>3. /\ Round(num, den) = q => 2 * m <= den
      /\ Round(num, den) = q + 1 => 2 * m >= den
  <2>1. Round(num, den) = IF 2 * m > den \/ (2 * m = den /\ q % 2 = 1) THEN q + 1 ELSE q
    BY DEF Round
  <2> HIDE DEF q, m
  <2>. QED
    BY <1>1, <2>1
<1> HIDE DEF q, m
<1>4. CASE Round(num, den) = q
  BY <1>1, <1>3, <1>4
<1>5. CASE Round(num, den) = q + 1
  <2>1. den * (q + 1) = den * q + den
    BY <1>1
  <2>. QED
    BY <1>1, <1>3, <1>5, <2>1
<1>. QED
  BY <1>2, <1>4, <1>5

\* Scaling a natural by a larger factor; factors and multiples are ordered.
LEMMA Products ==
    /\ \A a, b, c \in Nat : a <= b => c * a <= c * b /\ a * c <= b * c
    /\ \A a, b \in Int, c \in Nat \ {0} : c * a < c * b => a < b
<1>1. ASSUME NEW a \in Nat, NEW b \in Nat, NEW c \in Nat, a <= b PROVE c * a <= c * b /\ a * c <= b * c
  <2>1. PICK k \in Nat : b = a + k
    <3>1. b - a \in Nat /\ b = a + (b - a)
      BY <1>1
    <3>. QED
      BY <3>1
  <2>2. c * b = c * a + c * k /\ b * c = a * c + k * c /\ c * k \in Nat /\ k * c \in Nat
    BY <1>1, <2>1
  <2>. QED
    BY <2>2
<1>2. ASSUME NEW a \in Int, NEW b \in Int, NEW c \in Nat \ {0}, c * a < c * b PROVE a < b
  <2>1. ASSUME b <= a PROVE FALSE
    <3>1. a - b \in Nat /\ c * a = c * b + c * (a - b) /\ c * (a - b) \in Nat
      BY <1>2, <2>1
    <3>. QED
      BY <1>2, <3>1
  <2>. QED
    BY <2>1
<1>. QED
  BY <1>1, <1>2

\* What remains of a price is within the price, and two prices differ, after
\* rounding each by itself, by no more than before.
LEMMA ProratedBounds ==
    ASSUME NEW low \in Nat, NEW high \in Nat, low < high,
           NEW n \in Nat, NEW d \in Nat \ {0}, n <= d
    PROVE  /\ Round(low * n, d) \in 0..low
           /\ Round(high * n, d) - Round(low * n, d) \in 0..(high - low)
<1> DEFINE r == Round(low * n, d)
           R == Round(high * n, d)
           k == high - low
<1>1. low * n \in Nat /\ high * n \in Nat /\ k \in Nat \ {0} /\ k * n \in Nat
  OBVIOUS
<1>2. high * n = low * n + k * n
  OBVIOUS
<1>3. r \in Nat /\ 2 * (d * r) <= 2 * (low * n) + d /\ 2 * (low * n) <= 2 * (d * r) + d
  BY <1>1, RoundBounds
<1>4. R \in Nat /\ 2 * (d * R) <= 2 * (high * n) + d /\ 2 * (high * n) <= 2 * (d * R) + d
  BY <1>1, RoundBounds
<1>5. low * n <= d * low /\ k * n <= d * k
  <2>1. low * n <= low * d /\ k * n <= k * d
    BY <1>1, Products
  <2>. QED
    BY <1>1, <2>1
<1>6. d * r \in Nat /\ d * R \in Nat /\ d * low \in Nat /\ d * k \in Nat
  BY <1>1, <1>3, <1>4
<1>7. n = 0 => low * n = 0 /\ k * n = 0
  BY <1>1
<1>8. n = d => low * n = d * low /\ k * n = d * k
  BY <1>1
<1>9. n \notin {0, d} => 0 < k * n /\ k * n < d * k
  <2> SUFFICES ASSUME n \notin {0, d} PROVE 0 < k * n /\ k * n < d * k
    OBVIOUS
  <2>1. d - n \in Nat \ {0} /\ n \in Nat \ {0}
    OBVIOUS
  <2>2. k * (d - n) > 0 /\ k * n > 0 /\ k * (d - n) = d * k - k * n
    BY <1>1, <2>1
  <2>. QED
    BY <1>1, <1>6, <2>2
<1> HIDE DEF r, R, k
<1>10. r <= low
  <2>1. d * r < d * (low + 1)
    <3>1. d * (low + 1) = d * low + d
      OBVIOUS
    <3>. QED
      BY <1>1, <1>3, <1>5, <1>6, <3>1
  <2>2. r < low + 1
    BY <1>3, <2>1, Products
  <2>. QED
    BY <1>3, <2>2
<1>11. CASE n \notin {0, d}
  <2>1. d * r < d * (R + 1)
    <3>1. d * (R + 1) = d * R + d
      BY <1>4
    <3>. QED
      BY <1>1, <1>2, <1>3, <1>4, <1>6, <1>9, <1>11, <3>1
  <2>2. d * R < d * (r + k + 1)
    <3>1. d * (r + k + 1) = d * r + d * k + d
      BY <1>1, <1>3
    <3>. QED
      BY <1>1, <1>2, <1>3, <1>4, <1>6, <1>9, <1>11, <3>1
  <2>3. r < R + 1 /\ R < r + k + 1
    BY <1>1, <1>3, <1>4, <2>1, <2>2, Products
  <2>. QED
    BY <1>1, <1>3, <1>4, <1>10, <2>3 DEF r, R, k
<1>12. CASE n = 0
  <2>1. d * r < d * 1 /\ d * R < d * 1
    BY <1>1, <1>2, <1>3, <1>4, <1>6, <1>7, <1>12
  <2>2. r < 1 /\ R < 1
    BY <1>3, <1>4, <2>1, Products
  <2>. QED
    BY <1>1, <1>3, <1>4, <1>10, <2>2 DEF r, R, k
<1>13. CASE n = d
  <2>1. d * r < d * (low + 1) /\ d * low < d * (r + 1)
    <3>1. d * (low + 1) = d * low + d /\ d * (r + 1) = d * r + d
      BY <1>3
    <3>. QED
      BY <1>1, <1>3, <1>6, <1>8, <1>13, <3>1
  <2>2. d * R < d * (low + k + 1) /\ d * (low + k) < d * (R + 1)
    <3>1. d * (low + k + 1) = d * low + d * k + d /\ d * (R + 1) = d * R + d
          /\ d * (low + k) = d * low + d * k
      BY <1>1, <1>4
    <3>. QED
      BY <1>1, <1>2, <1>4, <1>6, <1>8, <1>13, <3>1
  <2>3. r = low /\ R = low + k
    <3>1. r < low + 1 /\ low < r + 1
      BY <1>3, <2>1, Products
    <3>2. R < low + k + 1 /\ low + k < R + 1
      BY <1>1, <1>4, <2>2, Products
    <3>. QED
      BY <1>1, <1>3, <1>4, <3>1, <3>2
  <2>. QED
    BY <1>1, <2>3 DEF r, R, k
<1>. QED
  BY <1>11, <1>12, <1>13

\* fraction_remaining is a fraction of the period, between 0 and 1.
LEMMA FractionBounds ==
    ASSUME now \in Nat, NEW start \in Nat, NEW end \in Nat
    PROVE  LET f == FractionRemaining(start, end)
           IN  f.num \in Nat /\ f.den \in Nat \ {0} /\ f.num <= f.den
<1>1. CASE end <= start
  BY <1>1 DEF FractionRemaining
<1>2. CASE end > start
  <2>1. end - start \in Nat \ {0}
    BY <1>2
  <2>2. Clamp(end - now, 0, end - start) \in 0..(end - start)
    BY <2>1 DEF Clamp
  <2>3. FractionRemaining(start, end) = [num |-> Clamp(end - now, 0, end - start), den |-> end - start]
    BY <1>2 DEF FractionRemaining
  <2>. QED
    BY <2>1, <2>2, <2>3
<1>. QED
  BY <1>1, <1>2

\* The preview of every upgrade is sound, for any prices, periods and clock and
\* any number of workers: the credit is within the old price, and the tenant
\* pays between nothing and the difference of the prices.
THEOREM UpgradeIsFair == Spec => []UpgradePaysItsDifference
<1>1. ASSUME TypeOK, NEW t \in Tenants, NEW p \in ActivePlans, NEW i \in LiveSub(t),
             PlanChange(subs[i], p).effective = "immediate"
      PROVE  /\ PlanChange(subs[i], p).preview.credit \in 0..Price[subs[i].plan]
             /\ PlanChange(subs[i], p).preview.net \in 0..(Price[p] - Price[subs[i].plan])
  <2> DEFINE row == subs[i]
             f == FractionRemaining(row.start, row.end)
  <2>1. row \in Row
    BY <1>1, LiveSubType
  <2>2. row.plan \in Plans /\ row.start \in Nat /\ row.end \in Nat /\ now \in Nat
    BY <1>1, <2>1 DEF Row, TypeOK
  <2>3. Price[row.plan] \in Nat /\ Price[p] \in Nat
    BY <2>2, CatalogAssumption
  <2>4. Price[row.plan] < Price[p]
    BY <1>1, <2>3 DEF PlanChange
  <2>5. f.num \in Nat /\ f.den \in Nat \ {0} /\ f.num <= f.den
    BY <2>2, FractionBounds
  <2>6. /\ Round(Price[row.plan] * f.num, f.den) \in 0..Price[row.plan]
        /\ Round(Price[p] * f.num, f.den) - Round(Price[row.plan] * f.num, f.den)
              \in 0..(Price[p] - Price[row.plan])
    BY <2>3, <2>4, <2>5, ProratedBounds
  <2>7. /\ PlanChange(row, p).preview.credit = UnusedCredit(row)
        /\ PlanChange(row, p).preview.net = ProratedCharge(p, row) - UnusedCredit(row)
    BY <2>3, <2>4 DEF PlanChange, Preview
  <2>. QED
    BY <2>6, <2>7 DEF UnusedCredit, ProratedCharge, Prorated
<1>2. TypeOK => UpgradePaysItsDifference
  BY <1>1 DEF UpgradePaysItsDifference
<1>. QED
  BY <1>2, TypeCorrect, PTL
=============================================================================
