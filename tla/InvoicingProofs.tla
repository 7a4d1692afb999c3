-------------------------- MODULE InvoicingProofs --------------------------
(***************************************************************************)
(* Theorems about Invoicing, for any number of subscriptions, workers,     *)
(* invoices, ticks and aborted sessions.                                   *)
(***************************************************************************)
EXTENDS Invoicing, TLAPS

-----------------------------------------------------------------------------
(***************************************************************************)
(* The inductive invariants.                                               *)
(***************************************************************************)

\* A session that generates has a period; one that moves an invoice has an
\* invoice that is in table t, and goes along the machine from what it loaded.
Consistent(se, t) ==
    /\ se.pc \in {"check", "insert"} => se.cur # NoPeriod
    /\ se.pc \in {"refresh", "commit"} => se.inv \in InvIds /\ t[se.inv] # NoInvoice
    /\ se.pc = "commit" => CanMoveInvoice(se.loaded, se.target)

TypeInv == TypeOK /\ \A w \in Workers : Consistent(sess[w], invoices)

\* A session that is about to record a payment loaded an open invoice, and
\* issued_at is never cleared.
PaymentInv ==
    /\ PaidWasIssued
    /\ \A w \in Workers :
          sess[w].pc = "commit" /\ sess[w].loaded = "open" => invoices[sess[w].inv].issuedAt

-----------------------------------------------------------------------------
(***************************************************************************)
(* Types of the records.                                                   *)
(***************************************************************************)

\* Assigning a value of its type to a field leaves a session a session.
LEMMA SessionColumns ==
    \A se \in Session :
        /\ \A v \in {"idle", "next", "check", "insert", "refresh", "commit"} :
              [se EXCEPT !.pc = v] \in Session
        /\ \A v \in SUBSET Period : [se EXCEPT !.todo = v] \in Session
        /\ \A v \in Period \cup {NoPeriod} : [se EXCEPT !.cur = v] \in Session
        /\ \A v \in InvIds \cup {0} : [se EXCEPT !.inv = v] \in Session
        /\ \A v \in InvoiceStatus : [se EXCEPT !.loaded = v] \in Session
        /\ \A v \in InvoiceStatus : [se EXCEPT !.target = v] \in Session
        /\ \A v \in BOOLEAN : [se EXCEPT !.recover = v] \in Session
BY DEF Session

\* The idle session is a session, and consistent with every table.
LEMMA IdleSessionType == IdleSession \in Session /\ \A t : Consistent(IdleSession, t)
BY DEF IdleSession, Session, Consistent, InvoiceStatus

\* The absent markers are no rows.
LEMMA AbsentIsNoRow == NoInvoice \notin Invoice /\ NoPeriod \notin Period
<1>1. ASSUME NoInvoice \in Invoice PROVE FALSE
  <2>1. DOMAIN NoInvoice = {"absent"}
    BY DEF NoInvoice
  <2>2. DOMAIN NoInvoice = {"period", "status", "issuedAt", "paidAt"}
    BY <1>1 DEF Invoice
  <2>. QED
    BY <2>1, <2>2
<1>2. ASSUME NoPeriod \in Period PROVE FALSE
  <2>1. DOMAIN NoPeriod = {"absent"}
    BY DEF NoPeriod
  <2>2. DOMAIN NoPeriod = {"sub", "start", "end"}
    BY <1>2 DEF Period
  <2>. QED
    BY <2>1, <2>2
<1>. QED
  BY <1>1, <1>2

\* The UPDATE leaves an invoice an invoice.
LEMMA MovedRowType ==
    ASSUME NEW row \in Invoice, NEW t \in InvoiceStatus
    PROVE  MovedRow(row, t) \in Invoice
BY DEF MovedRow, Invoice

\* Replacing one session by a consistent one, while no invoice disappears,
\* keeps all sessions typed and consistent.
LEMMA SessionStep ==
    ASSUME TypeInv, NEW w \in Workers, NEW se \in Session,
           sess' = [sess EXCEPT ![w] = se],
           \A i \in InvIds : invoices[i] # NoInvoice => invoices'[i] # NoInvoice,
           Consistent(se, invoices')
    PROVE  /\ sess' \in [Workers -> Session]
           /\ \A v \in Workers : Consistent(sess'[v], invoices')
<1>1. sess \in [Workers -> Session]
  BY DEF TypeInv, TypeOK
<1>2. ASSUME NEW v \in Workers PROVE Consistent(sess'[v], invoices')
  <2>1. CASE v = w
    BY <1>1, <2>1
  <2>2. CASE v # w
    <3>1. sess'[v] = sess[v] /\ Consistent(sess[v], invoices)
      BY <1>1, <2>2 DEF TypeInv
    <3>. QED
      BY <3>1 DEF Consistent
  <2>. QED
    BY <2>1, <2>2
<1>. QED
  BY <1>1, <1>2

\* The same for a session that ends, or a sweep that goes on.
LEMMA FinishStep ==
    ASSUME TypeInv, NEW w \in Workers, Finish(w) \/ Continue(w),
           \A i \in InvIds : invoices[i] # NoInvoice => invoices'[i] # NoInvoice
    PROVE  /\ sess' \in [Workers -> Session]
           /\ \A v \in Workers : Consistent(sess'[v], invoices')
<1>1. CASE Finish(w)
  BY <1>1, SessionStep, IdleSessionType DEF Finish
<1>2. CASE w \in CeleryWorkers /\ Continue(w)
  <2> DEFINE se == [IdleSession EXCEPT !.pc = "next", !.todo = sess[w].todo]
  <2>1. sess[w].todo \in SUBSET Period
    BY DEF TypeInv, TypeOK, Session
  <2>2. se \in Session
    BY <2>1, IdleSessionType, SessionColumns, Zenon
  <2>3. Consistent(se, invoices')
    BY DEF Consistent, IdleSession
  <2>4. sess' = [sess EXCEPT ![w] = se]
    BY <1>2 DEF Continue
  <2> HIDE DEF se
  <2>. QED
    BY <2>2, <2>3, <2>4, SessionStep
<1>. QED
  BY <1>1, <1>2 DEF Continue

\* Loading an invoice to move it.
LEMMA LoadStep ==
    ASSUME TypeInv, NEW w \in Workers, NEW i \in InvIds, NEW t \in InvoiceStatus, Load(w, i, t)
    PROVE  TypeInv'
<1> DEFINE rec == t = "paid" /\ subs[invoices[i].period.sub].status = "past_due"
           se == [sess[w] EXCEPT !.pc = "commit", !.inv = i, !.loaded = invoices[i].status,
                                 !.target = t, !.recover = rec]
<1>1. invoices[i] \in Invoice /\ invoices[i].status \in InvoiceStatus
  BY DEF TypeInv, TypeOK, Load, Exists, Invoice
<1>2. sess[w] \in Session /\ rec \in BOOLEAN /\ i \in InvIds \cup {0}
  BY DEF TypeInv, TypeOK
<1> HIDE DEF rec
<1>3. se \in Session
  BY <1>1, <1>2, SessionColumns, Zenon
<1>4. Consistent(se, invoices')
  <2>1. /\ se.pc = "commit" /\ se.inv = i /\ se.loaded = invoices[i].status /\ se.target = t
    BY <1>2 DEF Session
  <2>2. invoices' = invoices /\ invoices[i] # NoInvoice /\ CanMoveInvoice(invoices[i].status, t)
    BY DEF Load, Exists
  <2> HIDE DEF se
  <2>. QED
    BY <2>1, <2>2 DEF Consistent
<1>5. sess' = [sess EXCEPT ![w] = se] /\ UNCHANGED <<subs, invoices, now, aborts>>
  BY DEF Load, rec
<1> HIDE DEF se
<1>. QED
  BY <1>3, <1>4, <1>5, SessionStep DEF TypeInv, TypeOK

-----------------------------------------------------------------------------
(***************************************************************************)
(* Type correctness.                                                       *)
(***************************************************************************)

\* Next, one case per action.
LEMMA StepCases ==
    ASSUME [Next]_vars
    PROVE  \/ \E w \in Workers, p \in Periods : Generate(w, p)
           \/ \E w \in Workers, i \in InvIds, t \in InvoiceStatus : Idle(w) /\ Load(w, i, t)
           \/ \E w \in Workers : SweepStart(w) \/ SweepNext(w) \/ Check(w) \/ Insert(w)
                               \/ InsertConflict(w) \/ Refresh(w) \/ Commit(w)
                               \/ CommitConflict(w) \/ Abort(w)
           \/ \E s \in Subs, t \in SubscriptionStatus : MoveSubscription(s, t)
           \/ \E s \in Subs : StartPeriod(s)
           \/ Tick
           \/ UNCHANGED vars
BY DEF Next, Step, Workers, Issue, MarkPaid, Void, InvoiceStatus

\* The periods that can be asked for are periods.
LEMMA PeriodsType ==
    ASSUME TypeOK
    PROVE  Periods \subseteq Period /\ DuePeriods \subseteq Period
<1>1. ASSUME NEW s \in Subs PROVE CurrentPeriod(s) \in Period
  BY DEF CurrentPeriod, Period, TypeOK, Sub
<1>2. ASSUME NEW s \in Subs, NEW r \in Requested
      PROVE  [sub |-> s, start |-> r[1], end |-> r[2]] \in Period
  BY InvoicingAssumption DEF Period
<1>. QED
  BY <1>1, <1>2 DEF Periods, DuePeriods

\* A commit, and an insert, leave a typed table without losing a row.
LEMMA CommitTable ==
    ASSUME TypeInv, NEW w \in Workers, sess[w].pc = "commit"
    PROVE  /\ Moved(w) \in [InvIds -> Invoice \cup {NoInvoice}]
           /\ \A i \in InvIds : invoices[i] # NoInvoice => Moved(w)[i] # NoInvoice
           /\ invoices[sess[w].inv] \in Invoice /\ sess[w].inv \in InvIds
           /\ sess[w].target \in InvoiceStatus
           /\ \A i \in InvIds : Moved(w)[i] = IF i = sess[w].inv
                                              THEN MovedRow(invoices[i], sess[w].target)
                                              ELSE invoices[i]
<1>1. sess[w].inv \in InvIds /\ invoices[sess[w].inv] \in Invoice
  BY DEF TypeInv, TypeOK, Consistent
<1>2. sess[w].target \in InvoiceStatus
  BY DEF TypeInv, TypeOK, Session
<1>3. MovedRow(invoices[sess[w].inv], sess[w].target) \in Invoice
  BY <1>1, <1>2, MovedRowType
<1>. QED
  BY <1>1, <1>2, <1>3, AbsentIsNoRow DEF Moved, TypeInv, TypeOK

\* crud_invoice.create leaves a typed table and the rows of other ids alone.
LEMMA InsertTable ==
    ASSUME TypeInv, NEW w \in Workers, sess[w].pc = "insert", NEW i \in InvIds
    PROVE  /\ Inserted(w, i) \in [InvIds -> Invoice \cup {NoInvoice}]
           /\ \A j \in InvIds : invoices[j] # NoInvoice => Inserted(w, i)[j] # NoInvoice
           /\ Inserted(w, i)[i] = [period |-> sess[w].cur, status |-> "draft",
                                   issuedAt |-> FALSE, paidAt |-> FALSE]
           /\ Inserted(w, i)[i] \in Invoice
<1>1. sess[w].cur \in Period
  BY DEF TypeInv, TypeOK, Session, Consistent
<1>2. [period |-> sess[w].cur, status |-> "draft", issuedAt |-> FALSE, paidAt |-> FALSE] \in Invoice
  BY <1>1 DEF Invoice, InvoiceStatus
<1>. QED
  BY <1>2, AbsentIsNoRow DEF Inserted, TypeInv, TypeOK

\* Every step keeps the types and the sessions consistent.
LEMMA TypeInvStep ==
    ASSUME TypeInv, [Next]_vars
    PROVE  TypeInv'
<1>t. TypeOK
  BY DEF TypeInv
<1>f. ASSUME NEW w \in Workers, Finish(w) \/ Continue(w), UNCHANGED <<subs, invoices, now>>, aborts' \in Nat
      PROVE  TypeInv'
  BY <1>f, FinishStep DEF TypeInv, TypeOK
<1>s. ASSUME NEW w \in Workers, NEW se \in Session, sess' = [sess EXCEPT ![w] = se],
             Consistent(se, invoices), UNCHANGED <<subs, invoices, now, aborts>>
      PROVE  TypeInv'
  BY <1>s, SessionStep DEF TypeInv, TypeOK
<1>1. ASSUME NEW w \in Workers, NEW p \in Periods, Generate(w, p) PROVE TypeInv'
  <2> DEFINE se == [IdleSession EXCEPT !.pc = "check", !.cur = p]
  <2>1. p \in Period
    BY <1>t, PeriodsType
  <2>2. se \in Session
    BY <2>1, IdleSessionType, SessionColumns, Zenon
  <2>3. Consistent(se, invoices)
    BY <2>1, AbsentIsNoRow DEF Consistent, IdleSession
  <2>4. sess' = [sess EXCEPT ![w] = se] /\ UNCHANGED <<subs, invoices, now, aborts>>
    BY <1>1 DEF Generate
  <2> HIDE DEF se
  <2>. QED
    BY <1>s, <2>2, <2>3, <2>4
<1>2. ASSUME NEW w \in Workers, SweepStart(w) PROVE TypeInv'
  <2> DEFINE se == [IdleSession EXCEPT !.pc = "next", !.todo = DuePeriods]
  <2>1. DuePeriods \in SUBSET Period
    BY <1>t, PeriodsType
  <2>2. se \in Session
    BY <2>1, IdleSessionType, SessionColumns, Zenon
  <2>3. Consistent(se, invoices)
    BY DEF Consistent, IdleSession
  <2>4. sess' = [sess EXCEPT ![w] = se] /\ UNCHANGED <<subs, invoices, now, aborts>>
    BY <1>2 DEF SweepStart
  <2> HIDE DEF se
  <2>. QED
    BY <1>s, <2>2, <2>3, <2>4
<1>3. ASSUME NEW w \in Workers, SweepNext(w) PROVE TypeInv'
  <2>1. CASE sess[w].todo = {}
    BY <1>3, <1>f, <1>t, <2>1 DEF SweepNext, TypeOK
  <2>2. CASE sess[w].todo # {}
    <3>1. PICK p \in sess[w].todo :
             sess' = [sess EXCEPT ![w] = [IdleSession EXCEPT !.pc = "check", !.cur = p,
                                                             !.todo = sess[w].todo \ {p}]]
      BY <1>3, <2>2 DEF SweepNext
    <3> DEFINE se == [IdleSession EXCEPT !.pc = "check", !.cur = p, !.todo = sess[w].todo \ {p}]
    <3>2. p \in Period /\ sess[w].todo \ {p} \in SUBSET Period
      BY <1>t DEF TypeOK, Session
    <3>3. se \in Session
      BY <3>2, IdleSessionType, SessionColumns, Zenon
    <3>4. Consistent(se, invoices)
      BY <3>2, AbsentIsNoRow DEF Consistent, IdleSession
    <3>5. sess' = [sess EXCEPT ![w] = se] /\ UNCHANGED <<subs, invoices, now, aborts>>
      BY <1>3, <3>1 DEF SweepNext
    <3> HIDE DEF se
    <3>. QED
      BY <1>s, <3>3, <3>4, <3>5
  <2>. QED
    BY <2>1, <2>2
<1>4. ASSUME NEW w \in Workers, Check(w) PROVE TypeInv'
  <2>1. CASE Blocked(sess[w].cur)
    BY <1>4, <1>f, <1>t, <2>1 DEF Check, TypeOK
  <2>2. CASE ~Blocked(sess[w].cur)
    <3> DEFINE se == [sess[w] EXCEPT !.pc = "insert"]
    <3>1. sess[w] \in Session /\ sess[w].cur # NoPeriod
      BY <1>t, <1>4 DEF Check, TypeInv, TypeOK, Consistent
    <3>2. se \in Session
      BY <3>1, SessionColumns
    <3>3. Consistent(se, invoices)
      BY <3>1 DEF Consistent, Session
    <3>4. sess' = [sess EXCEPT ![w] = se] /\ UNCHANGED <<subs, invoices, now, aborts>>
      BY <1>4, <2>2 DEF Check
    <3> HIDE DEF se
    <3>. QED
      BY <1>s, <3>2, <3>3, <3>4
  <2>. QED
    BY <2>1, <2>2
<1>5. ASSUME NEW w \in Workers, Insert(w) PROVE TypeInv'
  <2>1. PICK i \in InvIds :
           /\ invoices' = Inserted(w, i)
           /\ IF w \in CeleryWorkers
              THEN sess' = [sess EXCEPT ![w] = [@ EXCEPT !.pc = "refresh", !.inv = i]]
              ELSE Finish(w)
    BY <1>5 DEF Insert
  <2>2. /\ invoices' \in [InvIds -> Invoice \cup {NoInvoice}]
        /\ \A j \in InvIds : invoices[j] # NoInvoice => invoices'[j] # NoInvoice
        /\ invoices'[i] \in Invoice
    BY <1>5, <2>1, InsertTable DEF Insert
  <2>3. UNCHANGED <<subs, now, aborts>>
    BY <1>5 DEF Insert
  <2>4. CASE w \in CeleryWorkers
    <3> DEFINE se == [sess[w] EXCEPT !.pc = "refresh", !.inv = i]
    <3>1. sess[w] \in Session /\ i \in InvIds \cup {0}
      BY <1>t DEF TypeOK
    <3>2. se \in Session
      BY <3>1, SessionColumns, Zenon
    <3>3. Consistent(se, invoices')
      BY <2>2, <3>1, AbsentIsNoRow DEF Consistent, Session
    <3>4. sess' = [sess EXCEPT ![w] = se]
      BY <2>1, <2>4
    <3> HIDE DEF se
    <3>. QED
      BY <2>2, <2>3, <3>2, <3>3, <3>4, SessionStep DEF TypeInv, TypeOK
  <2>5. CASE w \notin CeleryWorkers
    BY <2>1, <2>2, <2>3, <2>5, FinishStep DEF TypeInv, TypeOK
  <2>. QED
    BY <2>4, <2>5
<1>6. ASSUME NEW w \in Workers, InsertConflict(w) \/ CommitConflict(w) \/ Abort(w) PROVE TypeInv'
  BY <1>6, <1>f, <1>t DEF InsertConflict, CommitConflict, Abort, TypeOK
<1>7. ASSUME NEW w \in Workers, Refresh(w) PROVE TypeInv'
  <2>1. CASE Load(w, sess[w].inv, "open")
    <3>1. sess[w].inv \in InvIds /\ "open" \in InvoiceStatus
      BY <1>7 DEF Refresh, TypeInv, Consistent, InvoiceStatus
    <3>. QED
      BY <2>1, <3>1, LoadStep
  <2>2. CASE Continue(w) /\ UNCHANGED <<subs, invoices, now, aborts>>
    BY <1>f, <1>t, <2>2 DEF TypeOK
  <2>. QED
    BY <1>7, <2>1, <2>2 DEF Refresh
<1>8. ASSUME NEW w \in Workers, Commit(w) PROVE TypeInv'
  <2>1. /\ invoices' = Moved(w) /\ sess[w].pc = "commit" /\ Continue(w)
        /\ UNCHANGED <<now, aborts>>
    BY <1>8 DEF Commit
  <2>2. /\ invoices' \in [InvIds -> Invoice \cup {NoInvoice}]
        /\ \A j \in InvIds : invoices[j] # NoInvoice => invoices'[j] # NoInvoice
    BY <2>1, CommitTable
  <2>3. subs' \in [Subs -> Sub]
    <3>1. invoices[sess[w].inv].period.sub \in Subs
      BY <2>1, CommitTable DEF Invoice, Period
    <3>. QED
      BY <1>8, <1>t, <3>1 DEF Commit, TypeOK, Sub, SubscriptionStatus
  <2>. QED
    BY <1>t, <2>1, <2>2, <2>3, FinishStep DEF TypeInv, TypeOK
<1>9. ASSUME NEW s \in Subs, NEW t \in SubscriptionStatus, MoveSubscription(s, t) PROVE TypeInv'
  BY <1>9, <1>t DEF MoveSubscription, TypeInv, TypeOK, Sub
<1>10. ASSUME NEW s \in Subs, StartPeriod(s) PROVE TypeInv'
  <2>1. now + Interval \in Nat
    BY <1>t, InvoicingAssumption DEF TypeOK
  <2>. QED
    BY <1>10, <1>t, <2>1 DEF StartPeriod, TypeInv, TypeOK, Sub
<1>11. ASSUME Tick \/ UNCHANGED vars PROVE TypeInv'
  BY <1>11 DEF Tick, vars, TypeInv, TypeOK
<1>. QED
  BY <1>1, <1>2, <1>3, <1>4, <1>5, <1>6, <1>7, <1>8, <1>9, <1>10, <1>11, LoadStep, StepCases

\* The inductive invariant holds throughout.
LEMMA TypeInvAlways == Spec => []TypeInv
<1>1. Init => TypeInv
  <2>1. ASSUME Init PROVE TypeOK
    BY <2>1, IdleSessionType, InvoicingAssumption
       DEF Init, TypeOK, Sub, SubscriptionStatus
  <2>2. ASSUME Init, NEW w \in Workers PROVE Consistent(sess[w], invoices)
    BY <2>2, IdleSessionType DEF Init
  <2>. QED
    BY <2>1, <2>2 DEF TypeInv
<1>. QED
  BY <1>1, TypeInvStep, PTL DEF Spec

\* Type correctness of the invoices, the subscriptions and every session.
THEOREM InvoicingTypeCorrect == Spec => []TypeOK
<1>1. TypeInv => TypeOK
  BY DEF TypeInv
<1>. QED
  BY <1>1, TypeInvAlways, PTL

-----------------------------------------------------------------------------
(***************************************************************************)
(* One invoice per period.  UniquePeriods(invoices) is inductive: only an  *)
(* insert and a commit write the table, and both pass the index.           *)
(***************************************************************************)

\* Only the two committing steps write the invoices table.
LEMMA TableStep ==
    ASSUME [Next]_vars
    PROVE  \/ invoices' = invoices
           \/ \E w \in Workers : Commit(w)
           \/ \E w \in Workers : Insert(w)
BY StepCases DEF Generate, Load, SweepStart, SweepNext, Check, InsertConflict, Refresh,
                 CommitConflict, Abort, MoveSubscription, StartPeriod, Tick, vars

\* No period of a subscription ever has two invoices that are not void,
\* however requests, sweeps and crashes interleave.
THEOREM OnePerPeriod == Spec => []OneInvoicePerPeriod
<1>1. Init => UniquePeriods(invoices)
  BY DEF Init, UniquePeriods
<1>2. ASSUME UniquePeriods(invoices), [Next]_vars PROVE UniquePeriods(invoices)'
  <2>1. CASE invoices' = invoices
    BY <1>2, <2>1 DEF UniquePeriods, Blocks
  <2>2. ASSUME NEW w \in Workers, Commit(w) PROVE UniquePeriods(invoices)'
    BY <2>2 DEF Commit, UniquePeriods, Blocks
  <2>3. ASSUME NEW w \in Workers, Insert(w) PROVE UniquePeriods(invoices)'
    BY <2>3 DEF Insert, UniquePeriods, Blocks
  <2>. QED
    BY <1>2, <2>1, <2>2, <2>3, TableStep
<1>3. UniquePeriods(invoices) => OneInvoicePerPeriod
  BY DEF UniquePeriods, Blocks, OneInvoicePerPeriod, Exists
<1>. QED
  BY <1>1, <1>2, <1>3, PTL DEF Spec

-----------------------------------------------------------------------------
(***************************************************************************)
(* Payments.                                                               *)
(***************************************************************************)

\* A step leaves a session as it was, starts one that moves nothing, or loads
\* an invoice of the table with the status it has.
LEMMA SessionCases ==
    ASSUME TypeInv, [Next]_vars, NEW v \in Workers, sess'[v].pc = "commit"
    PROVE  \/ sess'[v] = sess[v]
           \/ \E i \in InvIds : /\ invoices' = invoices /\ invoices[i] # NoInvoice
                                /\ sess'[v].inv = i /\ sess'[v].loaded = invoices[i].status
<1>t. TypeOK
  BY DEF TypeInv
<1>i. IdleSession.pc = "idle"
  BY DEF IdleSession
<1>s. ASSUME NEW w \in Workers, NEW se, sess' = [sess EXCEPT ![w] = se], se.pc # "commit"
      PROVE  sess'[v] = sess[v]
  BY <1>s, <1>t DEF TypeOK
<1>f. ASSUME NEW w \in Workers, Finish(w) \/ Continue(w) PROVE sess'[v] = sess[v]
  <2>1. [IdleSession EXCEPT !.pc = "next", !.todo = sess[w].todo].pc = "next"
    BY DEF IdleSession
  <2>. QED
    BY <1>f, <1>i, <1>s, <2>1 DEF Finish, Continue
<1>1. ASSUME NEW w \in Workers, NEW p, Generate(w, p) PROVE sess'[v] = sess[v]
  <2>1. [IdleSession EXCEPT !.pc = "check", !.cur = p].pc = "check"
    BY DEF IdleSession
  <2>. QED
    BY <1>1, <1>s, <2>1 DEF Generate
<1>2. ASSUME NEW w \in Workers, SweepStart(w) PROVE sess'[v] = sess[v]
  <2>1. [IdleSession EXCEPT !.pc = "next", !.todo = DuePeriods].pc = "next"
    BY DEF IdleSession
  <2>. QED
    BY <1>2, <1>s, <2>1 DEF SweepStart
<1>3. ASSUME NEW w \in Workers, SweepNext(w) PROVE sess'[v] = sess[v]
  <2>1. \A p : [IdleSession EXCEPT !.pc = "check", !.cur = p, !.todo = sess[w].todo \ {p}].pc = "check"
    BY DEF IdleSession
  <2>. QED
    BY <1>3, <1>f, <1>s, <2>1 DEF SweepNext
<1>4. ASSUME NEW w \in Workers, Check(w) PROVE sess'[v] = sess[v]
  <2>1. [sess[w] EXCEPT !.pc = "insert"].pc = "insert"
    BY <1>t DEF TypeOK, Session
  <2>. QED
    BY <1>4, <1>f, <1>s, <2>1 DEF Check
<1>5. ASSUME NEW w \in Workers, Insert(w) PROVE sess'[v] = sess[v]
  <2>1. \A i : [sess[w] EXCEPT !.pc = "refresh", !.inv = i].pc = "refresh"
    BY <1>t DEF TypeOK, Session
  <2>. QED
    BY <1>5, <1>f, <1>s, <2>1 DEF Insert
<1>6. ASSUME NEW w \in Workers, InsertConflict(w) \/ CommitConflict(w) \/ Abort(w) \/ Commit(w)
      PROVE  sess'[v] = sess[v]
  BY <1>6, <1>f DEF InsertConflict, CommitConflict, Abort, Commit
<1>7. ASSUME Tick \/ UNCHANGED vars PROVE sess'[v] = sess[v]
  BY <1>7 DEF Tick, vars
<1>8. ASSUME NEW w \in Workers, NEW i \in InvIds, NEW t, Load(w, i, t)
      PROVE  \/ sess'[v] = sess[v]
             \/ /\ invoices' = invoices /\ invoices[i] # NoInvoice
                /\ sess'[v].inv = i /\ sess'[v].loaded = invoices[i].status
  <2>1. CASE v = w
    <3> DEFINE rec == t = "paid" /\ subs[invoices[i].period.sub].status = "past_due"
               se == [sess[w] EXCEPT !.pc = "commit", !.inv = i, !.loaded = invoices[i].status,
                                     !.target = t, !.recover = rec]
    <3>1. se.inv = i /\ se.loaded = invoices[i].status
      BY <1>t DEF TypeOK, Session
    <3>2. sess'[w] = se
      BY <1>8, <1>t DEF Load, TypeOK
    <3> HIDE DEF se
    <3>. QED
      BY <1>8, <2>1, <3>1, <3>2 DEF Load, Exists
  <2>2. CASE v # w
    BY <1>8, <1>t, <2>2 DEF Load, TypeOK
  <2>. QED
    BY <2>1, <2>2
<1>9. ASSUME NEW w \in Workers, Refresh(w)
      PROVE  \/ sess'[v] = sess[v]
             \/ \E i \in InvIds : /\ invoices' = invoices /\ invoices[i] # NoInvoice
                                  /\ sess'[v].inv = i /\ sess'[v].loaded = invoices[i].status
  <2>1. sess[w].inv \in InvIds
    BY <1>9 DEF Refresh, TypeInv, Consistent
  <2>. QED
    BY <1>8, <1>9, <1>f, <2>1 DEF Refresh
<1>10. ASSUME NEW s, NEW t, MoveSubscription(s, t) \/ StartPeriod(s) PROVE sess'[v] = sess[v]
  BY <1>10 DEF MoveSubscription, StartPeriod
<1>. QED
  BY <1>1, <1>2, <1>3, <1>4, <1>5, <1>6, <1>7, <1>8, <1>9, <1>10, StepCases

\* What a step does to one invoice of the table.
LEMMA RowStep ==
    ASSUME TypeInv, [Next]_vars, NEW i \in InvIds
    PROVE  \/ invoices'[i] = invoices[i]
           \/ invoices'[i].status = "draft" /\ ~invoices'[i].paidAt /\ invoices[i] = NoInvoice
           \/ \E w \in Workers :
                /\ Commit(w) /\ sess[w].inv = i /\ invoices[i] \in Invoice
                /\ invoices'[i] = MovedRow(invoices[i], sess[w].target)
<1>1. ASSUME NEW w \in Workers, Commit(w), invoices'[i] # invoices[i]
      PROVE  /\ sess[w].inv = i /\ invoices[i] \in Invoice
             /\ invoices'[i] = MovedRow(invoices[i], sess[w].target)
  BY <1>1, CommitTable DEF Commit
<1>2. ASSUME NEW w \in Workers, Insert(w), invoices'[i] # invoices[i]
      PROVE  invoices'[i].status = "draft" /\ ~invoices'[i].paidAt /\ invoices[i] = NoInvoice
  <2>1. PICK j \in InvIds : NextId(j) /\ invoices' = Inserted(w, j)
    BY <1>2 DEF Insert
  <2>2. i = j
    BY <1>2, <2>1 DEF Inserted, TypeInv, TypeOK
  <2>3. sess[w].pc = "insert" /\ invoices[i] = NoInvoice
    BY <1>2, <2>1, <2>2 DEF Insert, NextId, Exists
  <2>4. invoices'[i] = [period |-> sess[w].cur, status |-> "draft",
                        issuedAt |-> FALSE, paidAt |-> FALSE]
    BY <2>1, <2>2, <2>3, InsertTable
  <2>. QED
    BY <2>3, <2>4
<1>. QED
  BY <1>1, <1>2, TableStep

\* PaymentInv is kept: issued_at is never cleared, and a session that takes a
\* payment loaded an open, hence issued, invoice.
LEMMA PaymentInvStep ==
    ASSUME TypeInv, PaymentInv, [Next]_vars
    PROVE  PaymentInv'
<1>1. ASSUME NEW i \in InvIds, invoices[i] # NoInvoice
      PROVE  /\ invoices'[i] # NoInvoice
             /\ invoices[i].issuedAt => invoices'[i].issuedAt
  <2>1. CASE invoices'[i] = invoices[i]
    BY <1>1, <2>1
  <2>2. ASSUME NEW w \in Workers, invoices[i] \in Invoice,
               invoices'[i] = MovedRow(invoices[i], sess[w].target), Commit(w)
        PROVE  invoices'[i] # NoInvoice /\ (invoices[i].issuedAt => invoices'[i].issuedAt)
    <3>1. MovedRow(invoices[i], sess[w].target) \in Invoice
      BY <2>2, CommitTable, MovedRowType DEF Commit
    <3>2. invoices[i].issuedAt => MovedRow(invoices[i], sess[w].target).issuedAt
      BY DEF MovedRow
    <3>. QED
      BY <2>2, <3>1, <3>2, AbsentIsNoRow
  <2>. QED
    BY <1>1, <2>1, <2>2, RowStep
<1>2. ASSUME NEW v \in Workers, sess'[v].pc = "commit", sess'[v].loaded = "open"
      PROVE  invoices'[sess'[v].inv].issuedAt
  <2>1. CASE sess'[v] = sess[v]
    <3>1. sess[v].pc = "commit" /\ sess[v].loaded = "open"
      BY <1>2, <2>1
    <3>2. sess[v].inv \in InvIds /\ invoices[sess[v].inv] # NoInvoice
      BY <3>1 DEF TypeInv, Consistent
    <3>3. invoices[sess[v].inv].issuedAt
      BY <3>1 DEF PaymentInv
    <3>. QED
      BY <1>1, <2>1, <3>2, <3>3
  <2>2. ASSUME NEW i \in InvIds, invoices' = invoices, invoices[i] # NoInvoice,
               sess'[v].inv = i, sess'[v].loaded = invoices[i].status
        PROVE  invoices'[sess'[v].inv].issuedAt
    BY <1>2, <2>2 DEF PaymentInv, PaidWasIssued, Exists
  <2>. QED
    BY <1>2, <2>1, <2>2, SessionCases
<1>3. ASSUME NEW i \in InvIds, invoices'[i] # NoInvoice
      PROVE  /\ invoices'[i].status = "paid" => invoices'[i].paidAt
             /\ invoices'[i].paidAt => invoices'[i].issuedAt
             /\ invoices'[i].status = "open" => invoices'[i].issuedAt
  <2>1. CASE invoices'[i] = invoices[i]
    BY <1>3, <2>1 DEF PaymentInv, PaidWasIssued, Exists
  <2>2. CASE invoices'[i].status = "draft" /\ ~invoices'[i].paidAt /\ invoices[i] = NoInvoice
    BY <2>2
  <2>3. ASSUME NEW w \in Workers, Commit(w), sess[w].inv = i, invoices[i] \in Invoice,
               invoices'[i] = MovedRow(invoices[i], sess[w].target)
        PROVE  /\ invoices'[i].status = "paid" => invoices'[i].paidAt
               /\ invoices'[i].paidAt => invoices'[i].issuedAt
               /\ invoices'[i].status = "open" => invoices'[i].issuedAt
    <3> DEFINE t == sess[w].target
    <3>1. t = "paid" => sess[w].loaded = "open"
      BY <2>3 DEF Commit, TypeInv, Consistent, CanMoveInvoice
    <3>2. t = "paid" => invoices[i].issuedAt
      BY <2>3, <3>1 DEF Commit, PaymentInv
    <3>3. invoices[i].paidAt => invoices[i].issuedAt
      BY <2>3, AbsentIsNoRow DEF PaymentInv, PaidWasIssued, Exists
    <3>4. /\ invoices'[i].status = t
          /\ invoices'[i].issuedAt = (invoices[i].issuedAt \/ t = "open")
          /\ invoices'[i].paidAt = (invoices[i].paidAt \/ t = "paid")
      BY <2>3 DEF MovedRow
    <3> HIDE DEF t
    <3>. QED
      BY <3>2, <3>3, <3>4, Zenon
  <2>. QED
    BY <2>1, <2>2, <2>3, RowStep
<1>. QED
  BY <1>2, <1>3 DEF PaymentInv, PaidWasIssued, Exists

\* Money is only taken against an issued invoice.
THEOREM PaidIssued == Spec => []PaidWasIssued
<1>1. Init => PaymentInv
  <2>1. Init => PaidWasIssued
    BY DEF Init, PaidWasIssued, Exists
  <2>2. ASSUME Init, NEW w \in Workers PROVE sess[w].pc # "commit"
    BY <2>2 DEF Init, IdleSession
  <2>. QED
    BY <2>1, <2>2 DEF PaymentInv
<1>2. PaymentInv => PaidWasIssued
  BY DEF PaymentInv
<1>. QED
  BY <1>1, <1>2, PaymentInvStep, TypeInvAlways, PTL DEF Spec

-----------------------------------------------------------------------------
(***************************************************************************)
(* The state machine.                                                      *)
(***************************************************************************)

\* Whatever the interleaving, an invoice leaves the documented machine only in
\* a commit whose session had loaded another status than the row has now.
THEOREM InvoiceLegal == Spec => InvoiceLegalUnlessStale
<1> DEFINE Machine == {<<"draft", "open">>, <<"draft", "void">>, <<"open", "paid">>, <<"open", "void">>}
           Stale(w, i) == /\ sess[w].pc = "commit" /\ sess'[w].pc # "commit"
                          /\ sess[w].inv = i /\ sess[w].loaded # invoices[i].status
<1>1. ASSUME TypeInv, [Next]_vars, NEW i \in InvIds, Exists(i),
             invoices'[i].status # invoices[i].status
      PROVE  \/ <<invoices[i].status, invoices'[i].status>> \in Machine
             \/ \E w \in Workers : Stale(w, i)
  <2>1. PICK w \in Workers : /\ Commit(w) /\ sess[w].inv = i
                             /\ invoices'[i] = MovedRow(invoices[i], sess[w].target)
    BY <1>1, RowStep DEF Exists
  <2>2. invoices'[i].status = sess[w].target
    BY <2>1 DEF MovedRow
  <2>3. CanMoveInvoice(sess[w].loaded, sess[w].target)
    BY <1>1, <2>1 DEF Commit, TypeInv, Consistent
  <2>4. sess'[w].pc # "commit"
    <3>1. [IdleSession EXCEPT !.pc = "next", !.todo = sess[w].todo].pc = "next"
      BY DEF IdleSession
    <3>2. IdleSession.pc = "idle"
      BY DEF IdleSession
    <3>. QED
      BY <1>1, <2>1, <3>1, <3>2 DEF Commit, Continue, Finish, TypeInv, TypeOK
  <2>5. CASE sess[w].loaded = invoices[i].status
    BY <2>2, <2>3, <2>5 DEF CanMoveInvoice
  <2>6. CASE sess[w].loaded # invoices[i].status
    BY <2>1, <2>4, <2>6 DEF Commit
  <2>. QED
    BY <2>5, <2>6
<1>2. ASSUME TypeInv, [Next]_vars
      PROVE  [\A i \in InvIds :
                 (Exists(i) /\ invoices'[i].status # invoices[i].status) =>
                     \/ <<invoices[i].status, invoices'[i].status>> \in Machine
                     \/ \E w \in Workers : Stale(w, i)]_vars
  BY <1>1, <1>2
<1>. QED
  BY <1>2, TypeInvAlways, PTL DEF Spec, InvoiceLegalUnlessStale
=============================================================================
