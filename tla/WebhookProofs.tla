--------------------------- MODULE WebhookProofs ---------------------------
(***************************************************************************)
(* Theorems about WebhookDeliveries, and about Notifications, which drives *)
(* it, for any number of webhooks, workers, deliveries, retries, crashes,  *)
(* processes, entries and users.                                           *)
(***************************************************************************)
EXTENDS Notifications, FiniteSetTheorems, TLAPS

-----------------------------------------------------------------------------
(***************************************************************************)
(* The inductive invariants.                                               *)
(***************************************************************************)

\* A running task works on a delivery of table t, and what it is about to
\* record is the outcome of an attempt.
Consistent(r, t) ==
    /\ r.pc # "idle" => r.d \in Ids /\ t[r.d] # NoRow
    /\ r.pc \in {"record", "flush"} => r.outcome \in {"delivered", "failed", "retrying"}

\* Messages are about deliveries that exist.
QueueConsistent(q, t) == \A d \in Ids : \A r \in Retries : q[d][r] > 0 => t[d] # NoRow

TypeInv ==
    /\ DeliveryTypeOK
    /\ \A w \in Workers : Consistent(run[w], rows)
    /\ QueueConsistent(queue, rows)

\* The task will still settle its delivery or queue the next attempt.  One that
\* loaded, for its UPDATE, the status it is going to write will write nothing.
Responsible(r) ==
    \/ r.pc \in {"load", "post", "record", "retry"}
    \/ r.pc = "flush" /\ (r.outcome = "retrying" \/ r.outcome # r.seenStatus)

HasTask(d) ==
    \/ d \in lost
    \/ \E r \in Retries : queue[d][r] > 0
    \/ \E w \in Workers : run[w].d = d /\ Responsible(run[w])

OpenInv ==
    \A d \in Ids : rows[d] # NoRow /\ rows[d].status \in Open => HasTask(d)

-----------------------------------------------------------------------------
(***************************************************************************)
(* Types of the records.                                                   *)
(***************************************************************************)

\* Assigning a value of its type to a field leaves a run a run.
LEMMA RunColumns ==
    \A r \in Run :
        /\ \A v \in {"idle", "load", "post", "record", "flush", "retry", "ack"} :
              [r EXCEPT !.pc = v] \in Run
        /\ \A v \in Ids \cup {0} : [r EXCEPT !.d = v] \in Run
        /\ \A v \in Retries : [r EXCEPT !.retries = v] \in Run
        /\ \A v \in Nat : [r EXCEPT !.attempt = v] \in Run
        /\ \A v \in Status : [r EXCEPT !.outcome = v] \in Run
        /\ \A v \in Status : [r EXCEPT !.seenStatus = v] \in Run
        /\ \A v \in Nat : [r EXCEPT !.seenAttempt = v] \in Run
BY DEF Run

\* An idle worker runs nothing, consistently with every table.
LEMMA IdleRunType == IdleRun \in Run /\ ~Responsible(IdleRun) /\ \A t : Consistent(IdleRun, t)
BY DeliveryAssumption DEF IdleRun, Run, Status, Retries, Consistent, Responsible

\* The absent marker is no delivery.
LEMMA AbsentIsNoRow == NoRow \notin Delivery
<1>1. ASSUME NoRow \in Delivery PROVE FALSE
  <2>1. DOMAIN NoRow = {"absent"}
    BY DEF NoRow
  <2>2. DOMAIN NoRow = {"hook", "entry", "status", "attempt"}
    BY <1>1 DEF Delivery
  <2>. QED
    BY <2>1, <2>2
<1>. QED
  BY <1>1

\* Replacing one worker's run by a consistent one, while no delivery
\* disappears, keeps all runs typed and consistent.
LEMMA RunStep ==
    ASSUME TypeInv, NEW w \in Workers, NEW r \in Run,
           run' = [run EXCEPT ![w] = r],
           \A d \in Ids : rows[d] # NoRow => rows'[d] # NoRow,
           Consistent(r, rows')
    PROVE  /\ run' \in [Workers -> Run]
           /\ \A v \in Workers : Consistent(run'[v], rows')
<1>1. run \in [Workers -> Run]
  BY DEF TypeInv, DeliveryTypeOK
<1>2. ASSUME NEW v \in Workers PROVE Consistent(run'[v], rows')
  <2>1. CASE v = w
    BY <1>1, <2>1
  <2>2. CASE v # w
    <3>1. run'[v] = run[v] /\ Consistent(run[v], rows)
      BY <1>1, <2>2 DEF TypeInv
    <3>. QED
      BY <3>1 DEF Consistent
  <2>. QED
    BY <2>1, <2>2
<1>. QED
  BY <1>1, <1>2

\* What a running worker is known to have.
LEMMA Running ==
    ASSUME TypeInv, NEW w \in Workers, run[w].pc # "idle"
    PROVE  /\ run[w] \in Run /\ run[w].d \in Ids /\ run[w].retries \in Retries
           /\ run[w].attempt \in Nat
           /\ rows[run[w].d] \in Delivery
           /\ rows[run[w].d].status \in Status /\ rows[run[w].d].attempt \in Nat
<1>1. run[w] \in Run /\ run[w].d \in Ids /\ rows[run[w].d] # NoRow
  BY DEF TypeInv, DeliveryTypeOK, Consistent
<1>2. rows[run[w].d] \in Delivery
  BY <1>1 DEF TypeInv, DeliveryTypeOK
<1>. QED
  BY <1>1, <1>2 DEF Run, Delivery

\* A step that leaves the tables alone and gives one worker a consistent run.
LEMMA QuietRunStep ==
    ASSUME TypeInv, NEW w \in Workers, NEW r \in Run, run' = [run EXCEPT ![w] = r],
           Consistent(r, rows), rows' = rows, hooks' = hooks,
           queue' \in [Ids -> [Retries -> Nat]], QueueConsistent(queue', rows),
           accepted' \subseteq Ids, lost' \subseteq Ids, crashes' \in Nat
    PROVE  TypeInv'
<1>1. Consistent(r, rows')
  OBVIOUS
<1>2. /\ run' \in [Workers -> Run]
      /\ \A v \in Workers : Consistent(run'[v], rows')
  BY <1>1, RunStep
<1>. QED
  BY <1>2 DEF TypeInv, DeliveryTypeOK

-----------------------------------------------------------------------------
(***************************************************************************)
(* Type correctness.                                                       *)
(***************************************************************************)

\* DeliveryNext, one case per action.
LEMMA StepCases ==
    ASSUME [DeliveryNext]_deliveryVars
    PROVE  \/ \E h \in Hooks : CreateWebhook(h) \/ DeleteWebhook(h) \/ RestoreWebhook(h)
                               \/ \E a \in BOOLEAN : UpdateWebhook(h, a)
           \/ \E h \in Hooks : Purge(h)
           \/ \E h \in Hooks, i \in Nat : CreateDelivery(h, i)
           \/ \E w \in Workers, d \in Ids, r \in Retries : Take(w, d, r)
           \/ \E w \in Workers : Load(w) \/ Post(w) \/ Record(w) \/ Flush(w) \/ Retry(w)
                                 \/ Ack(w) \/ TaskFails(w) \/ NodeCrash(w)
           \/ UNCHANGED deliveryVars
BY DeliveryAssumption DEF DeliveryNext, DeliveryStep, PingWebhook, TakeAny, TaskStep

\* The requests on webhooks and the purge.
LEMMA HookSteps ==
    ASSUME TypeInv, NEW h \in Hooks,
           \/ CreateWebhook(h) \/ DeleteWebhook(h) \/ RestoreWebhook(h)
           \/ \E a \in BOOLEAN : UpdateWebhook(h, a)
           \/ Purge(h)
    PROVE  TypeInv'
<1>1. /\ UNCHANGED <<queue, run, accepted, lost, crashes>>
      /\ \E a \in BOOLEAN, s \in {"absent", "present", "deleted", "purged"} :
            hooks' = [hooks EXCEPT ![h] = [active |-> a, state |-> s]]
  <2>1. hooks[h].active \in BOOLEAN
    BY DEF TypeInv, DeliveryTypeOK, Hook
  <2>. QED
    BY <2>1 DEF CreateWebhook, DeleteWebhook, RestoreWebhook, UpdateWebhook, Purge, SetHook
<1>2. hooks' \in [Hooks -> Hook]
  BY <1>1 DEF TypeInv, DeliveryTypeOK, Hook
<1>3. /\ rows' \in [Ids -> Delivery \cup {NoRow}]
      /\ \A d \in Ids : rows'[d] = NoRow <=> rows[d] = NoRow
  <2>1. CASE rows' = rows
    BY <2>1 DEF TypeInv, DeliveryTypeOK
  <2>2. CASE Purge(h)
    <3>1. \A r \in Delivery : [r EXCEPT !.status = "purged"] \in Delivery
      BY DEF Delivery, Status
    <3>2. rows' = [d \in Ids |-> IF rows[d] # NoRow /\ rows[d].hook = h
                                 THEN [rows[d] EXCEPT !.status = "purged"] ELSE rows[d]]
      BY <2>2 DEF Purge
    <3>. QED
      BY <3>1, <3>2, AbsentIsNoRow DEF TypeInv, DeliveryTypeOK
  <2>. QED
    BY <2>1, <2>2 DEF CreateWebhook, DeleteWebhook, RestoreWebhook, UpdateWebhook
<1>4. \A w \in Workers : Consistent(run'[w], rows')
  BY <1>1, <1>3 DEF TypeInv, Consistent
<1>. QED
  BY <1>1, <1>2, <1>3, <1>4 DEF TypeInv, DeliveryTypeOK, QueueConsistent

\* What create_delivery does to the tables and the queue.
LEMMA CreateEffect ==
    ASSUME TypeInv, NEW h \in Hooks, NEW i \in Nat, CreateDelivery(h, i)
    PROVE  \E d \in Ids :
              /\ rows[d] = NoRow
              /\ rows' = [rows EXCEPT ![d] = [hook |-> h, entry |-> i,
                                              status |-> "pending", attempt |-> 0]]
              /\ \/ queue' = [queue EXCEPT ![d][0] = 1] /\ lost' = lost
                 \/ lost' = lost \cup {d} /\ queue' = queue
              /\ UNCHANGED <<hooks, run, accepted, crashes>>
BY DEF CreateDelivery, NextId

\* create_delivery keeps the types.
LEMMA CreateStep ==
    ASSUME TypeInv, NEW h \in Hooks, NEW i \in Nat, CreateDelivery(h, i)
    PROVE  TypeInv'
<1> DEFINE row == [hook |-> h, entry |-> i, status |-> "pending", attempt |-> 0]
<1>1. PICK d \in Ids :
              /\ rows[d] = NoRow
              /\ rows' = [rows EXCEPT ![d] = row]
              /\ \/ queue' = [queue EXCEPT ![d][0] = 1] /\ lost' = lost
                 \/ lost' = lost \cup {d} /\ queue' = queue
              /\ UNCHANGED <<hooks, run, accepted, crashes>>
  BY CreateEffect
<1>2. row \in Delivery
  BY DEF Delivery, Status
<1> HIDE DEF row
<1>3. /\ rows' \in [Ids -> Delivery \cup {NoRow}]
      /\ \A c \in Ids : rows[c] # NoRow => rows'[c] # NoRow
      /\ rows'[d] # NoRow
  BY <1>1, <1>2, AbsentIsNoRow DEF TypeInv, DeliveryTypeOK
<1>4. queue' \in [Ids -> [Retries -> Nat]] /\ QueueConsistent(queue', rows')
  <2>0. 0 \in Retries /\ queue \in [Ids -> [Retries -> Nat]] /\ QueueConsistent(queue, rows)
    BY DeliveryAssumption DEF Retries, TypeInv, DeliveryTypeOK
  <2>1. CASE queue' = queue
    BY <1>3, <2>0, <2>1 DEF QueueConsistent
  <2>2. CASE queue' = [queue EXCEPT ![d][0] = 1]
    BY <1>3, <2>0, <2>2 DEF QueueConsistent
  <2>. QED
    BY <1>1, <2>1, <2>2
<1>5. \A w \in Workers : Consistent(run'[w], rows')
  BY <1>1, <1>3 DEF TypeInv, Consistent
<1>. QED
  BY <1>1, <1>3, <1>4, <1>5 DEF TypeInv, DeliveryTypeOK

\* A worker takes a message.
LEMMA TakeStep ==
    ASSUME TypeInv, NEW w \in Workers, NEW d \in Ids, NEW r \in Retries, Take(w, d, r)
    PROVE  TypeInv'
<1> DEFINE new == [IdleRun EXCEPT !.pc = "load", !.d = d, !.retries = r]
<1>1. new \in Run
  <2>1. [IdleRun EXCEPT !.pc = "load"] \in Run
    BY IdleRunType, RunColumns
  <2>2. [[IdleRun EXCEPT !.pc = "load"] EXCEPT !.d = d] \in Run
    BY <2>1, RunColumns
  <2>3. [[[IdleRun EXCEPT !.pc = "load"] EXCEPT !.d = d] EXCEPT !.retries = r] \in Run
    BY <2>2, RunColumns
  <2>. QED
    BY <2>3, Zenon
<1>2. new.pc = "load" /\ new.d = d
  BY DEF IdleRun
<1> HIDE DEF new
<1>3. /\ queue[d][r] > 0 /\ queue' = [queue EXCEPT ![d][r] = @ - 1]
      /\ run' = [run EXCEPT ![w] = new]
      /\ UNCHANGED <<hooks, rows, accepted, lost, crashes>>
  BY DEF Take, new
<1>4. queue \in [Ids -> [Retries -> Nat]] /\ QueueConsistent(queue, rows)
  BY DEF TypeInv, DeliveryTypeOK
<1>5. queue' \in [Ids -> [Retries -> Nat]] /\ QueueConsistent(queue', rows)
  BY <1>3, <1>4 DEF QueueConsistent
<1>6. Consistent(new, rows)
  BY <1>2, <1>3, <1>4 DEF Consistent, QueueConsistent
<1>7. accepted' \subseteq Ids /\ lost' \subseteq Ids /\ crashes' \in Nat
  BY <1>3 DEF TypeInv, DeliveryTypeOK
<1>. QED
  BY <1>1, <1>3, <1>5, <1>6, <1>7, QuietRunStep

\* What a step of a running task that reads the tables gives its worker: a run
\* on the same delivery, consistent with the table.
Continues(w, new) ==
    /\ new \in Run /\ run' = [run EXCEPT ![w] = new]
    /\ new.d = run[w].d /\ new.retries = run[w].retries
    /\ new.pc \in {"record", "flush"} => new.outcome \in {"delivered", "failed", "retrying"}

\* Load leaves a task that will go on, or one whose delivery is settled.
LEMMA LoadEffect ==
    ASSUME TypeInv, NEW w \in Workers, Load(w)
    PROVE  \E new \in Run :
              /\ Continues(w, new)
              /\ Responsible(new) \/ rows[run[w].d].status \notin Open
<1>1. run[w] \in Run /\ rows[run[w].d].attempt \in Nat
  BY Running DEF Load
<1>2. CASE Row(w).status \in {"purged", "delivered"}
  <2> DEFINE new == [run[w] EXCEPT !.pc = "ack"]
  <2>1. run' = [run EXCEPT ![w] = new]
    BY <1>2 DEF Load, Goto
  <2>2. new \in Run /\ new.d = run[w].d /\ new.retries = run[w].retries /\ new.pc = "ack"
    BY <1>1 DEF Run
  <2> HIDE DEF new
  <2>. QED
    BY <1>2, <2>1, <2>2 DEF Continues, Row, Open
<1>3. CASE Row(w).status \notin {"purged", "delivered"} /\ ~hooks[Row(w).hook].active
  <2> DEFINE new == [run[w] EXCEPT !.pc = "record", !.attempt = Row(w).attempt, !.outcome = "failed"]
  <2>1. run' = [run EXCEPT ![w] = new]
    BY <1>3 DEF Load
  <2>2. new \in Run
    <3>1. [run[w] EXCEPT !.pc = "record"] \in Run
      BY <1>1, RunColumns
    <3>2. [[run[w] EXCEPT !.pc = "record"] EXCEPT !.attempt = Row(w).attempt] \in Run
      BY <1>1, <3>1, RunColumns DEF Row
    <3>3. "failed" \in Status
      BY DEF Status
    <3>4. [[[run[w] EXCEPT !.pc = "record"] EXCEPT !.attempt = Row(w).attempt]
              EXCEPT !.outcome = "failed"] \in Run
      BY <3>2, <3>3, RunColumns
    <3>. QED
      BY <3>4, Zenon
  <2>3. new.d = run[w].d /\ new.retries = run[w].retries /\ new.pc = "record" /\ new.outcome = "failed"
    BY <1>1 DEF Run
  <2> HIDE DEF new
  <2>. QED
    BY <2>1, <2>2, <2>3 DEF Continues, Responsible
<1>4. CASE Row(w).status \notin {"purged", "delivered"} /\ hooks[Row(w).hook].active
  <2> DEFINE new == [run[w] EXCEPT !.pc = "post", !.attempt = Row(w).attempt + 1]
  <2>1. run' = [run EXCEPT ![w] = new]
    BY <1>4 DEF Load
  <2>2. new \in Run
    <3>1. [run[w] EXCEPT !.pc = "post"] \in Run
      BY <1>1, RunColumns
    <3>2. Row(w).attempt + 1 \in Nat
      BY <1>1 DEF Row
    <3>3. [[run[w] EXCEPT !.pc = "post"] EXCEPT !.attempt = Row(w).attempt + 1] \in Run
      BY <3>1, <3>2, RunColumns
    <3>. QED
      BY <3>3, Zenon
  <2>3. new.d = run[w].d /\ new.retries = run[w].retries /\ new.pc = "post"
    BY <1>1 DEF Run
  <2> HIDE DEF new
  <2>. QED
    BY <2>1, <2>2, <2>3 DEF Continues, Responsible
<1>. QED
  BY <1>2, <1>3, <1>4 DEF Load

\* Post and the SELECT of the outcome leave a task that will go on, or one that
\* has nothing to write because the delivery is settled already.
LEMMA PostEffect ==
    ASSUME TypeInv, NEW w \in Workers, Post(w)
    PROVE  \E new \in Run : Continues(w, new) /\ Responsible(new)
<1>1. run[w] \in Run
  BY Running DEF Post
<1>2. PICK o \in {"delivered", "failed", "retrying"} :
          run' = [run EXCEPT ![w] = [run[w] EXCEPT !.pc = "record", !.outcome = o]]
  BY DEF Post, Outcome
<1> DEFINE new == [run[w] EXCEPT !.pc = "record", !.outcome = o]
<1>3. new \in Run
  <2>1. [run[w] EXCEPT !.pc = "record"] \in Run
    BY <1>1, RunColumns
  <2>2. o \in Status
    BY DEF Status
  <2>3. [[run[w] EXCEPT !.pc = "record"] EXCEPT !.outcome = o] \in Run
    BY <2>1, <2>2, RunColumns
  <2>. QED
    BY <2>3, Zenon
<1>4. new.d = run[w].d /\ new.retries = run[w].retries /\ new.pc = "record" /\ new.outcome = o
  BY <1>1 DEF Run
<1>5. run' = [run EXCEPT ![w] = new]
  BY <1>2
<1> HIDE DEF new
<1>. QED
  BY <1>3, <1>4, <1>5 DEF Continues, Responsible

\* Where a task goes once its outcome is recorded.
LEMMA GotoRecorded ==
    ASSUME TypeInv, NEW w \in Workers, run[w].pc # "idle", Goto(w, Recorded(w))
    PROVE  \E new \in Run :
              /\ Continues(w, new)
              /\ new.pc \in {"retry", "ack"}
              /\ new.pc = "retry" <=> run[w].outcome = "retrying"
<1>1. run[w] \in Run
  BY Running
<1>2. PICK pc \in {"retry", "ack"} : pc = Recorded(w)
  BY DEF Recorded
<1> DEFINE new == [run[w] EXCEPT !.pc = pc]
<1>3. new \in Run /\ new.d = run[w].d /\ new.retries = run[w].retries /\ new.pc = pc
  BY <1>1 DEF Run
<1>4. run' = [run EXCEPT ![w] = new]
  BY <1>2 DEF Goto
<1> HIDE DEF new
<1>. QED
  BY <1>2, <1>3, <1>4 DEF Continues, Recorded

\* The SELECT of the outcome.
LEMMA RecordEffect ==
    ASSUME TypeInv, NEW w \in Workers, Record(w)
    PROVE  \E new \in Run :
              /\ Continues(w, new)
              /\ Responsible(new) \/ rows[run[w].d].status \notin Open
<1>1. /\ run[w] \in Run /\ rows[run[w].d].attempt \in Nat /\ rows[run[w].d].status \in Status
      /\ run[w].pc # "idle"
  BY Running DEF Record
<1>2. CASE Row(w).status = "purged"
  <2>1. Goto(w, Recorded(w))
    BY <1>2 DEF Record
  <2>2. PICK new \in Run : Continues(w, new)
    BY <1>1, <2>1, GotoRecorded
  <2>. QED
    BY <1>2, <2>2 DEF Row, Open
<1>3. CASE Row(w).status # "purged"
  <2> DEFINE new == [run[w] EXCEPT !.pc = "flush", !.seenStatus = Row(w).status,
                                   !.seenAttempt = Row(w).attempt]
  <2>1. run' = [run EXCEPT ![w] = new]
    BY <1>3 DEF Record
  <2>2. new \in Run
    <3>1. [run[w] EXCEPT !.pc = "flush"] \in Run
      BY <1>1, RunColumns
    <3>2. [[run[w] EXCEPT !.pc = "flush"] EXCEPT !.seenStatus = Row(w).status] \in Run
      BY <1>1, <3>1, RunColumns DEF Row
    <3>3. [[[run[w] EXCEPT !.pc = "flush"] EXCEPT !.seenStatus = Row(w).status]
              EXCEPT !.seenAttempt = Row(w).attempt] \in Run
      BY <1>1, <3>2, RunColumns DEF Row
    <3>. QED
      BY <3>3, Zenon
  <2>3. /\ new.d = run[w].d /\ new.retries = run[w].retries /\ new.pc = "flush"
        /\ new.outcome = run[w].outcome /\ new.seenStatus = Row(w).status
    BY <1>1 DEF Run
  <2>4. run[w].outcome \in {"delivered", "failed", "retrying"}
    BY DEF Record, TypeInv, Consistent
  <2> HIDE DEF new
  <2>5. Responsible(new) \/ rows[run[w].d].status \notin Open
    BY <2>3, <2>4 DEF Responsible, Row, Open
  <2>. QED
    BY <2>1, <2>2, <2>3, <2>4, <2>5 DEF Continues
<1>. QED
  BY <1>2, <1>3

\* The row after the COMMIT of the outcome.
Flushed(r, t) ==
    [hook |-> r.hook, entry |-> r.entry,
     status  |-> IF t.outcome # t.seenStatus THEN t.outcome ELSE r.status,
     attempt |-> IF t.attempt # t.seenAttempt THEN t.attempt ELSE r.attempt]

\* The COMMIT of the outcome writes a delivery.
LEMMA FlushEffect ==
    ASSUME TypeInv, NEW w \in Workers, Flush(w)
    PROVE  /\ rows' = [rows EXCEPT ![run[w].d] = Flushed(rows[run[w].d], run[w])]
           /\ Flushed(rows[run[w].d], run[w]) \in Delivery
           /\ Flushed(rows[run[w].d], run[w]).status =
                 IF run[w].outcome # run[w].seenStatus THEN run[w].outcome ELSE rows[run[w].d].status
<1>1. run[w] \in Run /\ rows[run[w].d] \in Delivery
  BY Running DEF Flush
<1>2. /\ run[w].outcome \in Status /\ run[w].attempt \in Nat
      /\ rows[run[w].d].hook \in Hooks /\ rows[run[w].d].entry \in Nat
      /\ rows[run[w].d].status \in Status /\ rows[run[w].d].attempt \in Nat
  BY <1>1 DEF Run, Delivery
<1>. QED
  BY <1>2 DEF Flush, Flushed, Delivery

\* A running task's next run is consistent.
LEMMA ContinuesConsistent ==
    ASSUME TypeInv, NEW w \in Workers, run[w].pc # "idle", NEW new \in Run, Continues(w, new)
    PROVE  Consistent(new, rows)
BY DEF Continues, Consistent, TypeInv

\* One more message keeps the queue typed and consistent.
LEMMA QueueMore ==
    ASSUME TypeInv, NEW d \in Ids, rows[d] # NoRow, NEW r \in Retries,
           queue' = [queue EXCEPT ![d][r] = @ + 1]
    PROVE  /\ queue' \in [Ids -> [Retries -> Nat]] /\ QueueConsistent(queue', rows)
           /\ queue'[d][r] > 0
           /\ \A c \in Ids : \A q \in Retries : queue[c][q] > 0 => queue'[c][q] > 0
<1>1. queue \in [Ids -> [Retries -> Nat]] /\ QueueConsistent(queue, rows)
  BY DEF TypeInv, DeliveryTypeOK
<1>. QED
  BY <1>1 DEF QueueConsistent

\* Steps that read, post or select.
LEMMA ReadingSteps ==
    ASSUME TypeInv, NEW w \in Workers, Load(w) \/ Post(w) \/ Record(w)
    PROVE  TypeInv'
<1>1. PICK new \in Run : Continues(w, new)
  BY LoadEffect, PostEffect, RecordEffect
<1>2. run[w].pc # "idle" /\ UNCHANGED <<hooks, rows, queue, lost, crashes>>
  BY DEF Load, Post, Record
<1>3. accepted' \subseteq Ids
  <2>1. run[w].d \in Ids
    BY <1>2, Running
  <2>2. accepted' = accepted \/ accepted' = accepted \cup {run[w].d}
    BY DEF Load, Post, Record
  <2>. QED
    BY <2>1, <2>2 DEF TypeInv, DeliveryTypeOK
<1>4. /\ queue' \in [Ids -> [Retries -> Nat]] /\ QueueConsistent(queue', rows)
      /\ lost' \subseteq Ids /\ crashes' \in Nat
  BY <1>2 DEF TypeInv, DeliveryTypeOK
<1>5. Consistent(new, rows) /\ run' = [run EXCEPT ![w] = new]
  BY <1>1, <1>2, ContinuesConsistent DEF Continues
<1>. QED
  BY <1>2, <1>3, <1>4, <1>5, QuietRunStep

\* The COMMIT of the outcome.
LEMMA FlushStep ==
    ASSUME TypeInv, NEW w \in Workers, Flush(w)
    PROVE  TypeInv'
<1> DEFINE row == Flushed(rows[run[w].d], run[w])
<1>1. run[w].pc # "idle" /\ run[w].d \in Ids
  BY Running DEF Flush
<1>2. rows' = [rows EXCEPT ![run[w].d] = row] /\ row \in Delivery
  BY FlushEffect
<1> HIDE DEF row
<1>3. /\ rows' \in [Ids -> Delivery \cup {NoRow}]
      /\ \A d \in Ids : rows[d] # NoRow => rows'[d] # NoRow
  BY <1>1, <1>2, AbsentIsNoRow DEF TypeInv, DeliveryTypeOK
<1>4. Goto(w, Recorded(w)) /\ UNCHANGED <<hooks, queue, accepted, lost, crashes>>
  BY DEF Flush
<1>5. PICK new \in Run : Continues(w, new)
  BY <1>1, <1>4, GotoRecorded
<1>6. Consistent(new, rows')
  <2>1. Consistent(new, rows)
    BY <1>1, <1>5, ContinuesConsistent
  <2>. QED
    BY <2>1, <1>3 DEF Consistent
<1>7. /\ run' \in [Workers -> Run]
      /\ \A v \in Workers : Consistent(run'[v], rows')
  BY <1>3, <1>5, <1>6, RunStep DEF Continues
<1>. QED
  BY <1>3, <1>4, <1>7 DEF TypeInv, DeliveryTypeOK, QueueConsistent

\* Steps that end a run: with an acknowledgement, an exception, or a dead node.
LEMMA EndingSteps ==
    ASSUME TypeInv, NEW w \in Workers, run[w].pc # "idle", EndRun(w),
           Retry(w) \/ Ack(w) \/ TaskFails(w) \/ NodeCrash(w)
    PROVE  TypeInv'
<1>1. run[w].d \in Ids /\ rows[run[w].d] # NoRow /\ run[w].retries \in Retries
  BY Running, AbsentIsNoRow
<1>2. /\ rows' = rows /\ hooks' = hooks /\ accepted' = accepted
      /\ lost' = lost \/ lost' = lost \cup {run[w].d}
      /\ crashes' = crashes \/ crashes' = crashes + 1
  BY DEF Retry, Ack, TaskFails, NodeCrash
<1>3. queue' \in [Ids -> [Retries -> Nat]] /\ QueueConsistent(queue', rows)
  <2>1. CASE queue' = queue
    BY <2>1 DEF TypeInv, DeliveryTypeOK
  <2>2. CASE queue' = [queue EXCEPT ![run[w].d][run[w].retries] = @ + 1]
    BY <1>1, <2>2, QueueMore
  <2>3. CASE run[w].retries < MaxRetries /\ queue' = [queue EXCEPT ![run[w].d][run[w].retries + 1] = @ + 1]
    <3>1. run[w].retries + 1 \in Retries
      BY <1>1, <2>3, DeliveryAssumption DEF Retries
    <3>. QED
      BY <1>1, <2>3, <3>1, QueueMore
  <2>. QED
    BY <2>1, <2>2, <2>3 DEF Retry, Ack, TaskFails, NodeCrash
<1>4. accepted' \subseteq Ids /\ lost' \subseteq Ids /\ crashes' \in Nat
  BY <1>1, <1>2 DEF TypeInv, DeliveryTypeOK
<1>5. IdleRun \in Run /\ Consistent(IdleRun, rows) /\ run' = [run EXCEPT ![w] = IdleRun]
  BY IdleRunType DEF EndRun
<1>. QED
  BY <1>2, <1>3, <1>4, <1>5, QuietRunStep

\* self.retry with retries left.
LEMMA RetryEffect ==
    ASSUME TypeInv, NEW w \in Workers, Retry(w), ~EndRun(w)
    PROVE  /\ \E new \in Run : Continues(w, new)
           /\ run[w].retries + 1 \in Retries
           /\ queue' = [queue EXCEPT ![run[w].d][run[w].retries + 1] = @ + 1]
           /\ UNCHANGED <<hooks, rows, accepted, lost, crashes>>
<1>1. run[w] \in Run /\ run[w].retries \in Retries
  BY Running DEF Retry
<1>2. run[w].retries < MaxRetries /\ Goto(w, "ack")
  BY DEF Retry
<1>3. run[w].retries + 1 \in Retries
  BY <1>1, <1>2, DeliveryAssumption DEF Retries
<1> DEFINE new == [run[w] EXCEPT !.pc = "ack"]
<1>4. new \in Run /\ new.d = run[w].d /\ new.retries = run[w].retries /\ new.pc = "ack"
  BY <1>1 DEF Run
<1>5. run' = [run EXCEPT ![w] = new]
  BY <1>2 DEF Goto
<1> HIDE DEF new
<1>6. \E n \in Run : Continues(w, n)
  BY <1>4, <1>5 DEF Continues
<1>. QED
  BY <1>3, <1>6 DEF Retry

\* self.retry keeps the types.
LEMMA RetryStep ==
    ASSUME TypeInv, NEW w \in Workers, Retry(w)
    PROVE  TypeInv'
<1>1. run[w].pc # "idle" /\ run[w].d \in Ids /\ rows[run[w].d] # NoRow
  BY Running, AbsentIsNoRow DEF Retry
<1>2. CASE EndRun(w)
  BY <1>1, <1>2, EndingSteps
<1>3. CASE ~EndRun(w)
  <2>1. PICK new \in Run : Continues(w, new)
    BY <1>3, RetryEffect
  <2>2. /\ queue' = [queue EXCEPT ![run[w].d][run[w].retries + 1] = @ + 1]
        /\ run[w].retries + 1 \in Retries
        /\ UNCHANGED <<hooks, rows, accepted, lost, crashes>>
    BY <1>3, RetryEffect
  <2>3. queue' \in [Ids -> [Retries -> Nat]] /\ QueueConsistent(queue', rows)
    BY <1>1, <2>2, QueueMore
  <2>4. Consistent(new, rows) /\ run' = [run EXCEPT ![w] = new]
    BY <1>1, <2>1, ContinuesConsistent DEF Continues
  <2>5. accepted' \subseteq Ids /\ lost' \subseteq Ids /\ crashes' \in Nat
    BY <2>2 DEF TypeInv, DeliveryTypeOK
  <2>. QED
    BY <2>2, <2>3, <2>4, <2>5, QuietRunStep
<1>. QED
  BY <1>2, <1>3

\* Every step keeps the types.
LEMMA TypeInvStep == TypeInv /\ [DeliveryNext]_deliveryVars => TypeInv'
<1> SUFFICES ASSUME TypeInv, [DeliveryNext]_deliveryVars PROVE TypeInv'
  OBVIOUS
<1>1. CASE UNCHANGED deliveryVars
  BY <1>1 DEF TypeInv, DeliveryTypeOK, QueueConsistent, Consistent, deliveryVars
<1>2. ASSUME NEW w \in Workers, Ack(w) \/ TaskFails(w) \/ NodeCrash(w) PROVE TypeInv'
  <2>1. run[w].pc # "idle" /\ EndRun(w)
    BY <1>2 DEF Ack, TaskFails, NodeCrash
  <2>. QED
    BY <1>2, <2>1, EndingSteps
<1>. QED
  BY <1>1, <1>2, StepCases, HookSteps, CreateStep, TakeStep, ReadingSteps, FlushStep, RetryStep

\* The type invariant holds in every state.
LEMMA TypeInvAlways == DeliverySafe => []TypeInv
<1>1. DeliveryInit => TypeInv
  BY DeliveryAssumption, IdleRunType
     DEF DeliveryInit, TypeInv, DeliveryTypeOK, QueueConsistent, Hook
<1>. QED
  BY <1>1, TypeInvStep, PTL DEF DeliverySafe

\* The tables, the queue and the workers are always well typed: no message
\* counter goes below zero, no task carries more retries than
\* WEBHOOK_MAX_RETRIES, and only statuses of the enumeration are stored.
THEOREM DeliveriesTyped == DeliverySafe => []DeliveryTypeOK
<1>1. TypeInv => DeliveryTypeOK
  BY DEF TypeInv
<1>. QED
  BY <1>1, TypeInvAlways, PTL

-----------------------------------------------------------------------------
(***************************************************************************)
(* No open delivery is forgotten.                                          *)
(***************************************************************************)

\* A delivery keeps its task through a step of worker w that takes nothing from
\* the queue, unless w was the task.
LEMMA Kept ==
    ASSUME TypeInv, NEW w \in Workers, NEW r, run' = [run EXCEPT ![w] = r],
           NEW d \in Ids, HasTask(d), lost \subseteq lost',
           \A q \in Retries : queue[d][q] > 0 => queue'[d][q] > 0,
           run[w].d = d /\ Responsible(run[w]) => HasTask(d)'
    PROVE  HasTask(d)'
<1>0. run \in [Workers -> Run]
  BY DEF TypeInv, DeliveryTypeOK
<1>1. CASE d \in lost
  BY <1>1 DEF HasTask
<1>2. CASE \E q \in Retries : queue[d][q] > 0
  BY <1>2 DEF HasTask
<1>3. ASSUME NEW v \in Workers, run[v].d = d, Responsible(run[v]) PROVE HasTask(d)'
  <2>1. CASE v = w
    BY <1>3, <2>1
  <2>2. CASE v # w
    <3>1. run'[v] = run[v]
      BY <1>0, <2>2
    <3>2. run'[v].d = d /\ Responsible(run'[v])
      BY <1>3, <3>1
    <3>. QED
      BY <3>2 DEF HasTask, Responsible
  <2>. QED
    BY <2>1, <2>2
<1>. QED
  BY <1>1, <1>2, <1>3 DEF HasTask

\* A responsible worker is a task of its delivery.
LEMMA Witness ==
    ASSUME TypeInv, NEW w \in Workers, NEW r, run' = [run EXCEPT ![w] = r],
           NEW d, r.d = d, Responsible(r)
    PROVE  HasTask(d)'
<1>1. run'[w] = r
  BY DEF TypeInv, DeliveryTypeOK
<1>. QED
  BY <1>1 DEF HasTask, Responsible

\* Requests and the purge.
LEMMA HookOpen ==
    ASSUME TypeInv, OpenInv, NEW h \in Hooks,
           \/ CreateWebhook(h) \/ DeleteWebhook(h) \/ RestoreWebhook(h)
           \/ \E a \in BOOLEAN : UpdateWebhook(h, a)
           \/ Purge(h)
    PROVE  OpenInv'
<1>1. UNCHANGED <<queue, run, lost>>
  BY DEF CreateWebhook, DeleteWebhook, RestoreWebhook, UpdateWebhook, Purge, SetHook
<1>2. ASSUME NEW d \in Ids, rows'[d] # NoRow, rows'[d].status \in Open
      PROVE  rows[d] # NoRow /\ rows[d].status \in Open
  <2>1. CASE rows' = rows
    BY <1>2, <2>1
  <2>2. CASE Purge(h)
    <3>1. rows'[d] = IF rows[d] # NoRow /\ rows[d].hook = h
                     THEN [rows[d] EXCEPT !.status = "purged"] ELSE rows[d]
      BY <2>2 DEF Purge
    <3>2. \A r \in Delivery : [r EXCEPT !.status = "purged"].status = "purged"
      BY DEF Delivery
    <3>3. rows[d] # NoRow => rows[d] \in Delivery
      BY DEF TypeInv, DeliveryTypeOK
    <3>. QED
      BY <1>2, <3>1, <3>2, <3>3 DEF Open
  <2>. QED
    BY <2>1, <2>2 DEF CreateWebhook, DeleteWebhook, RestoreWebhook, UpdateWebhook
<1>. QED
  BY <1>1, <1>2 DEF OpenInv, HasTask

\* create_delivery queues a task for the row or loses it.
LEMMA CreateOpen ==
    ASSUME TypeInv, OpenInv, NEW h \in Hooks, NEW i \in Nat, CreateDelivery(h, i)
    PROVE  OpenInv'
<1>1. PICK d \in Ids :
              /\ rows' = [rows EXCEPT ![d] = [hook |-> h, entry |-> i,
                                              status |-> "pending", attempt |-> 0]]
              /\ \/ queue' = [queue EXCEPT ![d][0] = 1] /\ lost' = lost
                 \/ lost' = lost \cup {d} /\ queue' = queue
              /\ UNCHANGED <<hooks, run, accepted, crashes>>
  BY CreateEffect
<1>2. /\ 0 \in Retries /\ queue \in [Ids -> [Retries -> Nat]]
      /\ rows \in [Ids -> Delivery \cup {NoRow}]
  BY DeliveryAssumption DEF Retries, TypeInv, DeliveryTypeOK
<1>3. HasTask(d)'
  BY <1>1, <1>2 DEF HasTask
<1>4. ASSUME NEW c \in Ids, c # d, rows'[c] # NoRow, rows'[c].status \in Open
      PROVE  HasTask(c)'
  <2>1. rows'[c] = rows[c] /\ queue'[c] = queue[c] /\ lost \subseteq lost' /\ run' = run
    BY <1>1, <1>2, <1>4
  <2>2. HasTask(c)
    BY <1>4, <2>1 DEF OpenInv
  <2>. QED
    BY <2>1, <2>2 DEF HasTask
<1>. QED
  BY <1>3, <1>4 DEF OpenInv

\* The worker that takes a message is the delivery's task.
LEMMA TakeOpen ==
    ASSUME TypeInv, OpenInv, NEW w \in Workers, NEW d \in Ids, NEW r \in Retries, Take(w, d, r)
    PROVE  OpenInv'
<1> DEFINE new == [IdleRun EXCEPT !.pc = "load", !.d = d, !.retries = r]
<1>1. new.pc = "load" /\ new.d = d
  BY DEF IdleRun
<1>2. /\ run[w].pc = "idle" /\ queue' = [queue EXCEPT ![d][r] = @ - 1]
      /\ run' = [run EXCEPT ![w] = new] /\ rows' = rows /\ lost' = lost
  BY DEF Take
<1> HIDE DEF new
<1>3. HasTask(d)'
  BY <1>1, <1>2, Witness DEF Responsible
<1>4. ASSUME NEW c \in Ids, c # d, HasTask(c) PROVE HasTask(c)'
  <2>1. queue'[c] = queue[c]
    BY <1>2, <1>4 DEF TypeInv, DeliveryTypeOK
  <2>2. ~Responsible(run[w])
    BY <1>2 DEF Responsible
  <2>. QED
    BY <1>2, <1>4, <2>1, <2>2, Kept
<1>. QED
  BY <1>2, <1>3, <1>4 DEF OpenInv

\* Reading leaves the task responsible or the delivery settled.
LEMMA ReadingOpen ==
    ASSUME TypeInv, OpenInv, NEW w \in Workers, Load(w) \/ Post(w) \/ Record(w)
    PROVE  OpenInv'
<1>1. PICK new \in Run :
          Continues(w, new) /\ (Responsible(new) \/ rows[run[w].d].status \notin Open)
  BY LoadEffect, PostEffect, RecordEffect
<1>2. UNCHANGED <<rows, queue, lost>>
  BY DEF Load, Post, Record
<1>3. run' = [run EXCEPT ![w] = new] /\ new.d = run[w].d
  BY <1>1 DEF Continues
<1>4. ASSUME NEW d \in Ids, rows'[d] # NoRow, rows'[d].status \in Open PROVE HasTask(d)'
  <2>1. HasTask(d)
    BY <1>2, <1>4 DEF OpenInv
  <2>2. run[w].d = d => HasTask(d)'
    <3>1. run[w].d = d => Responsible(new)
      BY <1>1, <1>2, <1>4
    <3>. QED
      BY <1>3, <3>1, Witness
  <2>. QED
    BY <1>2, <1>3, <2>1, <2>2, Kept
<1>. QED
  BY <1>4 DEF OpenInv

\* The COMMIT of "retrying" is followed by the retry, any other one settles the
\* delivery, and one that changes no status leaves it to the task it had.
LEMMA FlushOpen ==
    ASSUME TypeInv, OpenInv, NEW w \in Workers, Flush(w)
    PROVE  OpenInv'
<1> DEFINE row == Flushed(rows[run[w].d], run[w])
<1>1. /\ run[w].pc = "flush" /\ run[w].d \in Ids /\ rows[run[w].d] # NoRow
      /\ run[w].outcome \in {"delivered", "failed", "retrying"}
      /\ Goto(w, Recorded(w)) /\ UNCHANGED <<queue, lost>>
  BY Running, AbsentIsNoRow DEF Flush, TypeInv, Consistent
<1>2. /\ rows' = [rows EXCEPT ![run[w].d] = row]
      /\ row.status = IF run[w].outcome # run[w].seenStatus
                      THEN run[w].outcome ELSE rows[run[w].d].status
  BY FlushEffect
<1> HIDE DEF row
<1>3. PICK new \in Run : Continues(w, new) /\ (new.pc = "retry" <=> run[w].outcome = "retrying")
  BY <1>1, GotoRecorded
<1>4. run' = [run EXCEPT ![w] = new] /\ new.d = run[w].d
  BY <1>3 DEF Continues
<1>5. ASSUME NEW d \in Ids, rows'[d] # NoRow, rows'[d].status \in Open PROVE HasTask(d)'
  <2>1. CASE run[w].d = d /\ run[w].outcome = "retrying"
    BY <1>3, <1>4, <2>1, Witness DEF Responsible
  <2>2. CASE run[w].d = d /\ run[w].outcome # "retrying"
    <3>1. rows'[d] = row
      BY <1>1, <1>2, <2>2 DEF TypeInv, DeliveryTypeOK
    <3>2. run[w].outcome = run[w].seenStatus /\ rows[d].status \in Open /\ rows[d] # NoRow
      BY <1>1, <1>2, <1>5, <2>2, <3>1 DEF Open
    <3>3. HasTask(d) /\ ~Responsible(run[w])
      BY <1>1, <2>2, <3>2 DEF OpenInv, Responsible
    <3>. QED
      BY <1>1, <1>4, <3>3, Kept
  <2>3. CASE run[w].d # d
    <3>1. rows'[d] = rows[d]
      BY <1>2, <2>3 DEF TypeInv, DeliveryTypeOK
    <3>2. HasTask(d)
      BY <1>5, <3>1 DEF OpenInv
    <3>. QED
      BY <1>1, <1>4, <2>3, <3>2, Kept
  <2>. QED
    BY <2>1, <2>2, <2>3
<1>. QED
  BY <1>5 DEF OpenInv

\* A task ends when it has queued its successor, lost its message, given it back
\* to the broker, or has nothing left to do.
LEMMA EndingOpen ==
    ASSUME TypeInv, OpenInv, NEW w \in Workers,
           Retry(w) \/ Ack(w) \/ TaskFails(w) \/ NodeCrash(w)
    PROVE  OpenInv'
<1>1. PICK e \in Ids : e = run[w].d /\ rows[e] # NoRow /\ run[w].retries \in Retries
  BY Running, AbsentIsNoRow DEF Retry, Ack, TaskFails, NodeCrash
<1>2. rows' = rows /\ lost \subseteq lost'
  BY DEF Retry, Ack, TaskFails, NodeCrash
<1>3. PICK new : run' = [run EXCEPT ![w] = new]
  BY DEF Retry, Ack, TaskFails, NodeCrash, Goto, EndRun
<1>4. /\ \A d \in Ids, q \in Retries : queue[d][q] > 0 => queue'[d][q] > 0
      /\ Ack(w) \/ HasTask(e)'
  <2>1. CASE Ack(w)
    BY <2>1 DEF Ack
  <2>2. CASE queue' = queue /\ e \in lost'
    BY <2>2 DEF HasTask
  <2>3. ASSUME NEW r \in Retries, queue' = [queue EXCEPT ![e][r] = @ + 1]
        PROVE  /\ \A d \in Ids, q \in Retries : queue[d][q] > 0 => queue'[d][q] > 0
               /\ HasTask(e)'
    <3>1. queue'[e][r] > 0 /\ \A d \in Ids, q \in Retries : queue[d][q] > 0 => queue'[d][q] > 0
      BY <1>1, <2>3, QueueMore
    <3>. QED
      BY <3>1 DEF HasTask
  <2>4. CASE NodeCrash(w)
    BY <1>1, <2>3, <2>4 DEF NodeCrash
  <2>5. CASE Retry(w)
    <3>1. CASE EndRun(w) /\ queue' = queue /\ e \in lost'
      BY <1>1, <2>2, <2>5, <3>1, DeliveryAssumption DEF Retry
    <3>2. CASE ~EndRun(w)
      BY <1>1, <2>3, <2>5, <3>2, RetryEffect
    <3>3. CASE EndRun(w) /\ ~(queue' = queue /\ e \in lost')
      <4>1. run[w].retries < MaxRetries /\ queue' = [queue EXCEPT ![e][run[w].retries + 1] = @ + 1]
        BY <1>1, <2>5, <3>3 DEF Retry
      <4>2. run[w].retries + 1 \in Retries
        BY <1>1, <4>1, DeliveryAssumption DEF Retries
      <4>. QED
        BY <2>3, <4>1, <4>2
    <3>. QED
      BY <3>1, <3>2, <3>3
  <2>6. CASE TaskFails(w)
    BY <1>1, <2>2, <2>6 DEF TaskFails
  <2>. QED
    BY <2>1, <2>4, <2>5, <2>6
<1>5. Ack(w) => ~Responsible(run[w])
  BY DEF Ack, Responsible
<1>6. ASSUME NEW d \in Ids, HasTask(d) PROVE HasTask(d)'
  <2>1. run[w].d = d /\ Responsible(run[w]) => HasTask(d)'
    BY <1>1, <1>4, <1>5
  <2>. QED
    BY <1>2, <1>3, <1>4, <1>6, <2>1, Kept
<1>. QED
  BY <1>2, <1>6 DEF OpenInv

\* Every step keeps a task for every open delivery.
LEMMA OpenInvStep == TypeInv /\ OpenInv /\ [DeliveryNext]_deliveryVars => OpenInv'
<1> SUFFICES ASSUME TypeInv, OpenInv, [DeliveryNext]_deliveryVars PROVE OpenInv'
  OBVIOUS
<1>1. CASE UNCHANGED deliveryVars
  BY <1>1 DEF OpenInv, HasTask, Responsible, deliveryVars
<1>. QED
  BY <1>1, StepCases, HookOpen, CreateOpen, TakeOpen, ReadingOpen, FlushOpen, EndingOpen

\* For any number of workers and crashes: a delivery that is pending or retrying
\* has a message in the broker or a task at work on it, unless one of its
\* messages was lost with a failed task or an unreachable broker.
THEOREM NoDeliveryForgotten == DeliverySafe => []OpenHasTask
<1>1. DeliveryInit => OpenInv
  BY DEF DeliveryInit, OpenInv
<1>2. OpenInv => OpenHasTask
  BY DEF OpenInv, OpenHasTask, HasTask, Responsible, Open
<1>. QED
  BY <1>1, <1>2, TypeInvAlways, OpenInvStep, PTL DEF DeliverySafe

-----------------------------------------------------------------------------
(***************************************************************************)
(* What each step leaves its worker with.                                  *)
(***************************************************************************)
Others(w) == \A v \in Workers : v # w => run'[v] = run[v]

\* The run goes on with the same message.
SameTask(s, r) == s.d = r.d /\ s.retries = r.retries

LEMMA AtWorker ==
    ASSUME TypeInv, NEW w \in Workers, NEW r, run' = [run EXCEPT ![w] = r]
    PROVE  run'[w] = r /\ Others(w)
BY DEF TypeInv, DeliveryTypeOK, Others

LEMMA AfterTake ==
    ASSUME TypeInv, NEW w \in Workers, NEW d \in Ids, NEW r \in Retries, Take(w, d, r)
    PROVE  /\ Others(w) /\ run[w].pc = "idle"
           /\ run'[w].pc = "load" /\ run'[w].d = d /\ run'[w].retries = r
<1> DEFINE new == [IdleRun EXCEPT !.pc = "load", !.d = d, !.retries = r]
<1>1. run' = [run EXCEPT ![w] = new] /\ run[w].pc = "idle"
  BY DEF Take
<1>2. new.pc = "load" /\ new.d = d /\ new.retries = r
  BY DEF IdleRun
<1> HIDE DEF new
<1>. QED
  BY <1>1, <1>2, AtWorker

LEMMA AfterLoad ==
    ASSUME TypeInv, NEW w \in Workers, Load(w)
    PROVE  /\ Others(w) /\ SameTask(run'[w], run[w]) /\ run[w].pc = "load"
           /\ \/ run'[w].pc = "ack"
              \/ /\ rows[run[w].d].status \notin {"purged", "delivered"}
                 /\ run'[w].pc = "record" /\ run'[w].outcome = "failed"
                 /\ run'[w].attempt = rows[run[w].d].attempt
              \/ /\ rows[run[w].d].status \notin {"purged", "delivered"}
                 /\ run'[w].pc = "post"
                 /\ run'[w].attempt = rows[run[w].d].attempt + 1
<1>1. run[w] \in Run /\ run[w].pc = "load"
  BY Running DEF Load
<1>2. CASE Goto(w, "ack")
  <2> DEFINE new == [run[w] EXCEPT !.pc = "ack"]
  <2>1. run' = [run EXCEPT ![w] = new]
    BY <1>2 DEF Goto
  <2>2. new.d = run[w].d /\ new.retries = run[w].retries /\ new.pc = "ack"
    BY <1>1 DEF Run
  <2> HIDE DEF new
  <2>. QED
    BY <1>1, <2>1, <2>2, AtWorker DEF SameTask
<1>3. CASE /\ Row(w).status \notin {"purged", "delivered"}
           /\ run' = [run EXCEPT ![w] = [@ EXCEPT !.pc = "record", !.attempt = Row(w).attempt,
                                                  !.outcome = "failed"]]
  <2> DEFINE new == [run[w] EXCEPT !.pc = "record", !.attempt = Row(w).attempt, !.outcome = "failed"]
  <2>1. run' = [run EXCEPT ![w] = new]
    BY <1>3
  <2>2. /\ new.d = run[w].d /\ new.retries = run[w].retries /\ new.pc = "record"
        /\ new.outcome = "failed" /\ new.attempt = Row(w).attempt
    BY <1>1 DEF Run
  <2> HIDE DEF new
  <2>. QED
    BY <1>1, <1>3, <2>1, <2>2, AtWorker DEF SameTask, Row
<1>4. CASE /\ Row(w).status \notin {"purged", "delivered"}
           /\ run' = [run EXCEPT ![w] = [@ EXCEPT !.pc = "post", !.attempt = Row(w).attempt + 1]]
  <2> DEFINE new == [run[w] EXCEPT !.pc = "post", !.attempt = Row(w).attempt + 1]
  <2>1. run' = [run EXCEPT ![w] = new]
    BY <1>4
  <2>2. /\ new.d = run[w].d /\ new.retries = run[w].retries /\ new.pc = "post"
        /\ new.attempt = Row(w).attempt + 1
    BY <1>1 DEF Run
  <2> HIDE DEF new
  <2>. QED
    BY <1>1, <1>4, <2>1, <2>2, AtWorker DEF SameTask, Row
<1>. QED
  BY <1>2, <1>3, <1>4 DEF Load

LEMMA AfterPost ==
    ASSUME TypeInv, NEW w \in Workers, Post(w)
    PROVE  /\ Others(w) /\ SameTask(run'[w], run[w]) /\ run[w].pc = "post"
           /\ run'[w].pc = "record" /\ run'[w].attempt = run[w].attempt
           /\ accepted \subseteq accepted'
           /\ \/ run'[w].outcome = "delivered" /\ run[w].d \in accepted'
              \/ run'[w].outcome = Outcome(run[w].attempt)
<1>1. run[w] \in Run /\ run[w].pc = "post"
  BY Running DEF Post
<1>2. PICK o : /\ run' = [run EXCEPT ![w] = [@ EXCEPT !.pc = "record", !.outcome = o]]
               /\ accepted \subseteq accepted'
               /\ (o = "delivered" /\ run[w].d \in accepted') \/ o = Outcome(run[w].attempt)
  BY DEF Post
<1> DEFINE new == [run[w] EXCEPT !.pc = "record", !.outcome = o]
<1>3. run' = [run EXCEPT ![w] = new]
  BY <1>2
<1>4. /\ new.d = run[w].d /\ new.retries = run[w].retries /\ new.pc = "record"
      /\ new.attempt = run[w].attempt /\ new.outcome = o
  BY <1>1 DEF Run
<1> HIDE DEF new
<1>5. run'[w] = new /\ Others(w)
  BY <1>3, AtWorker
<1>. QED
  BY <1>1, <1>2, <1>4, <1>5 DEF SameTask

\* Once the outcome is recorded, or found to be about a purged row.
LEMMA AfterRecorded ==
    ASSUME TypeInv, NEW w \in Workers, run[w].pc # "idle", Goto(w, Recorded(w))
    PROVE  /\ Others(w) /\ SameTask(run'[w], run[w])
           /\ \/ run'[w].pc = "retry" /\ run[w].outcome = "retrying"
              \/ run'[w].pc = "ack" /\ run[w].outcome # "retrying"
<1>1. run[w] \in Run
  BY Running
<1>2. PICK pc : pc = Recorded(w)
  OBVIOUS
<1> DEFINE new == [run[w] EXCEPT !.pc = pc]
<1>3. run' = [run EXCEPT ![w] = new]
  BY <1>2 DEF Goto
<1>4. new.d = run[w].d /\ new.retries = run[w].retries /\ new.pc = pc
  BY <1>1 DEF Run
<1> HIDE DEF new
<1>5. run'[w] = new /\ Others(w)
  BY <1>3, AtWorker
<1>. QED
  BY <1>2, <1>4, <1>5 DEF SameTask, Recorded

LEMMA AfterRecord ==
    ASSUME TypeInv, NEW w \in Workers, Record(w)
    PROVE  /\ Others(w) /\ SameTask(run'[w], run[w]) /\ run[w].pc = "record"
           /\ \/ /\ rows[run[w].d].status = "purged"
                 /\ \/ run'[w].pc = "retry" /\ run[w].outcome = "retrying"
                    \/ run'[w].pc = "ack" /\ run[w].outcome # "retrying"
              \/ /\ run'[w].pc = "flush" /\ run'[w].attempt = run[w].attempt
                 /\ run'[w].outcome = run[w].outcome
                 /\ run'[w].seenStatus = rows[run[w].d].status
                 /\ run'[w].seenAttempt = rows[run[w].d].attempt
<1>1. run[w] \in Run /\ run[w].pc = "record"
  BY Running DEF Record
<1>2. CASE Row(w).status = "purged"
  <2>1. Goto(w, Recorded(w))
    BY <1>2 DEF Record
  <2>. QED
    BY <1>1, <1>2, <2>1, AfterRecorded DEF Row
<1>3. CASE Row(w).status # "purged"
  <2> DEFINE new == [run[w] EXCEPT !.pc = "flush", !.seenStatus = Row(w).status,
                                   !.seenAttempt = Row(w).attempt]
  <2>1. run' = [run EXCEPT ![w] = new]
    BY <1>3 DEF Record
  <2>2. /\ new.d = run[w].d /\ new.retries = run[w].retries /\ new.pc = "flush"
        /\ new.attempt = run[w].attempt /\ new.outcome = run[w].outcome
        /\ new.seenStatus = Row(w).status /\ new.seenAttempt = Row(w).attempt
    BY <1>1 DEF Run
  <2> HIDE DEF new
  <2>. QED
    BY <1>1, <2>1, <2>2, AtWorker DEF SameTask, Row
<1>. QED
  BY <1>2, <1>3

\* self.retry, as long as retries are left.
LEMMA AfterRetry ==
    ASSUME TypeInv, NEW w \in Workers, Retry(w), run[w].retries < MaxRetries
    PROVE  /\ Others(w) /\ SameTask(run'[w], run[w]) /\ run'[w].pc = "ack"
<1>1. run[w] \in Run /\ run[w].retries \in Nat /\ MaxRetries \in Nat
  BY Running, DeliveryAssumption DEF Retry, Retries
<1>2. Goto(w, "ack")
  BY <1>1 DEF Retry
<1> DEFINE new == [run[w] EXCEPT !.pc = "ack"]
<1>3. run' = [run EXCEPT ![w] = new]
  BY <1>2 DEF Goto
<1>4. new.d = run[w].d /\ new.retries = run[w].retries /\ new.pc = "ack"
  BY <1>1 DEF Run
<1> HIDE DEF new
<1>. QED
  BY <1>3, <1>4, AtWorker DEF SameTask

LEMMA AfterEnd ==
    ASSUME TypeInv, NEW w \in Workers, EndRun(w)
    PROVE  Others(w) /\ run'[w].pc = "idle" /\ run'[w].d = 0
<1>1. run' = [run EXCEPT ![w] = IdleRun]
  BY DEF EndRun
<1>2. run'[w] = IdleRun /\ Others(w)
  BY <1>1, AtWorker
<1>. QED
  BY <1>2 DEF IdleRun

-----------------------------------------------------------------------------
(***************************************************************************)
(* As long as no node has died, a delivery has one message or one task.    *)
(***************************************************************************)
Live(r) == r.pc \notin {"idle", "ack"}

Alone(q, rn, d) ==
    /\ \A r \in Retries : q[d][r] <= 1
    /\ \A r, s \in Retries : q[d][r] > 0 /\ q[d][s] > 0 => r = s
    /\ \A r \in Retries, w \in Workers : q[d][r] > 0 /\ rn[w].d = d => ~Live(rn[w])
    /\ \A v, w \in Workers : rn[v].d = d /\ rn[w].d = d /\ Live(rn[v]) /\ Live(rn[w]) => v = w

\* The row is still open, and has counted n attempts.
Going(row, n) == row.status # "purged" => row.status \in Open /\ n <= row.attempt

\* The run and its row agree about the attempts made, and what the run has
\* loaded is what the row holds.
InStep(r, row) ==
    /\ Live(r) => row.status \in Open \cup {"purged"}
    /\ r.pc = "load" => Going(row, r.retries)
    /\ r.pc = "post" => r.retries < r.attempt
    /\ r.pc \in {"record", "flush"} /\ r.outcome = "retrying" =>
          r.retries < r.attempt /\ r.attempt < MaxAttempts
    /\ r.pc = "flush" /\ row.status # "purged" =>
          r.seenStatus = row.status /\ r.seenAttempt = row.attempt
    /\ r.pc = "retry" => r.retries < MaxRetries /\ Going(row, r.retries + 1)

Ordered(q, rn, t, d) ==
    /\ Alone(q, rn, d)
    /\ \A r \in Retries : q[d][r] > 0 => Going(t[d], r)
    /\ \A w \in Workers : rn[w].d = d => InStep(rn[w], t[d])

OrderInv == crashes = 0 => \A d \in Ids : Ordered(queue, run, rows, d)

LEMMA IdleInStep == \A r, row : r.pc \in {"idle", "ack"} => ~Live(r) /\ InStep(r, row)
BY DEF Live, InStep

\* A running task whose step leaves rows and messages alone.
LEMMA RunOrder ==
    ASSUME TypeInv, NEW w \in Workers, Others(w), UNCHANGED <<rows, queue>>,
           NEW d \in Ids, Ordered(queue, run, rows, d),
           run'[w].d = d => /\ InStep(run'[w], rows[d])
                            /\ Live(run'[w]) => Live(run[w]) /\ run[w].d = d
    PROVE  Ordered(queue', run', rows', d)
<1>1. Alone(queue', run', d)
  BY DEF Ordered, Alone, Others
<1>2. \A v \in Workers : run'[v].d = d => InStep(run'[v], rows'[d])
  BY DEF Ordered, Others
<1>. QED
  BY <1>1, <1>2 DEF Ordered

LEMMA LoadOrder ==
    ASSUME TypeInv, NEW w \in Workers, Load(w), NEW d \in Ids, Ordered(queue, run, rows, d)
    PROVE  Ordered(queue', run', rows', d)
<1>1. UNCHANGED <<rows, queue>> /\ run[w].pc = "load" /\ Live(run[w])
  BY DEF Load, Live
<1>2. Others(w) /\ run'[w].d = run[w].d /\ run'[w].retries = run[w].retries
  BY AfterLoad DEF SameTask
<1>3. ASSUME run[w].d = d PROVE InStep(run'[w], rows[d])
  <2>1. Going(rows[d], run[w].retries) /\ rows[d].status \in Open \cup {"purged"}
    BY <1>1, <1>3 DEF Ordered, InStep
  <2>2. run[w].retries \in Nat /\ rows[d].attempt \in Nat
    BY <1>1, <1>3, Running DEF Retries
  <2>3. CASE run'[w].pc = "ack"
    BY <2>3, IdleInStep
  <2>4. CASE run'[w].pc = "record" /\ run'[w].outcome = "failed"
    BY <2>1, <2>4 DEF InStep
  <2>5. CASE /\ rows[d].status \notin {"purged", "delivered"} /\ run'[w].pc = "post"
             /\ run'[w].attempt = rows[d].attempt + 1
    <3>1. run[w].retries < rows[d].attempt + 1
      BY <2>1, <2>2, <2>5 DEF Going
    <3>. QED
      BY <1>2, <2>1, <2>5, <3>1 DEF InStep
  <2>. QED
    BY <1>3, <2>3, <2>4, <2>5, AfterLoad
<1>. QED
  BY <1>1, <1>2, <1>3, RunOrder

LEMMA PostOrder ==
    ASSUME TypeInv, NEW w \in Workers, Post(w), NEW d \in Ids, Ordered(queue, run, rows, d)
    PROVE  Ordered(queue', run', rows', d)
<1>1. UNCHANGED <<rows, queue>> /\ run[w].pc = "post" /\ Live(run[w])
  BY DEF Post, Live
<1>2. /\ Others(w) /\ run'[w].d = run[w].d /\ run'[w].retries = run[w].retries
      /\ run'[w].pc = "record" /\ run'[w].attempt = run[w].attempt
      /\ run'[w].outcome \in {"delivered", Outcome(run[w].attempt)}
  BY AfterPost DEF SameTask
<1>3. run'[w].outcome = "retrying" => run[w].attempt < MaxAttempts
  BY <1>2 DEF Outcome
<1>4. ASSUME run[w].d = d PROVE InStep(run'[w], rows[d])
  <2>1. run[w].retries < run[w].attempt /\ rows[d].status \in Open \cup {"purged"}
    BY <1>1, <1>4 DEF Ordered, InStep
  <2>. QED
    BY <1>2, <1>3, <2>1 DEF InStep
<1>. QED
  BY <1>1, <1>2, <1>4, RunOrder

LEMMA RecordOrder ==
    ASSUME TypeInv, NEW w \in Workers, Record(w), NEW d \in Ids, Ordered(queue, run, rows, d)
    PROVE  Ordered(queue', run', rows', d)
<1>1. UNCHANGED <<rows, queue>> /\ run[w].pc = "record" /\ Live(run[w])
  BY DEF Record, Live
<1>2. Others(w) /\ run'[w].d = run[w].d /\ run'[w].retries = run[w].retries
  BY AfterRecord DEF SameTask
<1>3. ASSUME run[w].d = d PROVE InStep(run'[w], rows[d])
  <2>1. /\ rows[d].status \in Open \cup {"purged"}
        /\ run[w].outcome = "retrying" => run[w].retries < run[w].attempt /\ run[w].attempt < MaxAttempts
    BY <1>1, <1>3 DEF Ordered, InStep
  <2>2. run[w].retries \in Nat /\ run[w].attempt \in Nat /\ MaxRetries \in Nat
    BY <1>1, Running, DeliveryAssumption DEF Retries
  <2>3. CASE rows[d].status = "purged" /\ run'[w].pc = "retry" /\ run[w].outcome = "retrying"
    <3>1. run[w].retries < MaxRetries
      BY <2>1, <2>2, <2>3 DEF MaxAttempts
    <3>. QED
      BY <1>2, <2>3, <3>1 DEF InStep, Going
  <2>4. CASE run'[w].pc = "ack"
    BY <2>4, IdleInStep
  <2>5. CASE /\ run'[w].pc = "flush" /\ run'[w].attempt = run[w].attempt
             /\ run'[w].outcome = run[w].outcome
             /\ run'[w].seenStatus = rows[d].status /\ run'[w].seenAttempt = rows[d].attempt
    BY <1>2, <2>1, <2>5 DEF InStep
  <2>. QED
    BY <1>3, <2>3, <2>4, <2>5, AfterRecord
<1>. QED
  BY <1>1, <1>2, <1>3, RunOrder

\* The COMMIT: nobody else has touched the row since the SELECT, so it now
\* holds the outcome.
LEMMA FlushOrder ==
    ASSUME TypeInv, NEW w \in Workers, Flush(w), NEW d \in Ids, Ordered(queue, run, rows, d)
    PROVE  /\ Ordered(queue', run', rows', d)
           /\ run[w].d = d => rows[d].status \in Open
<1>1. /\ UNCHANGED queue /\ run[w].pc = "flush" /\ Live(run[w]) /\ Goto(w, Recorded(w))
      /\ rows[run[w].d].status # "purged" /\ run[w].d \in Ids
  BY Running DEF Flush, Live, Row
<1>2. Others(w) /\ run'[w].d = run[w].d /\ run'[w].retries = run[w].retries
  BY <1>1, AfterRecorded DEF SameTask
<1>3. /\ run'[w].pc \in {"retry", "ack"}
      /\ run'[w].pc = "retry" => run[w].outcome = "retrying"
  BY <1>1, AfterRecorded
<1>4. \A c \in Ids : c # run[w].d => rows'[c] = rows[c]
  BY DEF Flush, TypeInv, DeliveryTypeOK
<1>5. CASE run[w].d # d
  <2>1. rows'[d] = rows[d]
    BY <1>4, <1>5
  <2>2. Alone(queue', run', d)
    BY <1>1, <1>2, <1>5 DEF Ordered, Alone, Others
  <2>3. \A v \in Workers : run'[v].d = d => InStep(run'[v], rows[d])
    BY <1>2, <1>5 DEF Ordered, Others
  <2>. QED
    BY <1>1, <1>5, <2>1, <2>2, <2>3 DEF Ordered
<1>6. CASE run[w].d = d
  <2>1. /\ rows[d].status \in Open
        /\ run[w].seenStatus = rows[d].status /\ run[w].seenAttempt = rows[d].attempt
        /\ run[w].outcome = "retrying" => run[w].retries < run[w].attempt /\ run[w].attempt < MaxAttempts
    BY <1>1, <1>6 DEF Ordered, InStep
  <2>2. rows'[d] = Flushed(rows[d], run[w])
    BY <1>6, FlushEffect DEF TypeInv, DeliveryTypeOK
  <2>3. rows'[d].status = run[w].outcome /\ rows'[d].attempt = run[w].attempt
    BY <2>1, <2>2 DEF Flushed
  <2>4. \A v \in Workers : v # w /\ run[v].d = d => ~Live(run[v])
    BY <1>1, <1>6 DEF Ordered, Alone
  <2>5. \A r \in Retries : ~(queue[d][r] > 0)
    BY <1>1, <1>6 DEF Ordered, Alone
  <2>6. run[w].retries \in Nat /\ run[w].attempt \in Nat /\ MaxRetries \in Nat
    BY <1>1, Running, DeliveryAssumption DEF Retries
  <2>7. InStep(run'[w], rows'[d])
    <3>1. CASE run'[w].pc = "ack"
      BY <3>1, IdleInStep
    <3>2. CASE run'[w].pc = "retry"
      <4>1. run[w].retries < MaxRetries /\ run[w].retries + 1 <= run[w].attempt
        BY <1>3, <2>1, <2>6, <3>2 DEF MaxAttempts
      <4>. QED
        BY <1>2, <1>3, <2>3, <3>2, <4>1 DEF InStep, Going, Open
    <3>. QED
      BY <1>3, <3>1, <3>2
  <2>8. \A v \in Workers : v # w /\ run'[v].d = d => ~Live(run'[v]) /\ InStep(run'[v], rows'[d])
    BY <1>2, <2>4 DEF Others, Live, InStep
  <2>9. Alone(queue', run', d)
    BY <1>1, <2>5, <2>8 DEF Ordered, Alone
  <2>. QED
    BY <1>1, <2>1, <2>5, <2>7, <2>8, <2>9 DEF Ordered
<1>. QED
  BY <1>5, <1>6

LEMMA RetryOrder ==
    ASSUME TypeInv, NEW w \in Workers, Retry(w), NEW d \in Ids, Ordered(queue, run, rows, d)
    PROVE  Ordered(queue', run', rows', d)
<1>1. /\ run[w].pc = "retry" /\ Live(run[w]) /\ UNCHANGED rows /\ run[w].d \in Ids
      /\ run[w].retries \in Nat /\ MaxRetries \in Nat /\ run[w].retries \in Retries
  BY Running, DeliveryAssumption DEF Retry, Live, Retries
<1>2. CASE run[w].retries = MaxRetries
  <2>1. EndRun(w) /\ UNCHANGED queue
    BY <1>1, <1>2 DEF Retry
  <2>2. Others(w) /\ run'[w].pc = "idle"
    BY <2>1, AfterEnd
  <2>. QED
    BY <1>1, <2>1, <2>2, RunOrder, IdleInStep
<1>3. CASE run[w].retries < MaxRetries
  <2> DEFINE r1 == run[w].retries + 1
             e == run[w].d
  <2>1. queue' = [queue EXCEPT ![e][r1] = @ + 1]
    BY <1>1, <1>3 DEF Retry
  <2>2. Others(w) /\ run'[w].d = e /\ run'[w].pc = "ack"
    BY <1>3, AfterRetry DEF SameTask
  <2>3. r1 \in Retries
    BY <1>1, <1>3 DEF Retries
  <2>4. queue[e][r1] \in Nat
    BY <1>1, <2>3 DEF TypeInv, DeliveryTypeOK
  <2>5. \A c \in Ids, r \in Retries :
            queue'[c][r] = IF c = e /\ r = r1 THEN queue[e][r1] + 1 ELSE queue[c][r]
    BY <1>1, <2>1, <2>3 DEF TypeInv, DeliveryTypeOK
  <2>6. e \in Ids /\ (run[w].pc = "retry" /\ run[w].d = e)
    BY <1>1
  <2>7. d = e => Going(rows[d], r1)
    BY <1>1 DEF Ordered, InStep
  <2> HIDE DEF r1, e
  <2>8. CASE d # e
    <3>1. \A r \in Retries : queue'[d][r] = queue[d][r]
      BY <2>5, <2>8
    <3>2. Alone(queue', run', d)
      BY <2>2, <2>8, <3>1 DEF Ordered, Alone, Others
    <3>3. \A v \in Workers : run'[v].d = d => InStep(run'[v], rows[d])
      BY <2>2, <2>8 DEF Ordered, Others
    <3>. QED
      BY <1>1, <3>1, <3>2, <3>3 DEF Ordered
  <2>9. CASE d = e
    <3>1. \A r \in Retries : ~(queue[d][r] > 0) /\ queue[d][r] \in Nat
      BY <1>1, <2>6, <2>9 DEF Ordered, Alone, TypeInv, DeliveryTypeOK
    <3>2. \A r \in Retries : queue'[d][r] = IF r = r1 THEN 1 ELSE 0
      BY <2>3, <2>5, <2>9, <3>1
    <3>3. \A v \in Workers : run'[v].d = d => ~Live(run'[v]) /\ InStep(run'[v], rows[d])
      <4>1. \A v \in Workers : v # w /\ run[v].d = d => ~Live(run[v])
        BY <1>1, <2>6, <2>9 DEF Ordered, Alone
      <4>. QED
        BY <2>2, <4>1, IdleInStep DEF Others, Live
    <3>4. Alone(queue', run', d)
      BY <3>2, <3>3 DEF Alone
    <3>. QED
      BY <1>1, <2>7, <2>9, <3>2, <3>3, <3>4 DEF Ordered
  <2>. QED
    BY <2>8, <2>9
<1>. QED
  BY <1>2, <1>3 DEF Retry

LEMMA EndOrder ==
    ASSUME TypeInv, NEW w \in Workers, Ack(w) \/ TaskFails(w), NEW d \in Ids,
           Ordered(queue, run, rows, d)
    PROVE  Ordered(queue', run', rows', d)
<1>1. EndRun(w) /\ UNCHANGED <<rows, queue>>
  BY DEF Ack, TaskFails
<1>2. Others(w) /\ run'[w].pc = "idle"
  BY <1>1, AfterEnd
<1>. QED
  BY <1>1, <1>2, RunOrder, IdleInStep

LEMMA TakeOrder ==
    ASSUME TypeInv, NEW w \in Workers, NEW e \in Ids, NEW q \in Retries, Take(w, e, q),
           NEW d \in Ids, Ordered(queue, run, rows, d)
    PROVE  Ordered(queue', run', rows', d)
<1>1. /\ Others(w) /\ run[w].pc = "idle"
      /\ run'[w].pc = "load" /\ run'[w].d = e /\ run'[w].retries = q
  BY AfterTake
<1>2. /\ queue' = [queue EXCEPT ![e][q] = @ - 1] /\ queue[e][q] > 0 /\ UNCHANGED rows
  BY DEF Take
<1>3. queue[e][q] \in Nat /\ \A r \in Retries : queue[d][r] \in Nat
  BY DEF TypeInv, DeliveryTypeOK
<1>4. \A c \in Ids, r \in Retries :
          queue'[c][r] = IF c = e /\ r = q THEN queue[e][q] - 1 ELSE queue[c][r]
  BY <1>2 DEF TypeInv, DeliveryTypeOK
<1>5. CASE d # e
  <2>1. \A r \in Retries : queue'[d][r] = queue[d][r]
    BY <1>4, <1>5
  <2>2. Alone(queue', run', d)
    BY <1>1, <1>5, <2>1 DEF Ordered, Alone, Others
  <2>3. \A v \in Workers : run'[v].d = d => InStep(run'[v], rows[d])
    BY <1>1, <1>5 DEF Ordered, Others
  <2>. QED
    BY <1>2, <2>1, <2>2, <2>3 DEF Ordered
<1>6. CASE d = e
  <2>1. /\ queue[d][q] <= 1 /\ Going(rows[d], q)
        /\ \A r \in Retries : r # q => ~(queue[d][r] > 0)
        /\ \A v \in Workers : run[v].d = d => ~Live(run[v])
    BY <1>2, <1>6 DEF Ordered, Alone
  <2>2. \A r \in Retries : queue'[d][r] = 0
    BY <1>2, <1>3, <1>4, <1>6, <2>1
  <2>3. \A v \in Workers : v # w /\ run'[v].d = d => ~Live(run'[v]) /\ InStep(run'[v], rows[d])
    BY <1>1, <2>1, IdleInStep DEF Others, Live
  <2>4. InStep(run'[w], rows[d])
    BY <1>1, <2>1 DEF InStep, Going, Open
  <2>5. Alone(queue', run', d)
    BY <2>2, <2>3 DEF Alone
  <2>. QED
    BY <1>2, <2>2, <2>3, <2>4, <2>5 DEF Ordered
<1>. QED
  BY <1>5, <1>6

\* A row that was not there has neither messages nor tasks.
LEMMA AbsentUnused ==
    ASSUME TypeInv, NEW d \in Ids, rows[d] = NoRow
    PROVE  /\ \A r \in Retries : queue[d][r] = 0
           /\ \A w \in Workers : run[w].d = d => run[w].pc = "idle"
<1>1. \A r \in Retries : queue[d][r] \in Nat /\ ~(queue[d][r] > 0)
  BY DEF TypeInv, DeliveryTypeOK, QueueConsistent
<1>. QED
  BY <1>1 DEF TypeInv, Consistent

LEMMA CreateOrder ==
    ASSUME TypeInv, NEW h \in Hooks, NEW i \in Nat, CreateDelivery(h, i),
           NEW d \in Ids, Ordered(queue, run, rows, d)
    PROVE  Ordered(queue', run', rows', d)
<1> DEFINE row == [hook |-> h, entry |-> i, status |-> "pending", attempt |-> 0]
<1>1. PICK e \in Ids :
              /\ rows[e] = NoRow
              /\ rows' = [rows EXCEPT ![e] = row]
              /\ \/ queue' = [queue EXCEPT ![e][0] = 1] /\ lost' = lost
                 \/ lost' = lost \cup {e} /\ queue' = queue
              /\ UNCHANGED <<hooks, run, accepted, crashes>>
  BY CreateEffect
<1>2. row.status = "pending" /\ row.attempt = 0
  OBVIOUS
<1> HIDE DEF row
<1>3. rows'[e] = row /\ \A c \in Ids : c # e => rows'[c] = rows[c]
  BY <1>1 DEF TypeInv, DeliveryTypeOK
<1>4. 0 \in Retries
  BY DeliveryAssumption DEF Retries
<1>5. CASE d # e
  <2>1. \A r \in Retries : queue'[d][r] = queue[d][r]
    BY <1>1, <1>4, <1>5 DEF TypeInv, DeliveryTypeOK
  <2>. QED
    BY <1>1, <1>3, <1>5, <2>1 DEF Ordered, Alone
<1>6. CASE d = e
  <2>1. /\ \A r \in Retries : queue[d][r] = 0
        /\ \A w \in Workers : run[w].d = d => run[w].pc = "idle"
    BY <1>1, <1>6, AbsentUnused
  <2>2. \A r \in Retries : queue'[d][r] = 0 \/ (r = 0 /\ queue'[d][r] = 1)
    <3>1. queue \in [Ids -> [Retries -> Nat]]
      BY DEF TypeInv, DeliveryTypeOK
    <3>2. CASE queue' = queue
      BY <2>1, <3>2
    <3>3. CASE queue' = [queue EXCEPT ![e][0] = 1]
      BY <1>4, <1>6, <2>1, <3>1, <3>3
    <3>. QED
      BY <1>1, <3>2, <3>3
  <2>3. \A w \in Workers : run'[w].d = d => ~Live(run'[w]) /\ InStep(run'[w], rows'[d])
    BY <1>1, <2>1, IdleInStep
  <2>4. Going(rows'[d], 0)
    BY <1>2, <1>3, <1>6 DEF Going, Open
  <2>5. Alone(queue', run', d)
    BY <2>2, <2>3 DEF Alone
  <2>. QED
    BY <2>2, <2>3, <2>4, <2>5 DEF Ordered
<1>. QED
  BY <1>5, <1>6

LEMMA HookOrder ==
    ASSUME TypeInv, NEW h \in Hooks,
           \/ CreateWebhook(h) \/ DeleteWebhook(h) \/ RestoreWebhook(h)
           \/ \E a \in BOOLEAN : UpdateWebhook(h, a)
           \/ Purge(h),
           NEW d \in Ids, Ordered(queue, run, rows, d)
    PROVE  Ordered(queue', run', rows', d)
<1>1. UNCHANGED <<queue, run>>
  BY DEF CreateWebhook, DeleteWebhook, RestoreWebhook, UpdateWebhook, Purge, SetHook
<1>2. rows'[d] = rows[d] \/ (rows'[d].status = "purged" /\ rows[d] # NoRow)
  <2>1. CASE Purge(h)
    <3>1. rows[d] # NoRow => [rows[d] EXCEPT !.status = "purged"].status = "purged"
      BY DEF TypeInv, DeliveryTypeOK, Delivery
    <3>2. rows'[d] = rows[d] \/ (rows[d] # NoRow /\ rows'[d] = [rows[d] EXCEPT !.status = "purged"])
      BY <2>1 DEF Purge
    <3>. QED
      BY <3>1, <3>2
  <2>2. CASE ~Purge(h)
    BY <2>2 DEF CreateWebhook, DeleteWebhook, RestoreWebhook, UpdateWebhook
  <2>. QED
    BY <2>1, <2>2
<1>3. CASE rows'[d] = rows[d]
  BY <1>1, <1>3 DEF Ordered
<1>4. CASE rows'[d].status = "purged"
  <2>1. \A w \in Workers : run[w].d = d => InStep(run[w], rows'[d])
    BY <1>4 DEF Ordered, InStep, Going
  <2>2. \A r \in Retries : queue[d][r] > 0 => Going(rows'[d], r)
    BY <1>4 DEF Going
  <2>. QED
    BY <1>1, <2>1, <2>2 DEF Ordered
<1>. QED
  BY <1>2, <1>3, <1>4

\* Every step but a node's death keeps the order.
LEMMA OrderInvStep == TypeInv /\ OrderInv /\ [DeliveryNext]_deliveryVars => OrderInv'
<1> SUFFICES ASSUME TypeInv, OrderInv, [DeliveryNext]_deliveryVars, crashes' = 0, NEW d \in Ids
             PROVE  Ordered(queue', run', rows', d)
  BY DEF OrderInv
<1>1. CASE UNCHANGED deliveryVars
  BY <1>1 DEF OrderInv, deliveryVars
<1>2. ASSUME NEW w \in Workers, NodeCrash(w) PROVE FALSE
  <2>1. crashes \in Nat /\ crashes' = crashes + 1
    BY <1>2 DEF NodeCrash, TypeInv, DeliveryTypeOK
  <2>. QED
    BY <2>1
<1>3. ASSUME ~UNCHANGED deliveryVars PROVE crashes = 0
  BY <1>2, <1>3, StepCases
     DEF CreateWebhook, DeleteWebhook, RestoreWebhook, UpdateWebhook, Purge, SetHook, CreateDelivery,
         Take, Load, Post, Record, Flush, Retry, Ack, TaskFails
<1>4. ASSUME ~UNCHANGED deliveryVars PROVE Ordered(queue, run, rows, d)
  BY <1>3, <1>4 DEF OrderInv
<1>. QED
  BY <1>1, <1>2, <1>4, StepCases, HookOrder, CreateOrder, TakeOrder, LoadOrder, PostOrder,
     RecordOrder, FlushOrder, RetryOrder, EndOrder

-----------------------------------------------------------------------------
(***************************************************************************)
(* Delivered means accepted, and settled stays settled.                    *)
(***************************************************************************)
AcceptedInv ==
    /\ \A d \in Ids : rows[d] # NoRow /\ rows[d].status = "delivered" => d \in accepted
    /\ \A w \in Workers :
          run[w].pc \in {"record", "flush"} /\ run[w].outcome = "delivered" => run[w].d \in accepted

\* A run that goes on recording what it has recorded, or something else.
LEMMA RunAccepted ==
    ASSUME AcceptedInv, NEW w \in Workers, Others(w), UNCHANGED rows, accepted \subseteq accepted',
           run'[w].pc \in {"record", "flush"} /\ run'[w].outcome = "delivered" =>
               run'[w].d \in accepted'
    PROVE  AcceptedInv'
BY DEF AcceptedInv, Others

LEMMA FlushAccepted ==
    ASSUME TypeInv, AcceptedInv, NEW w \in Workers, Flush(w)
    PROVE  AcceptedInv'
<1>1. /\ run[w].pc = "flush" /\ Goto(w, Recorded(w)) /\ UNCHANGED accepted /\ run[w].d \in Ids
      /\ rows \in [Ids -> Delivery \cup {NoRow}] /\ rows[run[w].d] # NoRow
  BY Running, AbsentIsNoRow DEF Flush, TypeInv, DeliveryTypeOK
<1>2. Others(w) /\ run'[w].pc \in {"retry", "ack"}
  BY <1>1, AfterRecorded
<1>3. /\ \A c \in Ids : c # run[w].d => rows'[c] = rows[c]
      /\ rows'[run[w].d] = Flushed(rows[run[w].d], run[w])
  BY <1>1, FlushEffect
<1>4. rows'[run[w].d].status \in {run[w].outcome, rows[run[w].d].status}
  BY <1>3 DEF Flushed
<1>. QED
  BY <1>1, <1>2, <1>3, <1>4 DEF AcceptedInv, Others

LEMMA AcceptedInvStep == TypeInv /\ AcceptedInv /\ [DeliveryNext]_deliveryVars => AcceptedInv'
<1> SUFFICES ASSUME TypeInv, AcceptedInv, [DeliveryNext]_deliveryVars PROVE AcceptedInv'
  OBVIOUS
<1>1. CASE UNCHANGED deliveryVars
  BY <1>1 DEF AcceptedInv, deliveryVars
<1>2. ASSUME NEW h \in Hooks,
             \/ CreateWebhook(h) \/ DeleteWebhook(h) \/ RestoreWebhook(h)
             \/ \E a \in BOOLEAN : UpdateWebhook(h, a)
      PROVE  AcceptedInv'
  BY <1>2 DEF CreateWebhook, DeleteWebhook, RestoreWebhook, UpdateWebhook, SetHook, AcceptedInv
<1>3. ASSUME NEW h \in Hooks, Purge(h) PROVE AcceptedInv'
  <2>1. \A d \in Ids : rows'[d] = rows[d] \/ rows'[d].status = "purged"
    <3>1. \A d \in Ids : rows[d] # NoRow => [rows[d] EXCEPT !.status = "purged"].status = "purged"
      BY DEF TypeInv, DeliveryTypeOK, Delivery
    <3>. QED
      BY <1>3, <3>1 DEF Purge
  <2>2. UNCHANGED <<run, accepted>>
    BY <1>3 DEF Purge, SetHook
  <2>. QED
    BY <2>1, <2>2 DEF AcceptedInv
<1>4. ASSUME NEW h \in Hooks, NEW i \in Nat, CreateDelivery(h, i) PROVE AcceptedInv'
  <2>1. PICK e \in Ids : rows' = [rows EXCEPT ![e] = [hook |-> h, entry |-> i,
                                                      status |-> "pending", attempt |-> 0]]
    BY <1>4, CreateEffect
  <2>2. UNCHANGED <<run, accepted>>
    BY <1>4 DEF CreateDelivery
  <2>3. \A d \in Ids : rows'[d] = rows[d] \/ rows'[d].status = "pending"
    BY <2>1 DEF TypeInv, DeliveryTypeOK
  <2>. QED
    BY <2>2, <2>3 DEF AcceptedInv
<1>5. ASSUME NEW w \in Workers, NEW d \in Ids, NEW r \in Retries, Take(w, d, r) PROVE AcceptedInv'
  <2>1. UNCHANGED <<rows, accepted>>
    BY <1>5 DEF Take
  <2>. QED
    BY <1>5, <2>1, AfterTake, RunAccepted
<1>6. ASSUME NEW w \in Workers, Load(w) PROVE AcceptedInv'
  <2>1. UNCHANGED <<rows, accepted>>
    BY <1>6 DEF Load
  <2>2. Others(w) /\ (run'[w].pc \in {"ack", "post"} \/ run'[w].outcome = "failed")
    BY <1>6, AfterLoad
  <2>. QED
    BY <2>1, <2>2, RunAccepted
<1>7. ASSUME NEW w \in Workers, Post(w) PROVE AcceptedInv'
  <2>1. /\ Others(w) /\ run'[w].d = run[w].d /\ accepted \subseteq accepted' /\ UNCHANGED rows
        /\ \/ run'[w].outcome = "delivered" /\ run[w].d \in accepted'
           \/ run'[w].outcome = Outcome(run[w].attempt)
    BY <1>7, AfterPost DEF SameTask, Post
  <2>2. Outcome(run[w].attempt) # "delivered"
    BY DEF Outcome
  <2>. QED
    BY <2>1, <2>2, RunAccepted
<1>8. ASSUME NEW w \in Workers, Record(w) PROVE AcceptedInv'
  <2>1. UNCHANGED <<rows, accepted>>
    BY <1>8 DEF Record
  <2>2. /\ Others(w) /\ run'[w].d = run[w].d /\ run[w].pc = "record"
        /\ run'[w].pc \in {"retry", "ack"} \/ run'[w].outcome = run[w].outcome
    BY <1>8, AfterRecord DEF SameTask
  <2>3. run[w].outcome = "delivered" => run[w].d \in accepted
    BY <2>2 DEF AcceptedInv
  <2>. QED
    BY <2>1, <2>2, <2>3, RunAccepted
<1>9. ASSUME NEW w \in Workers, Retry(w) \/ Ack(w) \/ TaskFails(w) \/ NodeCrash(w) PROVE AcceptedInv'
  <2>1. UNCHANGED <<rows, accepted>>
    BY <1>9 DEF Retry, Ack, TaskFails, NodeCrash
  <2>2. Others(w) /\ run'[w].pc \in {"idle", "ack"}
    <3>1. CASE EndRun(w)
      BY <3>1, AfterEnd
    <3>2. CASE Retry(w) /\ run[w].retries < MaxRetries
      BY <3>2, AfterRetry
    <3>. QED
      BY <1>9, <3>1, <3>2 DEF Retry, Ack, TaskFails, NodeCrash
  <2>. QED
    BY <2>1, <2>2, RunAccepted
<1>. QED
  BY <1>1, <1>2, <1>3, <1>4, <1>5, <1>6, <1>7, <1>8, <1>9, FlushAccepted, StepCases

LEMMA OrderAlways == DeliverySafe => [](TypeInv /\ OrderInv /\ AcceptedInv)
<1>1. DeliveryInit => OrderInv
  <2> SUFFICES ASSUME DeliveryInit, NEW d \in Ids PROVE Ordered(queue, run, rows, d)
    BY DEF OrderInv
  <2>1. /\ \A r \in Retries : queue[d][r] = 0
        /\ \A w \in Workers : run[w].pc = "idle"
    BY DEF DeliveryInit, IdleRun
  <2>2. \A w \in Workers : ~Live(run[w]) /\ InStep(run[w], rows[d])
    BY <2>1, IdleInStep
  <2>. QED
    BY <2>1, <2>2 DEF Ordered, Alone
<1>2. DeliveryInit => AcceptedInv
  <2> SUFFICES ASSUME DeliveryInit PROVE AcceptedInv
    OBVIOUS
  <2>1. \A d \in Ids : rows[d] = NoRow
    BY DEF DeliveryInit
  <2>2. \A w \in Workers : run[w].pc = "idle"
    BY DEF DeliveryInit, IdleRun
  <2>. QED
    BY <2>1, <2>2 DEF AcceptedInv
<1>. QED
  BY <1>1, <1>2, TypeInvAlways, OrderInvStep, AcceptedInvStep, PTL DEF DeliverySafe

\* As long as no node died, _record_delivery_outcome never overwrites a
\* delivery that is settled, and it stores "delivered" only after a 2xx.
THEOREM Settled == DeliverySafe => SettledStays
<1>1. TypeInv /\ OrderInv /\ AcceptedInv /\ AcceptedInv' /\ [DeliveryNext]_deliveryVars =>
        [\A d \in Ids :
          (crashes = 0 /\ rows[d] # NoRow) =>
              /\ rows[d].status \in {"delivered", "failed"} =>
                     rows'[d].status \in {rows[d].status, "purged"}
              /\ rows'[d].status = "delivered" => d \in accepted]_deliveryVars
  <2> SUFFICES ASSUME TypeInv, OrderInv, AcceptedInv, [DeliveryNext]_deliveryVars,
                      NEW d \in Ids, crashes = 0, rows[d] # NoRow
               PROVE  /\ rows[d].status \in {"delivered", "failed"} =>
                            rows'[d].status \in {rows[d].status, "purged"}
                      /\ rows'[d].status = "delivered" => d \in accepted
    OBVIOUS
  <2>1. CASE rows'[d] = rows[d]
    BY <2>1 DEF AcceptedInv
  <2>2. ASSUME NEW h \in Hooks, Purge(h) PROVE rows'[d] = rows[d] \/ rows'[d].status = "purged"
    <3>1. [rows[d] EXCEPT !.status = "purged"].status = "purged"
      BY DEF TypeInv, DeliveryTypeOK, Delivery
    <3>. QED
      BY <2>2, <3>1 DEF Purge
  <2>3. ASSUME NEW h \in Hooks, NEW i \in Nat, CreateDelivery(h, i) PROVE rows'[d] = rows[d]
    BY <2>3, CreateEffect DEF TypeInv, DeliveryTypeOK
  <2>4. ASSUME NEW w \in Workers, Flush(w), run[w].d # d PROVE rows'[d] = rows[d]
    BY <2>4 DEF Flush, TypeInv, DeliveryTypeOK
  <2>5. ASSUME NEW w \in Workers, Flush(w), run[w].d = d
        PROVE  /\ rows[d].status \notin {"delivered", "failed"}
               /\ rows'[d].status = "delivered" => d \in accepted
    <3>1. rows[d].status \in Open
      BY <2>5, FlushOrder DEF OrderInv
    <3>2. rows'[d] = Flushed(rows[d], run[w])
      BY <2>5, FlushEffect DEF TypeInv, DeliveryTypeOK
    <3>3. rows'[d].status \in {run[w].outcome, rows[d].status}
      BY <3>2 DEF Flushed
    <3>4. run[w].outcome = "delivered" => d \in accepted
      BY <2>5 DEF AcceptedInv, Flush
    <3>. QED
      BY <3>1, <3>3, <3>4 DEF Open
  <2>6. \/ rows'[d] = rows[d]
        \/ \E h \in Hooks : Purge(h)
        \/ \E w \in Workers : Flush(w) /\ run[w].d = d
    BY <2>3, <2>4, StepCases
       DEF CreateWebhook, DeleteWebhook, RestoreWebhook, UpdateWebhook, Take, Load, Post, Record,
           Retry, Ack, TaskFails, NodeCrash, deliveryVars
  <2>. QED
    BY <2>1, <2>2, <2>5, <2>6
<1>. QED
  BY <1>1, OrderAlways, PTL DEF DeliverySafe, SettledStays

-----------------------------------------------------------------------------
(***************************************************************************)
(* The retry budget.  A token of a delivery is a message, or a run that    *)
(* will go on to queue one; only a crash makes one more of them.  The      *)
(* attempts made and the tokens left never exceed MaxAttempts, but for the *)
(* crashes.                                                                *)
(***************************************************************************)
MayRetry(r) ==
    \/ r.pc \in {"load", "retry"}
    \/ r.pc = "post" /\ r.attempt < MaxAttempts
    \/ r.pc \in {"record", "flush"} /\ r.outcome = "retrying"

Attempting(r) == r.pc \in {"post", "record", "flush"}

\* The message number n of those with r retries is <<r, n>>, the run of worker
\* w is <<w, 0>>.
Messages(q, d) == {m \in Retries \X (Nat \ {0}) : m[2] <= q[d][m[1]]}
Holders(rn, d) == {m \in Workers \X {0} : rn[m[1]].d = d /\ MayRetry(rn[m[1]])}
Tokens(q, rn, d) == Messages(q, d) \cup Holders(rn, d)

\* The attempts that the row and the runs of d have counted.
Attempts(rn, t, d) ==
    {x \in Nat : \/ t[d] # NoRow /\ t[d].attempt = x
                 \/ \E w \in Workers : rn[w].d = d /\ Attempting(rn[w]) /\ rn[w].attempt = x}

Budget(T, A, c) ==
    /\ IsFiniteSet(T) /\ Cardinality(T) <= 1 + c
    /\ \A x \in A : x + Cardinality(T) <= MaxAttempts + c

BudgetInv == \A d \in Ids : Budget(Tokens(queue, run, d), Attempts(run, rows, d), crashes)

\* No token is made.
LEMMA BudgetSame ==
    ASSUME NEW T, NEW A \in SUBSET Nat, NEW c \in Nat, Budget(T, A, c),
           NEW U \in SUBSET T, NEW B \in SUBSET A
    PROVE  Budget(U, B, c)
<1>1. IsFiniteSet(T) /\ Cardinality(T) \in Nat
  BY FS_CardinalityType DEF Budget
<1>2. IsFiniteSet(U) /\ Cardinality(U) \in Nat /\ Cardinality(U) <= Cardinality(T)
  BY <1>1, FS_Subset, FS_CardinalityType
<1>. QED
  BY <1>1, <1>2, DeliveryAssumption DEF Budget, MaxAttempts

\* One is exchanged for another.
LEMMA BudgetMove ==
    ASSUME NEW T, NEW A \in SUBSET Nat, NEW c \in Nat, Budget(T, A, c),
           NEW a \in T, NEW b, NEW U \in SUBSET ((T \ {a}) \cup {b}), NEW B \in SUBSET A
    PROVE  Budget(U, B, c)
<1>1. IsFiniteSet(T) /\ Cardinality(T) \in Nat
  BY FS_CardinalityType DEF Budget
<1>2. IsFiniteSet(T \ {a}) /\ Cardinality(T \ {a}) = Cardinality(T) - 1
  BY <1>1, FS_RemoveElement
<1>3. /\ IsFiniteSet((T \ {a}) \cup {b})
      /\ Cardinality((T \ {a}) \cup {b}) <= Cardinality(T)
      /\ Cardinality((T \ {a}) \cup {b}) \in Nat
  <2> DEFINE S == T \ {a}
  <2>1. /\ IsFiniteSet(S \cup {b})
        /\ Cardinality(S \cup {b}) = IF b \in S THEN Cardinality(S) ELSE Cardinality(S) + 1
    BY <1>2, FS_AddElement
  <2>2. Cardinality(S \cup {b}) \in Nat
    BY <2>1, FS_CardinalityType
  <2> HIDE DEF S
  <2>3. IsFiniteSet(S) /\ Cardinality(S) = Cardinality(T) - 1
    BY <1>2 DEF S
  <2>4. Cardinality(S \cup {b}) <= Cardinality(T)
    BY <1>1, <2>1, <2>3
  <2>. QED
    BY <2>1, <2>2, <2>4 DEF S
<1>4. IsFiniteSet(U) /\ Cardinality(U) \in Nat /\ Cardinality(U) <= Cardinality(T)
  <2>1. IsFiniteSet(U) /\ Cardinality(U) <= Cardinality((T \ {a}) \cup {b})
    BY <1>3, FS_Subset
  <2>2. Cardinality(U) \in Nat
    BY <2>1, FS_CardinalityType
  <2>. QED
    BY <1>1, <1>3, <2>1, <2>2
<1>. QED
  BY <1>1, <1>4, DeliveryAssumption DEF Budget, MaxAttempts

\* A crash may make one.
LEMMA BudgetCrash ==
    ASSUME NEW T, NEW A \in SUBSET Nat, NEW c \in Nat, Budget(T, A, c),
           NEW b, NEW U \in SUBSET (T \cup {b}), NEW B \in SUBSET A
    PROVE  Budget(U, B, c + 1)
<1>1. IsFiniteSet(T) /\ Cardinality(T) \in Nat
  BY FS_CardinalityType DEF Budget
<1>2. /\ IsFiniteSet(T \cup {b}) /\ Cardinality(T \cup {b}) \in Nat
      /\ Cardinality(T \cup {b}) <= Cardinality(T) + 1
  <2>1. /\ IsFiniteSet(T \cup {b})
        /\ Cardinality(T \cup {b}) = IF b \in T THEN Cardinality(T) ELSE Cardinality(T) + 1
    BY <1>1, FS_AddElement
  <2>2. Cardinality(T \cup {b}) \in Nat
    BY <2>1, FS_CardinalityType
  <2>. QED
    BY <1>1, <2>1, <2>2
<1>3. IsFiniteSet(U) /\ Cardinality(U) \in Nat /\ Cardinality(U) <= Cardinality(T) + 1
  <2>1. IsFiniteSet(U) /\ Cardinality(U) <= Cardinality(T \cup {b})
    BY <1>2, FS_Subset
  <2>2. Cardinality(U) \in Nat
    BY <2>1, FS_CardinalityType
  <2>. QED
    BY <1>1, <1>2, <2>1, <2>2
<1>. QED
  BY <1>1, <1>3, DeliveryAssumption DEF Budget, MaxAttempts

\* The last attempt is made, and no retry will follow.
LEMMA BudgetSpend ==
    ASSUME NEW T, NEW A \in SUBSET Nat, NEW c \in Nat, Budget(T, A, c),
           NEW a \in T, NEW x \in A,
           NEW U \in SUBSET (T \ {a}), NEW B \in SUBSET (A \cup {x + 1})
    PROVE  Budget(U, B, c)
<1>1. IsFiniteSet(T) /\ Cardinality(T) \in Nat
  BY FS_CardinalityType DEF Budget
<1>2. IsFiniteSet(T \ {a}) /\ Cardinality(T \ {a}) = Cardinality(T) - 1
  BY <1>1, FS_RemoveElement
<1>3. IsFiniteSet(U) /\ Cardinality(U) \in Nat /\ Cardinality(U) <= Cardinality(T) - 1
  BY <1>2, FS_Subset, FS_CardinalityType
<1>. QED
  BY <1>1, <1>3, DeliveryAssumption DEF Budget, MaxAttempts

\* An attempt is made that is not the last.
LEMMA BudgetKeep ==
    ASSUME NEW T, NEW A \in SUBSET Nat, NEW c \in Nat, Budget(T, A, c),
           NEW x \in Nat, x < MaxAttempts,
           NEW U \in SUBSET T, NEW B \in SUBSET (A \cup {x})
    PROVE  Budget(U, B, c)
<1>1. IsFiniteSet(T) /\ Cardinality(T) \in Nat
  BY FS_CardinalityType DEF Budget
<1>2. IsFiniteSet(U) /\ Cardinality(U) \in Nat /\ Cardinality(U) <= Cardinality(T)
  BY <1>1, FS_Subset, FS_CardinalityType
<1>. QED
  BY <1>1, <1>2, DeliveryAssumption DEF Budget, MaxAttempts

\* A step of worker w that leaves the messages of d alone.
LEMMA TokensRun ==
    ASSUME NEW w \in Workers, Others(w), NEW d \in Ids, queue'[d] = queue[d],
           run'[w].d = d /\ MayRetry(run'[w]) => run[w].d = d /\ MayRetry(run[w])
    PROVE  Tokens(queue', run', d) \subseteq Tokens(queue, run, d)
<1>1. Messages(queue', d) = Messages(queue, d)
  BY DEF Messages
<1>2. ASSUME NEW m \in Holders(run', d) PROVE m \in Holders(run, d)
  <2>1. m \in Workers \X {0} /\ m[1] \in Workers /\ run'[m[1]].d = d /\ MayRetry(run'[m[1]])
    BY <1>2 DEF Holders
  <2>2. run[m[1]].d = d /\ MayRetry(run[m[1]])
    BY <2>1 DEF Others
  <2>. QED
    BY <2>1, <2>2 DEF Holders
<1>. QED
  BY <1>1, <1>2 DEF Tokens

LEMMA AttemptsRun ==
    ASSUME NEW w \in Workers, Others(w), NEW d \in Ids, rows'[d] = rows[d], NEW B,
           Attempts(run, rows, d) \subseteq B,
           run'[w].d = d /\ Attempting(run'[w]) => run'[w].attempt \in B
    PROVE  Attempts(run', rows', d) \subseteq B
BY DEF Attempts, Others

LEMMA RowAttempt ==
    ASSUME TypeInv, NEW d \in Ids
    PROVE  /\ Attempts(run, rows, d) \in SUBSET Nat /\ crashes \in Nat
           /\ rows[d] # NoRow => rows[d].attempt \in Attempts(run, rows, d)
           /\ \A w \in Workers : run[w].d = d /\ Attempting(run[w]) =>
                 run[w].attempt \in Attempts(run, rows, d)
<1>1. /\ run \in [Workers -> Run] /\ rows[d] \in Delivery \cup {NoRow} /\ crashes \in Nat
  BY DEF TypeInv, DeliveryTypeOK
<1>2. /\ \A w \in Workers : run[w].attempt \in Nat
      /\ rows[d] # NoRow => rows[d].attempt \in Nat
  BY <1>1 DEF Run, Delivery
<1>. QED
  BY <1>1, <1>2 DEF Attempts

\* A step of worker w on its delivery that makes no token, no attempt and no
\* change to the row.
LEMMA BudgetQuiet ==
    ASSUME TypeInv, BudgetInv, NEW w \in Workers, Others(w), UNCHANGED <<rows, queue, crashes>>,
           MayRetry(run'[w]) => run'[w].d = run[w].d /\ MayRetry(run[w]),
           Attempting(run'[w]) => run'[w].d = run[w].d /\ Attempting(run[w])
                                  /\ run'[w].attempt = run[w].attempt
    PROVE  BudgetInv'
<1> SUFFICES ASSUME NEW d \in Ids
             PROVE  Budget(Tokens(queue', run', d), Attempts(run', rows', d), crashes')
  BY DEF BudgetInv
<1>1. Tokens(queue', run', d) \subseteq Tokens(queue, run, d)
  BY TokensRun
<1>2. run'[w].d = d /\ Attempting(run'[w]) => run'[w].attempt \in Attempts(run, rows, d)
  BY RowAttempt
<1>3. Attempts(run', rows', d) \subseteq Attempts(run, rows, d)
  BY <1>2, AttemptsRun
<1>4. Budget(Tokens(queue, run, d), Attempts(run, rows, d), crashes)
  BY DEF BudgetInv
<1>. QED
  BY <1>1, <1>3, <1>4, RowAttempt, BudgetSame

LEMMA LoadBudget ==
    ASSUME TypeInv, BudgetInv, NEW w \in Workers, Load(w)
    PROVE  BudgetInv'
<1>1. /\ UNCHANGED <<rows, queue, crashes>> /\ run[w].pc = "load"
      /\ run[w].d \in Ids /\ rows[run[w].d] # NoRow /\ rows[run[w].d].attempt \in Nat
  BY Running, AbsentIsNoRow DEF Load
<1>2. Others(w) /\ run'[w].d = run[w].d
  BY AfterLoad DEF SameTask
<1> SUFFICES ASSUME NEW d \in Ids
             PROVE  Budget(Tokens(queue', run', d), Attempts(run', rows', d), crashes')
  BY DEF BudgetInv
<1> DEFINE T == Tokens(queue, run, d)
<1> DEFINE A == Attempts(run, rows, d)
<1>3. Budget(T, A, crashes) /\ A \in SUBSET Nat /\ crashes' = crashes /\ crashes \in Nat
  BY <1>1, RowAttempt DEF BudgetInv
<1>4. Tokens(queue', run', d) \subseteq T
  BY <1>1, <1>2, TokensRun DEF MayRetry
<1>5. CASE ~(run[w].d = d /\ run'[w].pc = "post")
  <2>1. run'[w].d = d /\ Attempting(run'[w]) => run'[w].attempt \in A
    BY <1>1, <1>2, <1>5, AfterLoad, RowAttempt DEF Attempting
  <2>2. Attempts(run', rows', d) \subseteq A
    BY <1>1, <1>2, <2>1, AttemptsRun
  <2>. QED
    BY <1>3, <1>4, <2>2, BudgetSame
<1>6. CASE run[w].d = d /\ run'[w].pc = "post"
  <2> DEFINE x == rows[d].attempt
  <2>1. x \in A /\ x \in Nat /\ run'[w].attempt = x + 1
    BY <1>1, <1>6, AfterLoad, RowAttempt
  <2>2. Attempts(run', rows', d) \subseteq A \cup {x + 1}
    <3> DEFINE B == A \cup {x + 1}
    <3>1. A \subseteq B /\ run'[w].attempt \in B /\ rows'[d] = rows[d]
      BY <1>1, <2>1
    <3> HIDE DEF B
    <3>2. Attempts(run', rows', d) \subseteq B
      BY <1>2, <3>1, AttemptsRun
    <3>. QED
      BY <3>2 DEF B
  <2>3. CASE x + 1 < MaxAttempts
    <3> HIDE DEF x, T, A
    <3>. QED
      BY <1>3, <1>4, <2>1, <2>2, <2>3, BudgetKeep
  <2>4. CASE ~(x + 1 < MaxAttempts)
    <3>1. ~MayRetry(run'[w])
      BY <1>6, <2>1, <2>4 DEF MayRetry
    <3>2. <<w, 0>> \in T
      BY <1>1, <1>6 DEF Tokens, Holders, MayRetry
    <3>3. <<w, 0>> \notin Tokens(queue', run', d)
      BY <3>1 DEF Tokens, Holders, Messages
    <3> HIDE DEF x, T, A
    <3>. QED
      BY <1>3, <1>4, <2>1, <2>2, <3>2, <3>3, BudgetSpend
  <2>. QED
    BY <2>3, <2>4
<1>. QED
  BY <1>5, <1>6

LEMMA PostBudget ==
    ASSUME TypeInv, BudgetInv, NEW w \in Workers, Post(w)
    PROVE  BudgetInv'
<1>1. UNCHANGED <<rows, queue, crashes>> /\ run[w].pc = "post"
  BY DEF Post
<1>2. /\ Others(w) /\ run'[w].d = run[w].d /\ run'[w].pc = "record"
      /\ run'[w].attempt = run[w].attempt
      /\ run'[w].outcome \in {"delivered", Outcome(run[w].attempt)}
  BY AfterPost DEF SameTask
<1>3. MayRetry(run'[w]) => MayRetry(run[w])
  BY <1>1, <1>2 DEF MayRetry, Outcome
<1>. QED
  BY <1>1, <1>2, <1>3, BudgetQuiet DEF Attempting

LEMMA RecordBudget ==
    ASSUME TypeInv, BudgetInv, NEW w \in Workers, Record(w)
    PROVE  BudgetInv'
<1>1. UNCHANGED <<rows, queue, crashes>> /\ run[w].pc = "record"
  BY DEF Record
<1>2. /\ Others(w) /\ run'[w].d = run[w].d
      /\ \/ run'[w].pc = "retry" /\ run[w].outcome = "retrying"
         \/ run'[w].pc = "ack"
         \/ /\ run'[w].pc = "flush" /\ run'[w].attempt = run[w].attempt
            /\ run'[w].outcome = run[w].outcome
  BY AfterRecord DEF SameTask
<1>3. MayRetry(run'[w]) => MayRetry(run[w])
  BY <1>1, <1>2 DEF MayRetry
<1>. QED
  BY <1>1, <1>2, <1>3, BudgetQuiet DEF Attempting

LEMMA EndBudget ==
    ASSUME TypeInv, BudgetInv, NEW w \in Workers, EndRun(w), UNCHANGED <<rows, queue, crashes>>
    PROVE  BudgetInv'
<1>1. Others(w) /\ run'[w].pc = "idle"
  BY AfterEnd
<1>. QED
  BY <1>1, BudgetQuiet DEF MayRetry, Attempting

LEMMA FlushBudget ==
    ASSUME TypeInv, BudgetInv, NEW w \in Workers, Flush(w)
    PROVE  BudgetInv'
<1>1. /\ UNCHANGED <<queue, crashes>> /\ run[w].pc = "flush" /\ Goto(w, Recorded(w))
      /\ run[w].d \in Ids /\ rows[run[w].d] # NoRow
      /\ rows \in [Ids -> Delivery \cup {NoRow}]
  BY Running, AbsentIsNoRow DEF Flush, TypeInv, DeliveryTypeOK
<1>2. /\ Others(w) /\ run'[w].d = run[w].d
      /\ (run'[w].pc = "retry" /\ run[w].outcome = "retrying") \/ run'[w].pc = "ack"
  BY <1>1, AfterRecorded DEF SameTask
<1>3. MayRetry(run'[w]) => MayRetry(run[w])
  BY <1>1, <1>2 DEF MayRetry
<1>4. /\ \A c \in Ids : c # run[w].d => rows'[c] = rows[c]
      /\ rows'[run[w].d].attempt \in {run[w].attempt, rows[run[w].d].attempt}
  <2>1. /\ \A c \in Ids : c # run[w].d => rows'[c] = rows[c]
        /\ rows'[run[w].d] = Flushed(rows[run[w].d], run[w])
    BY <1>1, FlushEffect
  <2>. QED
    BY <2>1 DEF Flushed
<1> SUFFICES ASSUME NEW d \in Ids
             PROVE  Budget(Tokens(queue', run', d), Attempts(run', rows', d), crashes')
  BY DEF BudgetInv
<1>5. Tokens(queue', run', d) \subseteq Tokens(queue, run, d)
  BY <1>1, <1>2, <1>3, TokensRun
<1>6. rows'[d] # NoRow => rows'[d].attempt \in Attempts(run, rows, d)
  BY <1>1, <1>4, RowAttempt DEF Attempting
<1>7. Attempts(run', rows', d) \subseteq Attempts(run, rows, d)
  BY <1>2, <1>6 DEF Attempts, Others, Attempting
<1>8. Budget(Tokens(queue, run, d), Attempts(run, rows, d), crashes)
  BY DEF BudgetInv
<1>. QED
  BY <1>1, <1>5, <1>7, <1>8, RowAttempt, BudgetSame

\* The messages of a delivery after one is taken, and after one is queued.
LEMMA MessageTaken ==
    ASSUME TypeInv, NEW d \in Ids, NEW r \in Retries, queue[d][r] > 0,
           queue' = [queue EXCEPT ![d][r] = @ - 1]
    PROVE  /\ <<r, queue[d][r]>> \in Messages(queue, d)
           /\ Messages(queue', d) \subseteq Messages(queue, d) \ {<<r, queue[d][r]>>}
           /\ \A e \in Ids : e # d => queue'[e] = queue[e]
<1>1. queue \in [Ids -> [Retries -> Nat]]
  BY DEF TypeInv, DeliveryTypeOK
<1>2. /\ queue[d][r] \in Nat \ {0} /\ queue'[d][r] = queue[d][r] - 1
      /\ \A s \in Retries : s # r => queue'[d][s] = queue[d][s]
      /\ \A e \in Ids : e # d => queue'[e] = queue[e]
      /\ \A s \in Retries : queue[d][s] \in Nat
  BY <1>1
<1>3. ASSUME NEW m \in Messages(queue', d)
      PROVE  m \in Messages(queue, d) /\ m # <<r, queue[d][r]>>
  <2>1. /\ m \in Retries \X (Nat \ {0}) /\ m[1] \in Retries /\ m[2] \in Nat
        /\ m[2] <= queue'[d][m[1]]
    BY <1>3 DEF Messages
  <2>2. m[2] <= queue[d][m[1]] /\ ~(m[1] = r /\ m[2] = queue[d][r])
    BY <1>2, <2>1
  <2>. QED
    BY <2>1, <2>2 DEF Messages
<1>4. <<r, queue[d][r]>> \in Messages(queue, d)
  BY <1>2 DEF Messages
<1>. QED
  BY <1>2, <1>3, <1>4

LEMMA MessageQueued ==
    ASSUME TypeInv, NEW d \in Ids, NEW r \in Retries,
           queue' = [queue EXCEPT ![d][r] = @ + 1]
    PROVE  /\ Messages(queue', d) \subseteq Messages(queue, d) \cup {<<r, queue[d][r] + 1>>}
           /\ \A e \in Ids : e # d => queue'[e] = queue[e]
<1>1. queue \in [Ids -> [Retries -> Nat]]
  BY DEF TypeInv, DeliveryTypeOK
<1>2. /\ queue[d][r] \in Nat /\ queue'[d][r] = queue[d][r] + 1
      /\ \A s \in Retries : s # r => queue'[d][s] = queue[d][s]
      /\ \A e \in Ids : e # d => queue'[e] = queue[e]
      /\ \A s \in Retries : queue[d][s] \in Nat
  BY <1>1
<1>3. ASSUME NEW m \in Messages(queue', d), m # <<r, queue[d][r] + 1>>
      PROVE  m \in Messages(queue, d)
  <2>1. /\ m \in Retries \X (Nat \ {0}) /\ m[1] \in Retries /\ m[2] \in Nat
        /\ m[2] <= queue'[d][m[1]] /\ m = <<m[1], m[2]>>
    BY <1>3 DEF Messages
  <2>2. m[2] <= queue[d][m[1]]
    <3>1. ~(m[1] = r /\ m[2] = queue[d][r] + 1)
      BY <1>3, <2>1
    <3>. QED
      BY <1>2, <2>1, <3>1
  <2>. QED
    BY <2>1, <2>2 DEF Messages
<1>. QED
  BY <1>2, <1>3

\* The runs of a delivery after a step of worker w.
LEMMA HoldersAfter ==
    ASSUME NEW w \in Workers, Others(w), NEW d \in Ids
    PROVE  /\ Holders(run', d) \subseteq Holders(run, d) \cup {<<w, 0>>}
           /\ ~(run'[w].d = d /\ MayRetry(run'[w])) =>
                 Holders(run', d) \subseteq Holders(run, d) \ {<<w, 0>>}
           /\ run[w].d = d /\ MayRetry(run[w]) => <<w, 0>> \in Holders(run, d)
<1>1. ASSUME NEW m \in Holders(run', d)
      PROVE  /\ m \in Holders(run, d) \/ m = <<w, 0>>
             /\ ~(run'[w].d = d /\ MayRetry(run'[w])) => m # <<w, 0>>
  <2>1. m \in Workers \X {0} /\ m[1] \in Workers /\ run'[m[1]].d = d /\ MayRetry(run'[m[1]])
    BY <1>1 DEF Holders
  <2>2. CASE m[1] = w
    BY <2>1, <2>2
  <2>3. CASE m[1] # w
    BY <2>1, <2>3 DEF Holders, Others
  <2>. QED
    BY <2>2, <2>3
<1>2. run[w].d = d /\ MayRetry(run[w]) => <<w, 0>> \in Holders(run, d)
  BY DEF Holders
<1>. QED
  BY <1>1, <1>2

\* A message is no run.
LEMMA TokensApart ==
    ASSUME NEW d
    PROVE  /\ \A w : <<w, 0>> \notin Messages(queue, d) /\ <<w, 0>> \notin Messages(queue', d)
           /\ \A r, n : n # 0 => <<r, n>> \notin Holders(run, d) /\ <<r, n>> \notin Holders(run', d)
BY DEF Messages, Holders

LEMMA TakeBudget ==
    ASSUME TypeInv, BudgetInv, NEW w \in Workers, NEW e \in Ids, NEW r \in Retries, Take(w, e, r)
    PROVE  BudgetInv'
<1>1. /\ UNCHANGED <<rows, crashes>> /\ queue[e][r] > 0 /\ queue[e][r] \in Nat
      /\ queue' = [queue EXCEPT ![e][r] = @ - 1]
  BY DEF Take, TypeInv, DeliveryTypeOK
<1>2. Others(w) /\ run'[w].pc = "load" /\ run'[w].d = e /\ run[w].pc = "idle"
  BY AfterTake
<1> SUFFICES ASSUME NEW d \in Ids
             PROVE  Budget(Tokens(queue', run', d), Attempts(run', rows', d), crashes')
  BY DEF BudgetInv
<1>3. Attempts(run', rows', d) \subseteq Attempts(run, rows, d)
  BY <1>1, <1>2, AttemptsRun DEF Attempting
<1>4. /\ Budget(Tokens(queue, run, d), Attempts(run, rows, d), crashes)
      /\ Attempts(run, rows, d) \in SUBSET Nat /\ crashes' = crashes /\ crashes \in Nat
  BY <1>1, RowAttempt DEF BudgetInv
<1>5. CASE d # e
  <2>1. queue'[d] = queue[d]
    BY <1>1, <1>5, MessageTaken
  <2>2. Tokens(queue', run', d) \subseteq Tokens(queue, run, d)
    BY <1>2, <1>5, <2>1, TokensRun
  <2>. QED
    BY <1>3, <1>4, <2>2, BudgetSame
<1>6. CASE d = e
  <2> DEFINE a == <<r, queue[d][r]>>
  <2>1. a \in Messages(queue, d) /\ Messages(queue', d) \subseteq Messages(queue, d) \ {a}
    BY <1>1, <1>6, MessageTaken
  <2>2. a \notin Holders(run, d)
    BY <1>1, <1>6, TokensApart
  <2>3. Holders(run', d) \subseteq Holders(run, d) \cup {<<w, 0>>}
    BY <1>2, HoldersAfter
  <2> HIDE DEF a
  <2>4. Tokens(queue', run', d) \subseteq (Tokens(queue, run, d) \ {a}) \cup {<<w, 0>>}
    BY <2>1, <2>2, <2>3 DEF Tokens
  <2>5. a \in Tokens(queue, run, d)
    BY <2>1 DEF Tokens
  <2>. QED
    BY <1>3, <1>4, <2>4, <2>5, BudgetMove
<1>. QED
  BY <1>5, <1>6

\* A message is queued by the run of worker w, which ends or is about to.
LEMMA QueueTokens ==
    ASSUME TypeInv, NEW w \in Workers, Others(w), ~MayRetry(run'[w]), run[w].d \in Ids,
           NEW r \in Retries, queue' = [queue EXCEPT ![run[w].d][r] = @ + 1], NEW d \in Ids
    PROVE  /\ d # run[w].d => Tokens(queue', run', d) \subseteq Tokens(queue, run, d)
           /\ d = run[w].d => Tokens(queue', run', d) \subseteq
                 (Tokens(queue, run, d) \ {<<w, 0>>}) \cup {<<r, queue[d][r] + 1>>}
<1>1. ASSUME d # run[w].d PROVE Tokens(queue', run', d) \subseteq Tokens(queue, run, d)
  <2>1. queue'[d] = queue[d]
    BY <1>1, MessageQueued
  <2>. QED
    BY <2>1, TokensRun
<1>2. ASSUME d = run[w].d
      PROVE  Tokens(queue', run', d) \subseteq
                 (Tokens(queue, run, d) \ {<<w, 0>>}) \cup {<<r, queue[d][r] + 1>>}
  <2>1. Messages(queue', d) \subseteq Messages(queue, d) \cup {<<r, queue[d][r] + 1>>}
    BY <1>2, MessageQueued
  <2>2. Holders(run', d) \subseteq Holders(run, d) \ {<<w, 0>>}
    BY HoldersAfter
  <2>3. <<w, 0>> \notin Messages(queue, d)
    BY TokensApart
  <2>. QED
    BY <2>1, <2>2, <2>3 DEF Tokens
<1>. QED
  BY <1>1, <1>2

LEMMA RetryBudgetStep ==
    ASSUME TypeInv, BudgetInv, NEW w \in Workers, Retry(w), run[w].retries < MaxRetries
    PROVE  BudgetInv'
<1> DEFINE r == run[w].retries + 1
<1>1. /\ UNCHANGED <<rows, crashes>> /\ run[w].pc = "retry" /\ run[w].d \in Ids /\ r \in Retries
      /\ queue' = [queue EXCEPT ![run[w].d][r] = @ + 1]
  <2>1. run[w].pc = "retry" /\ run[w].retries \in Nat /\ MaxRetries \in Nat
    BY Running, DeliveryAssumption DEF Retry, Retries
  <2>. QED
    BY <2>1, Running DEF Retry, Retries
<1>2. Others(w) /\ run'[w].pc = "ack"
  BY AfterRetry
<1> HIDE DEF r
<1> SUFFICES ASSUME NEW d \in Ids
             PROVE  Budget(Tokens(queue', run', d), Attempts(run', rows', d), crashes')
  BY DEF BudgetInv
<1>3. Attempts(run', rows', d) \subseteq Attempts(run, rows, d)
  BY <1>1, <1>2, AttemptsRun DEF Attempting
<1>4. /\ Budget(Tokens(queue, run, d), Attempts(run, rows, d), crashes)
      /\ Attempts(run, rows, d) \in SUBSET Nat /\ crashes' = crashes /\ crashes \in Nat
  BY <1>1, RowAttempt DEF BudgetInv
<1>5. ~MayRetry(run'[w])
  BY <1>2 DEF MayRetry
<1>6. CASE d # run[w].d
  <2>1. Tokens(queue', run', d) \subseteq Tokens(queue, run, d)
    BY <1>1, <1>2, <1>5, <1>6, QueueTokens
  <2>. QED
    BY <1>3, <1>4, <2>1, BudgetSame
<1>7. CASE d = run[w].d
  <2> DEFINE b == <<r, queue[d][r] + 1>>
  <2>1. <<w, 0>> \in Tokens(queue, run, d)
    BY <1>1, <1>2, <1>7, HoldersAfter DEF Tokens, MayRetry
  <2>2. Tokens(queue', run', d) \subseteq (Tokens(queue, run, d) \ {<<w, 0>>}) \cup {b}
    BY <1>1, <1>2, <1>5, <1>7, QueueTokens
  <2> HIDE DEF b
  <2>. QED
    BY <1>3, <1>4, <2>1, <2>2, BudgetMove
<1>. QED
  BY <1>6, <1>7

LEMMA CrashBudget ==
    ASSUME TypeInv, BudgetInv, NEW w \in Workers, NodeCrash(w)
    PROVE  BudgetInv'
<1>1. /\ UNCHANGED rows /\ crashes' = crashes + 1 /\ EndRun(w)
      /\ run[w].d \in Ids /\ run[w].retries \in Retries
      /\ queue' = [queue EXCEPT ![run[w].d][run[w].retries] = @ + 1]
  BY Running DEF NodeCrash
<1>2. Others(w) /\ run'[w].pc = "idle"
  BY <1>1, AfterEnd
<1> SUFFICES ASSUME NEW d \in Ids
             PROVE  Budget(Tokens(queue', run', d), Attempts(run', rows', d), crashes')
  BY DEF BudgetInv
<1> DEFINE b == <<run[w].retries, queue[d][run[w].retries] + 1>>
<1>3. Attempts(run', rows', d) \subseteq Attempts(run, rows, d)
  BY <1>1, <1>2, AttemptsRun DEF Attempting
<1>4. /\ Budget(Tokens(queue, run, d), Attempts(run, rows, d), crashes)
      /\ Attempts(run, rows, d) \in SUBSET Nat /\ crashes \in Nat
  BY RowAttempt DEF BudgetInv
<1>5. ~MayRetry(run'[w])
  BY <1>2 DEF MayRetry
<1>6. Tokens(queue', run', d) \subseteq Tokens(queue, run, d) \cup {b}
  BY <1>1, <1>2, <1>5, QueueTokens
<1> HIDE DEF b
<1>. QED
  BY <1>1, <1>3, <1>4, <1>6, BudgetCrash

LEMMA CreateBudget ==
    ASSUME TypeInv, BudgetInv, NEW h \in Hooks, NEW i \in Nat, CreateDelivery(h, i)
    PROVE  BudgetInv'
<1>1. PICK e \in Ids :
              /\ rows[e] = NoRow
              /\ rows' = [rows EXCEPT ![e] = [hook |-> h, entry |-> i,
                                              status |-> "pending", attempt |-> 0]]
              /\ queue' = [queue EXCEPT ![e][0] = 1] \/ queue' = queue
              /\ UNCHANGED <<run, crashes>>
  BY CreateEffect
<1>2. /\ 0 \in Retries /\ queue \in [Ids -> [Retries -> Nat]]
      /\ rows \in [Ids -> Delivery \cup {NoRow}] /\ crashes \in Nat
      /\ \A r \in Retries : queue[e][r] = 0
      /\ \A w \in Workers : run[w].d = e => run[w].pc = "idle"
  BY <1>1, DeliveryAssumption DEF TypeInv, DeliveryTypeOK, QueueConsistent, Consistent, Retries
<1>3. /\ \A d \in Ids : d # e => queue'[d] = queue[d] /\ rows'[d] = rows[d]
      /\ \A r \in Retries \ {0} : queue'[e][r] = 0
      /\ queue'[e][0] <= 1 /\ queue'[e][0] \in Nat /\ rows'[e].attempt = 0
  BY <1>1, <1>2
<1> SUFFICES ASSUME NEW d \in Ids
             PROVE  Budget(Tokens(queue', run', d), Attempts(run', rows', d), crashes')
  BY DEF BudgetInv
<1>4. CASE d # e
  <2>1. /\ Tokens(queue', run', d) = Tokens(queue, run, d)
        /\ Attempts(run', rows', d) = Attempts(run, rows, d)
    BY <1>1, <1>3, <1>4 DEF Tokens, Messages, Holders, Attempts
  <2>. QED
    BY <1>1, <2>1 DEF BudgetInv
<1>5. CASE d = e
  <2>1. Holders(run', d) = {}
    BY <1>1, <1>2, <1>5 DEF Holders, MayRetry
  <2>2. ASSUME NEW m \in Messages(queue', d) PROVE m = <<0, 1>>
    <3>1. /\ m \in Retries \X (Nat \ {0}) /\ m[1] \in Retries /\ m[2] \in Nat \ {0}
          /\ m[2] <= queue'[d][m[1]] /\ m = <<m[1], m[2]>>
      BY <2>2 DEF Messages
    <3>2. m[1] = 0 /\ m[2] = 1
      BY <1>3, <1>5, <3>1
    <3>. QED
      BY <3>1, <3>2
  <2>3. Tokens(queue', run', d) \in SUBSET {<<0, 1>>}
    BY <2>1, <2>2 DEF Tokens
  <2>4. \A x \in Attempts(run', rows', d) : x = 0
    BY <1>1, <1>2, <1>3, <1>5 DEF Attempts, Attempting
  <2>5. /\ IsFiniteSet(Tokens(queue', run', d))
        /\ Cardinality(Tokens(queue', run', d)) <= 1
        /\ Cardinality(Tokens(queue', run', d)) \in Nat
    <3>1. IsFiniteSet({<<0, 1>>}) /\ Cardinality({<<0, 1>>}) = 1
      BY FS_Singleton
    <3>2. /\ IsFiniteSet(Tokens(queue', run', d))
          /\ Cardinality(Tokens(queue', run', d)) <= Cardinality({<<0, 1>>})
      BY <2>3, <3>1, FS_Subset
    <3>. QED
      BY <3>1, <3>2, FS_CardinalityType
  <2>6. Cardinality(Tokens(queue', run', d)) <= MaxAttempts + crashes
    BY <1>2, <2>5, DeliveryAssumption DEF MaxAttempts
  <2>7. Cardinality(Tokens(queue', run', d)) <= 1 + crashes
    BY <1>2, <2>5
  <2>8. \A x \in Attempts(run', rows', d) :
           x + Cardinality(Tokens(queue', run', d)) <= MaxAttempts + crashes
    BY <2>4, <2>5, <2>6
  <2>. QED
    BY <1>1, <2>5, <2>7, <2>8 DEF Budget
<1>. QED
  BY <1>4, <1>5

LEMMA HookBudget ==
    ASSUME TypeInv, BudgetInv, NEW h \in Hooks,
           \/ CreateWebhook(h) \/ DeleteWebhook(h) \/ RestoreWebhook(h)
           \/ \E a \in BOOLEAN : UpdateWebhook(h, a)
           \/ Purge(h)
    PROVE  BudgetInv'
<1>1. UNCHANGED <<queue, run, crashes>>
  BY DEF CreateWebhook, DeleteWebhook, RestoreWebhook, UpdateWebhook, Purge, SetHook
<1>2. \A d \in Ids : rows[d] = NoRow => rows'[d] = NoRow
  BY DEF CreateWebhook, DeleteWebhook, RestoreWebhook, UpdateWebhook, Purge, SetHook
<1>3. \A d \in Ids : rows[d] # NoRow => rows'[d].attempt = rows[d].attempt
  <2>1. \A d \in Ids : rows[d] # NoRow =>
           [rows[d] EXCEPT !.status = "purged"].attempt = rows[d].attempt
    BY DEF TypeInv, DeliveryTypeOK, Delivery
  <2>. QED
    BY <2>1 DEF CreateWebhook, DeleteWebhook, RestoreWebhook, UpdateWebhook, Purge, SetHook
<1> SUFFICES ASSUME NEW d \in Ids
             PROVE  Budget(Tokens(queue', run', d), Attempts(run', rows', d), crashes')
  BY DEF BudgetInv
<1>4. Tokens(queue', run', d) \subseteq Tokens(queue, run, d)
  BY <1>1
<1>5. Attempts(run', rows', d) \subseteq Attempts(run, rows, d)
  BY <1>1, <1>2, <1>3 DEF Attempts
<1>6. Budget(Tokens(queue, run, d), Attempts(run, rows, d), crashes)
  BY DEF BudgetInv
<1>. QED
  BY <1>1, <1>4, <1>5, <1>6, RowAttempt, BudgetSame

LEMMA BudgetInvStep == TypeInv /\ BudgetInv /\ [DeliveryNext]_deliveryVars => BudgetInv'
<1> SUFFICES ASSUME TypeInv, BudgetInv, [DeliveryNext]_deliveryVars PROVE BudgetInv'
  OBVIOUS
<1>1. CASE UNCHANGED deliveryVars
  BY <1>1 DEF BudgetInv, deliveryVars
<1>2. ASSUME NEW w \in Workers, Retry(w) PROVE BudgetInv'
  <2>1. CASE run[w].retries < MaxRetries
    BY <1>2, <2>1, RetryBudgetStep
  <2>2. CASE ~(run[w].retries < MaxRetries)
    BY <1>2, <2>2, EndBudget DEF Retry
  <2>. QED
    BY <2>1, <2>2
<1>3. ASSUME NEW w \in Workers, Ack(w) \/ TaskFails(w) PROVE BudgetInv'
  BY <1>3, EndBudget DEF Ack, TaskFails
<1>. QED
  BY <1>1, <1>2, <1>3, StepCases, HookBudget, CreateBudget, TakeBudget, LoadBudget, PostBudget,
     RecordBudget, FlushBudget, CrashBudget

\* The limit of deliver_webhook on attempts (in the row) and Celery's on retries
\* (in the message) agree: a delivery makes at most max_attempts attempts, one
\* more for each node that died, and as long as none has, self.retry never
\* runs out of retries.
THEOREM RetriesWithinBudget == DeliverySafe => []RetryBudget
<1>1. DeliveryInit => BudgetInv
  <2> SUFFICES ASSUME DeliveryInit, NEW d \in Ids
               PROVE  Budget(Tokens(queue, run, d), Attempts(run, rows, d), crashes)
    BY DEF BudgetInv
  <2>1. /\ \A r \in Retries : queue[d][r] = 0
        /\ \A w \in Workers : run[w].pc = "idle"
        /\ rows[d] = NoRow /\ crashes = 0
    BY DEF DeliveryInit, IdleRun
  <2>2. Holders(run, d) = {} /\ Attempts(run, rows, d) = {}
    BY <2>1 DEF Holders, MayRetry, Attempts, Attempting
  <2>3. Messages(queue, d) = {}
    <3>1. ASSUME NEW m \in Messages(queue, d) PROVE FALSE
      <4>1. m[1] \in Retries /\ m[2] \in Nat \ {0} /\ m[2] <= queue[d][m[1]]
        BY <3>1 DEF Messages
      <4>. QED
        BY <2>1, <4>1
    <3>. QED
      BY <3>1
  <2>4. Tokens(queue, run, d) = {}
    BY <2>2, <2>3 DEF Tokens
  <2>. QED
    BY <2>1, <2>2, <2>4, FS_EmptySet DEF Budget
<1>2. TypeInv /\ OrderInv /\ BudgetInv => RetryBudget
  <2> SUFFICES ASSUME TypeInv, OrderInv, BudgetInv PROVE RetryBudget
    OBVIOUS
  <2>1. ASSUME NEW d \in Ids, rows[d] # NoRow PROVE rows[d].attempt <= MaxRetries + 1 + crashes
    <3> DEFINE T == Tokens(queue, run, d)
    <3>1. /\ rows[d].attempt \in Attempts(run, rows, d) /\ rows[d].attempt \in Nat
          /\ crashes \in Nat
      BY <2>1, RowAttempt
    <3>2. IsFiniteSet(T) /\ rows[d].attempt + Cardinality(T) <= MaxAttempts + crashes
      BY <3>1 DEF BudgetInv, Budget
    <3>3. Cardinality(T) \in Nat
      BY <3>2, FS_CardinalityType
    <3>. QED
      BY <3>1, <3>2, <3>3, DeliveryAssumption DEF MaxAttempts
  <2>2. ASSUME NEW w \in Workers, run[w].pc = "retry", crashes = 0
        PROVE  run[w].retries < MaxRetries
    BY <2>2, Running DEF OrderInv, Ordered, InStep
  <2>. QED
    BY <2>1, <2>2 DEF RetryBudget
<1>. QED
  BY <1>1, <1>2, OrderAlways, BudgetInvStep, PTL DEF DeliverySafe

-----------------------------------------------------------------------------
(***************************************************************************)
(* The bus and the dispatchers.                                            *)
(***************************************************************************)
HandlerPc == {"webhook", "select", "create", "in_app", "insert", "email", "send", "ack"}

DispatchTypeOK ==
    /\ prefs \in [Users -> SUBSET Channels]
    /\ handler \in [Procs -> HandlerPc]
    /\ todo \in [Procs -> SUBSET Hooks]
    /\ inbox \in [Entries -> Nat]
    /\ emails \in [Entries -> Nat]

\* The entry a loop is at has been published.
LEMMA AtEntry ==
    ASSUME BusTypeOK, NEW p \in Procs, InBatch(p)
    PROVE  /\ batch[p].at \in Entries /\ batch[p].upto \in Entries /\ batch[p].at \in Nat \ {0}
           /\ batch[p].at <= batch[p].upto /\ batch[p].upto <= last /\ last \in Nat
           /\ Event(p) \in EventKinds
<1>1. /\ stream \in Seq(EventKinds) /\ Len(stream) \in Nat /\ Len(stream) <= MaxPublished
      /\ last \in 0..Len(stream) /\ MaxPublished \in Nat
  BY BusAssumption DEF BusTypeOK
<1>2. batch[p].at \in Nat \ {0} /\ batch[p].upto \in 0..last /\ batch[p].at <= batch[p].upto
  BY DEF BusTypeOK, InBatch
<1>3. batch[p].at \in 1..Len(stream)
  BY <1>1, <1>2
<1>. QED
  BY <1>1, <1>2, <1>3 DEF Entries, Event

\* What XREADGROUP hands out: entries after the last delivered one.
LEMMA ReadRange ==
    ASSUME BusTypeOK, ReadFrom <= ReadUpto
    PROVE  /\ ReadFrom \in Nat \ {0} /\ ReadUpto \in 0..Len(stream)
           /\ last < ReadFrom /\ last < ReadUpto /\ last \in Nat
<1>1. /\ Len(stream) \in Nat /\ last \in 0..Len(stream) /\ first \in Nat \ {0} /\ BatchSize \in Nat
  BY BusAssumption DEF BusTypeOK
<1>2. ReadFrom \in Nat \ {0} /\ last < ReadFrom
  BY <1>1 DEF ReadFrom
<1>3. ReadUpto \in Int /\ ReadUpto <= Len(stream)
  BY <1>1, <1>2 DEF ReadUpto
<1>. QED
  BY <1>1, <1>2, <1>3

LEMMA BusStep ==
    ASSUME BusTypeOK,
           \/ \E k \in EventKinds : Publish(k)
           \/ \E p \in Procs : XReadGroup(p) \/ (InBatch(p) /\ XAck(p)) \/ DropBatch(p)
           \/ UNCHANGED busVars
    PROVE  BusTypeOK'
<1>1. /\ stream \in Seq(EventKinds) /\ Len(stream) \in Nat /\ Len(stream) <= MaxPublished
      /\ first \in 1..(MaxPublished + 1)
      /\ last \in 0..Len(stream) /\ pending \subseteq 1..last
      /\ batch \in [Procs -> [at : Nat \ {0}, upto : 0..last]]
      /\ MaxPublished \in Nat /\ MaxLen \in Nat \ {0}
  BY BusAssumption DEF BusTypeOK
<1>2. ASSUME NEW k \in EventKinds, Publish(k) PROVE BusTypeOK'
  <2>1. stream' \in Seq(EventKinds) /\ Len(stream') = Len(stream) + 1
    BY <1>1, <1>2 DEF Publish
  <2>2. first' \in 1..(MaxPublished + 1)
    BY <1>1, <1>2 DEF Publish
  <2>3. UNCHANGED <<last, pending, batch>> /\ Len(stream) < MaxPublished
    BY <1>2 DEF Publish
  <2>. QED
    BY <1>1, <2>1, <2>2, <2>3 DEF BusTypeOK
<1>3. ASSUME NEW p \in Procs, XReadGroup(p) PROVE BusTypeOK'
  <2>1. /\ ReadFrom \in Nat \ {0} /\ ReadUpto \in 0..Len(stream) /\ last < ReadUpto
    BY <1>3, ReadRange DEF XReadGroup
  <2>2. /\ last' = ReadUpto /\ pending' = pending \cup (ReadFrom..ReadUpto)
        /\ batch' = [batch EXCEPT ![p] = [at |-> ReadFrom, upto |-> ReadUpto]]
        /\ UNCHANGED <<stream, first>>
    BY <1>3 DEF XReadGroup
  <2>3. pending' \subseteq 1..last'
    BY <1>1, <2>1, <2>2
  <2>4. batch' \in [Procs -> [at : Nat \ {0}, upto : 0..last']]
    <3>1. [at |-> ReadFrom, upto |-> ReadUpto] \in [at : Nat \ {0}, upto : 0..last']
      BY <2>1, <2>2
    <3>2. \A q \in Procs : batch[q] \in [at : Nat \ {0}, upto : 0..last']
      <4>1. \A q \in Procs : batch[q] \in [at : Nat \ {0}, upto : 0..last]
        BY <1>1
      <4>2. 0..last \subseteq 0..last'
        BY <1>1, <2>1, <2>2
      <4>. QED
        BY <4>1, <4>2
    <3>. QED
      BY <1>1, <2>2, <3>1, <3>2
  <2>. QED
    BY <1>1, <2>1, <2>2, <2>3, <2>4 DEF BusTypeOK
<1>4. ASSUME NEW p \in Procs, XAck(p) PROVE BusTypeOK'
  <2>1. batch' \in [Procs -> [at : Nat \ {0}, upto : 0..last]]
    BY <1>1, <1>4 DEF XAck
  <2>. QED
    BY <1>1, <1>4, <2>1 DEF BusTypeOK, XAck
<1>5. ASSUME NEW p \in Procs, DropBatch(p) PROVE BusTypeOK'
  <2>1. NoBatch \in [at : Nat \ {0}, upto : 0..last]
    BY <1>1 DEF NoBatch
  <2>2. batch' \in [Procs -> [at : Nat \ {0}, upto : 0..last]]
    BY <1>1, <1>5, <2>1 DEF DropBatch
  <2>. QED
    BY <1>1, <1>5, <2>2 DEF BusTypeOK, DropBatch
<1>6. CASE UNCHANGED busVars
  BY <1>1, <1>6 DEF BusTypeOK, busVars
<1>. QED
  BY <1>2, <1>3, <1>4, <1>5, <1>6

\* What a step of the system does to the bus.
LEMMA BusMoves ==
    ASSUME [Next]_vars
    PROVE  \/ \E k \in EventKinds : Publish(k)
           \/ \E p \in Procs : XReadGroup(p) \/ (InBatch(p) /\ XAck(p)) \/ DropBatch(p)
           \/ UNCHANGED busVars
BY DEF Next, vars, ReadBatch, HandlerStep, CheckWebhookChannel, SelectWebhooks, Dispatch,
       WebhooksDone, CheckInAppChannel, CreateInApp, CheckEmailChannel, DispatchEmail,
       NotificationFails, Acknowledge, LoopBreaks, UpdatePreferences, At

LEMMA BusAlways == Spec => []BusTypeOK
<1>1. Init => BusTypeOK
  BY BusAssumption DEF Init, BusInit, BusTypeOK, NoBatch
<1>2. BusTypeOK /\ [Next]_vars => BusTypeOK'
  BY BusMoves, BusStep
<1>. QED
  BY <1>1, <1>2, PTL DEF Spec

LEMMA DispatchTypeAlways == Spec => []DispatchTypeOK
<1>1. Init => DispatchTypeOK
  BY DEF Init, DispatchTypeOK, HandlerPc
<1>2. BusTypeOK /\ DispatchTypeOK /\ [Next]_vars => DispatchTypeOK'
  <2> SUFFICES ASSUME BusTypeOK, DispatchTypeOK, [Next]_vars PROVE DispatchTypeOK'
    OBVIOUS
  <2>1. CASE UNCHANGED dispatchVars
    BY <2>1 DEF DispatchTypeOK, dispatchVars
  <2>2. ASSUME NEW u \in Users, NEW c \in Preferred, UpdatePreferences(u, c)
        PROVE  DispatchTypeOK'
    BY <2>2, DispatchAssumption DEF UpdatePreferences, DispatchTypeOK
  <2>3. ASSUME NEW p \in Procs, LoopBreaks(p) PROVE DispatchTypeOK'
    BY <2>3 DEF LoopBreaks, Then, DispatchTypeOK, HandlerPc
  <2>4. ASSUME NEW p \in Procs, HandlerStep(p) PROVE DispatchTypeOK'
    <3>1. CASE CheckWebhookChannel(p)
      BY <3>1 DEF CheckWebhookChannel, Then, DispatchTypeOK, HandlerPc
    <3>2. CASE SelectWebhooks(p)
      <4>1. Matching(Event(p)) \subseteq Hooks
        BY DEF Matching
      <4>. QED
        BY <3>2, <4>1 DEF SelectWebhooks, Then, DispatchTypeOK, HandlerPc
    <3>3. CASE Dispatch(p)
      BY <3>3 DEF Dispatch, Then, DispatchTypeOK
    <3>4. CASE WebhooksDone(p)
      BY <3>4 DEF WebhooksDone, Then, DispatchTypeOK, HandlerPc
    <3>5. CASE CheckInAppChannel(p) \/ CheckEmailChannel(p) \/ NotificationFails(p)
               \/ Acknowledge(p)
      BY <3>5 DEF CheckInAppChannel, CheckEmailChannel, NotificationFails, Acknowledge, Then,
                  DispatchTypeOK, HandlerPc
    <3>6. CASE CreateInApp(p)
      BY <3>6, AtEntry DEF CreateInApp, At, Then, DispatchTypeOK, HandlerPc
    <3>7. CASE DispatchEmail(p)
      BY <3>7, AtEntry DEF DispatchEmail, At, Then, DispatchTypeOK, HandlerPc
    <3>. QED
      BY <2>4, <3>1, <3>2, <3>3, <3>4, <3>5, <3>6, <3>7 DEF HandlerStep
  <2>. QED
    BY <2>1, <2>2, <2>3, <2>4 DEF Next, vars, ReadBatch
<1>. QED
  BY <1>1, <1>2, BusAlways, PTL DEF Spec

\* The dispatcher creates deliveries only for webhooks it has found and for
\* entries of the bus, as WebhookDeliveries assumes of it: Notifications
\* implements DeliverySafe, and every theorem above holds of it too.
THEOREM DispatcherImplementsDeliveries == Spec => ImplementsDeliveries
<1>1. Init => DeliveryInit
  BY DEF Init
<1>2. BusTypeOK /\ DispatchTypeOK /\ [Next]_vars => [DeliveryNext]_deliveryVars
  <2> SUFFICES ASSUME BusTypeOK, DispatchTypeOK, [Next]_vars PROVE [DeliveryNext]_deliveryVars
    OBVIOUS
  <2>1. ASSUME NEW p \in Procs, Dispatch(p) PROVE DeliveryNext
    <3>1. PICK h \in todo[p] : CreateDelivery(h, batch[p].at)
      BY <2>1 DEF Dispatch
    <3>2. h \in Hooks
      BY <3>1 DEF DispatchTypeOK
    <3>3. batch[p].at \in Dispatched
      BY <2>1, AtEntry, DispatchAssumption DEF Dispatch, At
    <3>. QED
      BY <3>1, <3>2, <3>3 DEF DeliveryNext
  <2>2. CASE DeliveryStep
    BY <2>2 DEF DeliveryNext
  <2>. QED
    BY <2>1, <2>2
       DEF Next, vars, ReadBatch, HandlerStep, CheckWebhookChannel, SelectWebhooks,
           WebhooksDone, CheckInAppChannel, CreateInApp, CheckEmailChannel, DispatchEmail,
           NotificationFails, Acknowledge, LoopBreaks, UpdatePreferences
<1>. QED
  BY <1>1, <1>2, BusAlways, DispatchTypeAlways, PTL DEF Spec, DeliverySafe, ImplementsDeliveries

-----------------------------------------------------------------------------
(***************************************************************************)
(* Every entry is dispatched once.  The batches of two loops are disjoint, *)
(* and nothing has been done yet for the entries that no loop has reached, *)
(* nor, for the entry a loop is at, what its handlers have still to do.    *)
(***************************************************************************)
Untouched(t, i) == \A d \in Ids : t[d] # NoRow => t[d].entry # i

Fresh(t, i) == Untouched(t, i) /\ inbox[i] = 0 /\ emails[i] = 0

OwnEntry(t, p) ==
    /\ handler[p] \in {"webhook", "select"} => Untouched(t, batch[p].at)
    /\ handler[p] = "create" =>
          \A d \in Ids : t[d] # NoRow /\ t[d].entry = batch[p].at => t[d].hook \notin todo[p]
    /\ handler[p] \in {"webhook", "select", "create", "in_app", "insert"} => inbox[batch[p].at] = 0
    /\ handler[p] # "ack" => emails[batch[p].at] = 0

UniqueRows(t) ==
    \A c, d \in Ids :
        (/\ t[c] # NoRow /\ t[d] # NoRow /\ t[c].entry > 0
         /\ t[c].entry = t[d].entry /\ t[c].hook = t[d].hook) => c = d

BatchesApart ==
    \A p, q \in Procs : p # q /\ InBatch(p) /\ InBatch(q) =>
        batch[p].upto < batch[q].at \/ batch[q].upto < batch[p].at

AheadFresh ==
    /\ \A i \in Entries : i > last => Fresh(rows, i)
    /\ \A p \in Procs : \A i \in Entries : batch[p].at < i /\ i <= batch[p].upto => Fresh(rows, i)

OnceInv ==
    /\ BatchesApart
    /\ AheadFresh
    /\ \A p \in Procs : IF InBatch(p) THEN OwnEntry(rows, p) ELSE handler[p] = "webhook"
    /\ UniqueRows(rows)
    /\ \A i \in Entries : inbox[i] <= 1 /\ emails[i] <= 1

\* A step that moves no batch, touches no more than the entry p is at, and
\* leaves the other loops' handlers alone.
LEMMA OnceStep ==
    ASSUME BusTypeOK, OnceInv, UNCHANGED <<batch, last>>, NEW p \in Procs, InBatch(p),
           \A q \in Procs : q # p => handler'[q] = handler[q] /\ todo'[q] = todo[q],
           \A i \in Entries : i # batch[p].at =>
               /\ inbox'[i] = inbox[i] /\ emails'[i] = emails[i],
           \A d \in Ids : rows'[d] # NoRow /\ rows'[d].entry # batch[p].at => rows'[d] = rows[d],
           OwnEntry(rows, p)', UniqueRows(rows'),
           inbox'[batch[p].at] <= 1, emails'[batch[p].at] <= 1
    PROVE  OnceInv'
<1>1. /\ batch[p].at \in Entries /\ batch[p].upto <= last /\ batch[p].at <= batch[p].upto
      /\ batch[p].at \in Nat /\ batch[p].upto \in Nat /\ last \in Nat /\ Entries \subseteq Nat
  BY AtEntry, BusAssumption DEF Entries
<1>2. BatchesApart'
  BY DEF OnceInv, BatchesApart, InBatch
<1>3. ASSUME NEW i \in Entries, i # batch[p].at, Fresh(rows, i) PROVE Fresh(rows, i)'
  BY <1>3 DEF Fresh, Untouched
<1>4. \A q \in Procs : batch[q].at \in Nat /\ batch[q].upto \in Nat
  BY DEF BusTypeOK
<1>5. AheadFresh'
  <2>1. ASSUME NEW i \in Entries, i > last PROVE Fresh(rows, i)'
    BY <1>1, <1>3, <2>1 DEF OnceInv, AheadFresh
  <2>2. ASSUME NEW q \in Procs, NEW i \in Entries, batch[q].at < i, i <= batch[q].upto
        PROVE  Fresh(rows, i)'
    <3>1. i # batch[p].at
      <4>1. CASE q = p
        BY <1>1, <2>2, <4>1
      <4>2. CASE q # p
        <5>1. InBatch(q) /\ i \in Nat
          BY <1>1, <1>4, <2>2 DEF InBatch
        <5>2. batch[p].upto < batch[q].at \/ batch[q].upto < batch[p].at
          BY <4>2, <5>1 DEF OnceInv, BatchesApart
        <5>. QED
          BY <1>1, <1>4, <2>2, <5>1, <5>2
      <4>. QED
        BY <4>1, <4>2
    <3>. QED
      BY <1>3, <2>2, <3>1 DEF OnceInv, AheadFresh
  <2>. QED
    BY <2>1, <2>2 DEF AheadFresh
<1>6. ASSUME NEW q \in Procs
      PROVE  (IF InBatch(q) THEN OwnEntry(rows, q) ELSE handler[q] = "webhook")'
  <2>1. CASE q = p
    BY <2>1 DEF InBatch
  <2>2. CASE q # p /\ ~InBatch(q)
    BY <2>2 DEF InBatch, OnceInv
  <2>3. CASE q # p /\ InBatch(q)
    <3>1. batch[q].at \in Entries /\ batch[q].at <= batch[q].upto
      BY <2>3, AtEntry
    <3>2. batch[q].at # batch[p].at
      <4>1. batch[p].upto < batch[q].at \/ batch[q].upto < batch[p].at
        BY <2>3 DEF OnceInv, BatchesApart
      <4>. QED
        BY <1>1, <1>4, <3>1, <4>1
    <3>3. OwnEntry(rows, q)
      BY <2>3 DEF OnceInv
    <3>4. OwnEntry(rows, q)'
      BY <2>3, <3>1, <3>2, <3>3 DEF OwnEntry, Untouched
    <3>. QED
      BY <2>3, <3>4 DEF InBatch
  <2>. QED
    BY <2>1, <2>2, <2>3
<1>7. \A i \in Entries : inbox'[i] <= 1 /\ emails'[i] <= 1
  BY DEF OnceInv
<1>. QED
  BY <1>2, <1>5, <1>6, <1>7 DEF OnceInv

\* The requests and the workers create no delivery but pings (entry 0), and
\* turn none into another's.
LEMMA RowsKept ==
    ASSUME TypeInv, DeliveryStep, NEW d \in Ids, rows'[d] # NoRow
    PROVE  \/ /\ rows[d] # NoRow
              /\ rows'[d].hook = rows[d].hook /\ rows'[d].entry = rows[d].entry
           \/ rows'[d].entry = 0
<1>1. rows \in [Ids -> Delivery \cup {NoRow}]
  BY DEF TypeInv, DeliveryTypeOK
<1>2. CASE rows' = rows
  BY <1>2
<1>3. ASSUME NEW h \in Hooks, Purge(h)
      PROVE  rows[d] # NoRow /\ rows'[d].hook = rows[d].hook /\ rows'[d].entry = rows[d].entry
  <2>1. rows[d] # NoRow
    BY <1>3 DEF Purge
  <2>2. /\ [rows[d] EXCEPT !.status = "purged"].hook = rows[d].hook
        /\ [rows[d] EXCEPT !.status = "purged"].entry = rows[d].entry
    BY <1>1, <2>1 DEF Delivery
  <2>. QED
    BY <1>3, <2>1, <2>2 DEF Purge
<1>4. ASSUME NEW h \in Hooks, PingWebhook(h) PROVE rows'[d] = rows[d] \/ rows'[d].entry = 0
  <2>1. CreateDelivery(h, 0) /\ 0 \in Nat
    BY <1>4 DEF PingWebhook
  <2>2. PICK e \in Ids : rows' = [rows EXCEPT ![e] = [hook |-> h, entry |-> 0,
                                                      status |-> "pending", attempt |-> 0]]
    BY <2>1, CreateEffect
  <2>. QED
    BY <1>1, <2>2
<1>5. ASSUME NEW w \in Workers, Flush(w)
      PROVE  rows[d] # NoRow /\ rows'[d].hook = rows[d].hook /\ rows'[d].entry = rows[d].entry
  <2>1. run[w].d \in Ids /\ rows[run[w].d] # NoRow
    BY <1>5, Running, AbsentIsNoRow DEF Flush
  <2>2. rows' = [rows EXCEPT ![run[w].d] = Flushed(rows[run[w].d], run[w])]
    BY <1>5, FlushEffect
  <2>3. /\ Flushed(rows[run[w].d], run[w]).hook = rows[run[w].d].hook
        /\ Flushed(rows[run[w].d], run[w]).entry = rows[run[w].d].entry
    BY DEF Flushed
  <2>. QED
    BY <1>1, <2>1, <2>2, <2>3
<1>. QED
  BY <1>2, <1>3, <1>4, <1>5
     DEF DeliveryStep, CreateWebhook, DeleteWebhook, RestoreWebhook, UpdateWebhook, TakeAny, Take,
         TaskStep, Load, Post, Record, Retry, Ack, TaskFails, NodeCrash

\* A handler moves on without having done anything.
LEMMA OnceMove ==
    ASSUME BusTypeOK, DispatchTypeOK, OnceInv, NEW p \in Procs, InBatch(p),
           UNCHANGED <<batch, last, rows, inbox, emails>>,
           \A q \in Procs : q # p => handler'[q] = handler[q] /\ todo'[q] = todo[q],
           OwnEntry(rows, p)'
    PROVE  OnceInv'
<1>1. UniqueRows(rows')
  BY DEF OnceInv
<1>2. batch[p].at \in Entries
  BY AtEntry
<1>3. inbox'[batch[p].at] <= 1 /\ emails'[batch[p].at] <= 1
  BY <1>2 DEF OnceInv
<1>. QED
  BY <1>1, <1>3, OnceStep

LEMMA HandlerOnce ==
    ASSUME BusTypeOK, DispatchTypeOK, TypeInv, OnceInv, NEW p \in Procs, HandlerStep(p)
    PROVE  OnceInv'
<1>1. ASSUME InBatch(p) PROVE OwnEntry(rows, p) /\ batch[p].at \in Entries
  BY <1>1, AtEntry DEF OnceInv
<1>2. handler \in [Procs -> HandlerPc] /\ todo \in [Procs -> SUBSET Hooks]
  BY DEF DispatchTypeOK
<1>3. CASE CheckWebhookChannel(p)
  <2>1. /\ InBatch(p) /\ handler[p] = "webhook" /\ handler'[p] \in {"select", "in_app"}
        /\ UNCHANGED <<batch, last, rows, inbox, emails>>
        /\ \A q \in Procs : q # p => handler'[q] = handler[q] /\ todo'[q] = todo[q]
    BY <1>2, <1>3 DEF CheckWebhookChannel, At, Then, busVars, deliveryVars
  <2>2. OwnEntry(rows, p)'
    BY <1>1, <2>1 DEF OwnEntry
  <2>. QED
    BY <2>1, <2>2, OnceMove
<1>4. CASE SelectWebhooks(p)
  <2>1. /\ InBatch(p) /\ handler[p] = "select" /\ handler'[p] = "create"
        /\ UNCHANGED <<batch, last, rows, inbox, emails>>
        /\ \A q \in Procs : q # p => handler'[q] = handler[q] /\ todo'[q] = todo[q]
    BY <1>2, <1>4 DEF SelectWebhooks, At, Then, busVars, deliveryVars
  <2>2. OwnEntry(rows, p)'
    BY <1>1, <2>1 DEF OwnEntry, Untouched
  <2>. QED
    BY <2>1, <2>2, OnceMove
<1>5. CASE Dispatch(p)
  <2>1. PICK h \in todo[p] : CreateDelivery(h, batch[p].at) /\ todo' = [todo EXCEPT ![p] = @ \ {h}]
    BY <1>5 DEF Dispatch
  <2>2. /\ InBatch(p) /\ handler[p] = "create"
        /\ UNCHANGED <<batch, last, handler, inbox, emails>>
    BY <1>5 DEF Dispatch, At, busVars
  <2>3. h \in Hooks /\ batch[p].at \in Nat \ {0} /\ batch[p].at \in Entries
    BY <1>2, <2>1, <2>2, AtEntry
  <2>4. PICK e \in Ids :
            /\ rows[e] = NoRow
            /\ rows' = [rows EXCEPT ![e] = [hook |-> h, entry |-> batch[p].at,
                                            status |-> "pending", attempt |-> 0]]
    BY <2>1, <2>3, CreateEffect
  <2>5. /\ \A d \in Ids : d # e => rows'[d] = rows[d]
        /\ rows'[e].hook = h /\ rows'[e].entry = batch[p].at
    BY <2>4 DEF TypeInv, DeliveryTypeOK
  <2>6. \A d \in Ids : rows[d] # NoRow /\ rows[d].entry = batch[p].at => rows[d].hook \notin todo[p]
    BY <1>1, <2>2 DEF OwnEntry
  <2>7. todo'[p] = todo[p] \ {h} /\ \A q \in Procs : q # p => todo'[q] = todo[q]
    BY <1>2, <2>1
  <2>8. OwnEntry(rows, p)'
    BY <1>1, <2>2, <2>5, <2>6, <2>7 DEF OwnEntry
  <2>9. UniqueRows(rows')
    <3>1. UniqueRows(rows)
      BY DEF OnceInv
    <3>. QED
      BY <2>1, <2>4, <2>5, <2>6, <3>1 DEF UniqueRows
  <2>10. /\ inbox'[batch[p].at] <= 1 /\ emails'[batch[p].at] <= 1
    BY <2>2, <2>3 DEF OnceInv
  <2>. QED
    BY <2>2, <2>5, <2>7, <2>8, <2>9, <2>10, OnceStep
<1>6. CASE WebhooksDone(p)
  <2>1. /\ InBatch(p) /\ handler[p] \in {"webhook", "select", "create"} /\ handler'[p] = "in_app"
        /\ UNCHANGED <<batch, last, rows, inbox, emails>>
        /\ \A q \in Procs : q # p => handler'[q] = handler[q] /\ todo'[q] = todo[q]
    BY <1>2, <1>6 DEF WebhooksDone, At, Then, busVars, deliveryVars
  <2>2. OwnEntry(rows, p)'
    BY <1>1, <2>1 DEF OwnEntry
  <2>. QED
    BY <2>1, <2>2, OnceMove
<1>7. CASE CheckInAppChannel(p) \/ CheckEmailChannel(p) \/ NotificationFails(p)
  <2>1. /\ InBatch(p) /\ UNCHANGED <<batch, last, rows, inbox, emails>>
        /\ \/ handler[p] = "in_app" /\ handler'[p] \in {"ack", "insert", "email"}
           \/ handler[p] = "email" /\ handler'[p] \in {"send", "ack"}
           \/ handler'[p] = "ack"
        /\ \A q \in Procs : q # p => handler'[q] = handler[q] /\ todo'[q] = todo[q]
    BY <1>2, <1>7 DEF CheckInAppChannel, CheckEmailChannel, NotificationFails, At, Then, busVars,
                      deliveryVars
  <2>2. OwnEntry(rows, p)'
    BY <1>1, <2>1 DEF OwnEntry
  <2>. QED
    BY <2>1, <2>2, OnceMove
<1>8. CASE CreateInApp(p)
  <2>1. /\ InBatch(p) /\ handler[p] = "insert" /\ handler'[p] = "email"
        /\ UNCHANGED <<batch, last, rows, emails>>
        /\ inbox' = [inbox EXCEPT ![batch[p].at] = @ + 1]
        /\ \A q \in Procs : q # p => handler'[q] = handler[q] /\ todo'[q] = todo[q]
    BY <1>2, <1>8 DEF CreateInApp, At, Then, busVars, deliveryVars
  <2>2. /\ inbox'[batch[p].at] = 1
        /\ \A i \in Entries : i # batch[p].at => inbox'[i] = inbox[i]
    BY <1>1, <2>1 DEF OwnEntry, DispatchTypeOK
  <2>3. OwnEntry(rows, p)'
    BY <1>1, <2>1 DEF OwnEntry
  <2>4. UniqueRows(rows') /\ emails'[batch[p].at] <= 1
    BY <1>1, <2>1 DEF OnceInv
  <2>. QED
    BY <2>1, <2>2, <2>3, <2>4, OnceStep
<1>9. CASE DispatchEmail(p)
  <2>1. /\ InBatch(p) /\ handler[p] = "send" /\ handler'[p] = "ack"
        /\ UNCHANGED <<batch, last, rows, inbox>>
        /\ emails' = [emails EXCEPT ![batch[p].at] = @ + 1]
        /\ \A q \in Procs : q # p => handler'[q] = handler[q] /\ todo'[q] = todo[q]
    BY <1>2, <1>9 DEF DispatchEmail, At, Then, busVars, deliveryVars
  <2>2. /\ emails'[batch[p].at] = 1
        /\ \A i \in Entries : i # batch[p].at => emails'[i] = emails[i]
    BY <1>1, <2>1 DEF OwnEntry, DispatchTypeOK
  <2>3. OwnEntry(rows, p)'
    BY <2>1 DEF OwnEntry
  <2>4. UniqueRows(rows') /\ inbox'[batch[p].at] <= 1
    BY <1>1, <2>1 DEF OnceInv
  <2>. QED
    BY <2>1, <2>2, <2>3, <2>4, OnceStep
<1>10. CASE Acknowledge(p)
  <2>1. /\ InBatch(p) /\ handler'[p] = "webhook" /\ batch' = [batch EXCEPT ![p].at = @ + 1]
        /\ UNCHANGED <<last, rows, inbox, emails, todo>>
        /\ \A q \in Procs : q # p => handler'[q] = handler[q]
    BY <1>2, <1>10 DEF Acknowledge, XAck, At, Then, busVars, deliveryVars
  <2>2. /\ batch'[p].at = batch[p].at + 1 /\ batch'[p].upto = batch[p].upto
        /\ batch[p].at \in Nat /\ batch[p].upto \in Nat
        /\ \A q \in Procs : q # p => batch'[q] = batch[q]
        /\ \A q \in Procs : batch[q].at \in Nat /\ batch[q].upto \in Nat
    BY <2>1 DEF BusTypeOK
  <2>3. batch[p].at \in Nat /\ batch[p].upto \in Entries /\ Entries = 1..MaxPublished
        /\ MaxPublished \in Nat
    BY <2>1, AtEntry, BusAssumption DEF Entries
  <2>4. BatchesApart'
    BY <2>1, <2>2 DEF OnceInv, BatchesApart, InBatch
  <2>5. AheadFresh'
    BY <2>1, <2>2, <2>3 DEF OnceInv, AheadFresh, Fresh
  <2>6. ASSUME NEW q \in Procs
        PROVE  (IF InBatch(q) THEN OwnEntry(rows, q) ELSE handler[q] = "webhook")'
    <3>1. CASE q # p
      BY <2>1, <2>2, <3>1 DEF OnceInv, InBatch, OwnEntry
    <3>2. CASE q = p /\ batch[p].at + 1 <= batch[p].upto
      <4>1. Fresh(rows, batch[p].at + 1)
        BY <2>2, <2>3, <3>2 DEF OnceInv, AheadFresh
      <4>2. OwnEntry(rows, p)'
        BY <2>1, <2>2, <4>1 DEF OwnEntry, Fresh
      <4>. QED
        BY <2>1, <3>2, <4>2
    <3>3. CASE q = p /\ ~(batch[p].at + 1 <= batch[p].upto)
      BY <2>1, <2>2, <3>3 DEF InBatch
    <3>. QED
      BY <3>1, <3>2, <3>3
  <2>. QED
    BY <2>1, <2>4, <2>5, <2>6 DEF OnceInv
<1>. QED
  BY <1>3, <1>4, <1>5, <1>6, <1>7, <1>8, <1>9, <1>10 DEF HandlerStep

LEMMA ReadOnce ==
    ASSUME BusTypeOK, OnceInv, NEW p \in Procs, ReadBatch(p)
    PROVE  OnceInv'
<1>1. /\ ~InBatch(p) /\ last' = ReadUpto
      /\ batch' = [batch EXCEPT ![p] = [at |-> ReadFrom, upto |-> ReadUpto]]
      /\ UNCHANGED <<rows, handler, todo, inbox, emails>>
  BY DEF ReadBatch, XReadGroup, deliveryVars, dispatchVars
<1>2. /\ ReadFrom \in Nat \ {0} /\ ReadUpto \in 0..Len(stream) /\ ReadFrom <= ReadUpto
      /\ last < ReadFrom /\ last < ReadUpto /\ last \in Nat
      /\ Len(stream) \in Nat /\ Len(stream) <= MaxPublished /\ MaxPublished \in Nat
  BY ReadRange, BusAssumption DEF ReadBatch, XReadGroup, BusTypeOK
<1>3. /\ batch'[p].at = ReadFrom /\ batch'[p].upto = ReadUpto
      /\ \A q \in Procs : q # p => batch'[q] = batch[q]
      /\ \A q \in Procs : batch[q].at \in Nat /\ batch[q].upto \in Nat /\ batch[q].upto <= last
  BY <1>1, <1>2 DEF BusTypeOK
<1>4. BatchesApart'
  BY <1>2, <1>3 DEF OnceInv, BatchesApart, InBatch
<1>5. ASSUME NEW i \in Entries, Fresh(rows, i) PROVE Fresh(rows, i)'
  BY <1>1, <1>5 DEF Fresh
<1>6. AheadFresh'
  <2>1. ASSUME NEW i \in Entries, i > last' PROVE Fresh(rows, i)'
    BY <1>1, <1>2, <1>5, <2>1 DEF OnceInv, AheadFresh, Entries
  <2>2. ASSUME NEW q \in Procs, NEW i \in Entries, batch'[q].at < i, i <= batch'[q].upto
        PROVE  Fresh(rows, i)'
    <3>1. CASE q = p
      BY <1>2, <1>3, <1>5, <2>2, <3>1 DEF OnceInv, AheadFresh, Entries
    <3>2. CASE q # p
      BY <1>3, <1>5, <2>2, <3>2 DEF OnceInv, AheadFresh
    <3>. QED
      BY <3>1, <3>2
  <2>. QED
    BY <2>1, <2>2 DEF AheadFresh
<1>7. ASSUME NEW q \in Procs
      PROVE  (IF InBatch(q) THEN OwnEntry(rows, q) ELSE handler[q] = "webhook")'
  <2>1. CASE q # p
    BY <1>1, <1>3, <2>1 DEF OnceInv, InBatch, OwnEntry
  <2>2. CASE q = p
    <3>1. ReadFrom \in Entries
      BY <1>2 DEF Entries
    <3>2. Fresh(rows, ReadFrom) /\ handler[p] = "webhook"
      BY <1>1, <1>2, <3>1 DEF OnceInv, AheadFresh
    <3>3. OwnEntry(rows, p)'
      BY <1>1, <1>3, <3>2 DEF OwnEntry, Fresh
    <3>4. InBatch(p)'
      BY <1>2, <1>3 DEF InBatch
    <3>. QED
      BY <2>2, <3>3, <3>4
  <2>. QED
    BY <2>1, <2>2
<1>. QED
  BY <1>1, <1>4, <1>6, <1>7 DEF OnceInv

LEMMA BreakOnce ==
    ASSUME BusTypeOK, DispatchTypeOK, OnceInv, NEW p \in Procs, LoopBreaks(p)
    PROVE  OnceInv'
<1>1. /\ batch' = [batch EXCEPT ![p] = NoBatch] /\ handler' = [handler EXCEPT ![p] = "webhook"]
      /\ todo' = [todo EXCEPT ![p] = {}]
      /\ UNCHANGED <<last, rows, inbox, emails>>
  BY DEF LoopBreaks, DropBatch, Then, deliveryVars
<1>2. /\ batch'[p].at = 1 /\ batch'[p].upto = 0 /\ handler'[p] = "webhook"
      /\ \A q \in Procs : q # p => /\ batch'[q] = batch[q] /\ handler'[q] = handler[q]
                                   /\ todo'[q] = todo[q]
  BY <1>1 DEF BusTypeOK, DispatchTypeOK, NoBatch
<1>3. BatchesApart'
  BY <1>2 DEF OnceInv, BatchesApart, InBatch
<1>4. \A i \in Entries : Fresh(rows, i) => Fresh(rows, i)'
  BY <1>1 DEF Fresh
<1>5. AheadFresh'
  <2>1. ASSUME NEW i \in Entries, i > last' PROVE Fresh(rows, i)'
    BY <1>1, <1>4, <2>1 DEF OnceInv, AheadFresh
  <2>2. ASSUME NEW q \in Procs, NEW i \in Entries, batch'[q].at < i, i <= batch'[q].upto
        PROVE  Fresh(rows, i)'
    <3>1. q # p
      BY <1>2, <2>2, BusAssumption DEF Entries
    <3>. QED
      BY <1>2, <1>4, <2>2, <3>1 DEF OnceInv, AheadFresh
  <2>. QED
    BY <2>1, <2>2 DEF AheadFresh
<1>6. ASSUME NEW q \in Procs
      PROVE  (IF InBatch(q) THEN OwnEntry(rows, q) ELSE handler[q] = "webhook")'
  <2>1. CASE q # p
    BY <1>1, <1>2, <2>1 DEF OnceInv, InBatch, OwnEntry
  <2>2. CASE q = p
    BY <1>2, <2>2 DEF InBatch
  <2>. QED
    BY <2>1, <2>2
<1>. QED
  BY <1>1, <1>3, <1>5, <1>6 DEF OnceInv

\* Steps of the others: publishers, users, administrators, workers.
LEMMA OthersOnce ==
    ASSUME BusTypeOK, OnceInv, UNCHANGED <<batch, last, handler, todo, inbox, emails>>,
           \A d \in Ids : rows'[d] # NoRow =>
               \/ /\ rows[d] # NoRow
                  /\ rows'[d].hook = rows[d].hook /\ rows'[d].entry = rows[d].entry
               \/ rows'[d].entry = 0
    PROVE  OnceInv'
<1>0. \A i \in Entries : i # 0
  BY BusAssumption DEF Entries
<1>1. \A i \in Entries : Untouched(rows, i) => Untouched(rows, i)'
  BY <1>0 DEF Untouched
<1>2. BatchesApart' /\ AheadFresh'
  BY <1>1 DEF OnceInv, BatchesApart, AheadFresh, InBatch, Fresh
<1>3. ASSUME NEW q \in Procs
      PROVE  (IF InBatch(q) THEN OwnEntry(rows, q) ELSE handler[q] = "webhook")'
  <2>1. CASE ~InBatch(q)
    BY <2>1 DEF OnceInv, InBatch
  <2>2. CASE InBatch(q)
    <3>1. OwnEntry(rows, q) /\ batch[q].at \in Entries
      BY <2>2, AtEntry DEF OnceInv
    <3>2. OwnEntry(rows, q)'
      BY <1>0, <1>1, <3>1 DEF OwnEntry
    <3>. QED
      BY <2>2, <3>2 DEF InBatch
  <2>. QED
    BY <2>1, <2>2
<1>4. UniqueRows(rows')
  BY DEF OnceInv, UniqueRows
<1>. QED
  BY <1>2, <1>3, <1>4 DEF OnceInv

\* Although several loops read the stream as one consumer, die with half a
\* batch in hand and leave entries pending, handle_event and
\* handle_notification_event dispatch no entry twice: one delivery per webhook,
\* one notification, one email.
THEOREM EntriesDispatchedOnce == Spec => []DispatchedOnce
<1>1. Init => OnceInv
  <2> SUFFICES ASSUME Init PROVE OnceInv
    OBVIOUS
  <2>1. /\ \A d \in Ids : rows[d] = NoRow
        /\ \A i \in Entries : inbox[i] = 0 /\ emails[i] = 0
        /\ \A p \in Procs : handler[p] = "webhook" /\ ~InBatch(p)
    BY DEF Init, DeliveryInit, BusInit, NoBatch, InBatch
  <2>2. \A i \in Entries : Fresh(rows, i)
    BY <2>1 DEF Fresh, Untouched
  <2>. QED
    BY <2>1, <2>2 DEF OnceInv, BatchesApart, AheadFresh, UniqueRows
<1>2. BusTypeOK /\ DispatchTypeOK /\ TypeInv /\ OnceInv /\ [Next]_vars => OnceInv'
  <2> SUFFICES ASSUME BusTypeOK, DispatchTypeOK, TypeInv, OnceInv, [Next]_vars PROVE OnceInv'
    OBVIOUS
  <2>1. CASE UNCHANGED <<batch, last, handler, todo, inbox, emails, rows>>
    BY <2>1, OthersOnce
  <2>2. CASE DeliveryStep /\ UNCHANGED <<busVars, dispatchVars>>
    <3>1. UNCHANGED <<batch, last, handler, todo, inbox, emails>>
      BY <2>2 DEF busVars, dispatchVars
    <3>. QED
      BY <2>2, <3>1, RowsKept, OthersOnce
  <2>. QED
    BY <2>1, <2>2, HandlerOnce, ReadOnce, BreakOnce
       DEF Next, vars, busVars, deliveryVars, dispatchVars, Publish, UpdatePreferences
<1>3. OnceInv => DispatchedOnce
  BY DEF OnceInv, UniqueRows, DispatchedOnce
<1>4. Spec => []TypeInv
  BY DispatcherImplementsDeliveries, TypeInvAlways, PTL DEF ImplementsDeliveries
<1>. QED
  BY <1>1, <1>2, <1>3, <1>4, BusAlways, DispatchTypeAlways, PTL DEF Spec

\* The types of the composed specification.
THEOREM NotificationsTyped == Spec => []TypeOK
<1>1. BusTypeOK /\ DispatchTypeOK /\ TypeInv => TypeOK
  BY DEF TypeOK, DispatchTypeOK, TypeInv, HandlerPc
<1>2. Spec => []TypeInv
  BY DispatcherImplementsDeliveries, TypeInvAlways, PTL DEF ImplementsDeliveries
<1>. QED
  BY <1>1, <1>2, BusAlways, DispatchTypeAlways, PTL

=============================================================================
