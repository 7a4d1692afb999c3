------------------------- MODULE WebhookDeliveries -------------------------
(***************************************************************************)
(* Outgoing webhooks: the webhooks and webhook_deliveries tables, the      *)
(* broker's queue of deliver_webhook tasks and the Celery workers.  Tasks  *)
(* are acknowledged late: the message a worker has taken goes back to the  *)
(* queue when the worker's node dies, and is gone when the task ends in an *)
(* exception.  A task reads the delivery, posts, and records the outcome,  *)
(* each in a session of its own and without a lock; a commit writes the    *)
(* columns that differ from the loaded ones.                               *)
(*                                                                         *)
(* The columns that are only displayed (response, error, next_retry_at,    *)
(* the webhook's last_status and failure_count) are left out, and so is    *)
(* the backoff, which only delays a message.                               *)
(***************************************************************************)
EXTENDS Integers

CONSTANTS
    Hooks,          \* webhooks
    Workers,        \* Celery workers
    Dispatched,     \* bus entries the dispatcher turns into deliveries
    MaxRetries,     \* settings.WEBHOOK_MAX_RETRIES
    MaxDeliveries,  \* bound: rows of webhook_deliveries
    MaxCrashes      \* bound: nodes that die with a task in hand

ASSUME DeliveryAssumption ==
    /\ Dispatched \subseteq Nat \ {0}
    /\ MaxRetries \in Nat /\ MaxDeliveries \in Nat /\ MaxCrashes \in Nat

MaxAttempts == MaxRetries + 1
Ids         == 1..MaxDeliveries
Retries     == 0..MaxRetries

\* "purged": the row went with its webhook (ON DELETE CASCADE).
Status   == {"pending", "retrying", "delivered", "failed", "purged"}
Open     == {"pending", "retrying"}
Delivery == [hook : Hooks, entry : Nat, status : Status, attempt : Nat]
NoRow    == [absent |-> TRUE]

VARIABLES
    hooks,      \* webhooks: is_active, and whether created, soft-deleted or purged
    rows,       \* webhook_deliveries: NoRow where no row was inserted
    queue,      \* the broker: messages per delivery and request.retries
    run,        \* what each worker executes
    accepted,   \* history: deliveries the endpoint has answered with 2xx
    lost,       \* history: deliveries one of whose messages was lost
    crashes     \* how many nodes have died

deliveryVars == <<hooks, rows, queue, run, accepted, lost, crashes>>

Hook == [active : BOOLEAN, state : {"absent", "present", "deleted", "purged"}]

\* A run: the message (d, retries), the outcome to record, and the row as
\* _record_delivery_outcome has loaded it.
Run == [pc : {"idle", "load", "post", "record", "flush", "retry", "ack"},
        d : Ids \cup {0}, retries : Retries, attempt : Nat, outcome : Status,
        seenStatus : Status, seenAttempt : Nat]
IdleRun == [pc |-> "idle", d |-> 0, retries |-> 0, attempt |-> 0, outcome |-> "pending",
            seenStatus |-> "pending", seenAttempt |-> 0]

DeliveryTypeOK ==
    /\ hooks \in [Hooks -> Hook]
    /\ rows \in [Ids -> Delivery \cup {NoRow}]
    /\ queue \in [Ids -> [Retries -> Nat]]
    /\ run \in [Workers -> Run]
    /\ accepted \subseteq Ids
    /\ lost \subseteq Ids
    /\ crashes \in Nat

DeliveryInit ==
    /\ hooks = [h \in Hooks |-> [active |-> TRUE, state |-> "absent"]]
    /\ rows = [d \in Ids |-> NoRow]
    /\ queue = [d \in Ids |-> [r \in Retries |-> 0]]
    /\ run = [w \in Workers |-> IdleRun]
    /\ accepted = {}
    /\ lost = {}
    /\ crashes = 0

-----------------------------------------------------------------------------
(***************************************************************************)
(* The webhook endpoints and the weekly purge.                             *)
(***************************************************************************)
SetHook(h, active, state) ==
    /\ hooks' = [hooks EXCEPT ![h] = [active |-> active, state |-> state]]
    /\ UNCHANGED <<queue, run, accepted, lost, crashes>>

CreateWebhook(h) ==
    /\ hooks[h].state = "absent"
    /\ SetHook(h, TRUE, "present")
    /\ UNCHANGED rows

UpdateWebhook(h, active) ==
    /\ hooks[h].state = "present"
    /\ SetHook(h, active, "present")
    /\ UNCHANGED rows

\* DELETE is a soft delete; is_active is left as it is.
DeleteWebhook(h) ==
    /\ hooks[h].state = "present"
    /\ SetHook(h, hooks[h].active, "deleted")
    /\ UNCHANGED rows

RestoreWebhook(h) ==
    /\ hooks[h].state = "deleted"
    /\ SetHook(h, hooks[h].active, "present")
    /\ UNCHANGED rows

\* purge_soft_deleted, once the retention time is over.
Purge(h) ==
    /\ hooks[h].state = "deleted"
    /\ SetHook(h, FALSE, "purged")
    /\ rows' = [d \in Ids |-> IF rows[d] # NoRow /\ rows[d].hook = h
                              THEN [rows[d] EXCEPT !.status = "purged"] ELSE rows[d]]

NextId(d) == rows[d] = NoRow /\ \A c \in 1..(d-1) : rows[c] # NoRow

\* create_delivery for an entry of the bus (0: the test event of a ping) and
\* deliver_webhook.delay, which fails when the broker is away.
CreateDelivery(h, entry) ==
    /\ hooks[h].state \in {"present", "deleted"}
    /\ \E d \in Ids :
          /\ NextId(d)
          /\ rows' = [rows EXCEPT ![d] = [hook |-> h, entry |-> entry,
                                          status |-> "pending", attempt |-> 0]]
          /\ \/ queue' = [queue EXCEPT ![d][0] = 1] /\ UNCHANGED lost
             \/ lost' = lost \cup {d} /\ UNCHANGED queue
    /\ UNCHANGED <<hooks, run, accepted, crashes>>

PingWebhook(h) == hooks[h].state = "present" /\ CreateDelivery(h, 0)

-----------------------------------------------------------------------------
(***************************************************************************)
(* deliver_webhook.                                                        *)
(***************************************************************************)
Goto(w, pc) == run' = [run EXCEPT ![w].pc = pc]
EndRun(w)   == run' = [run EXCEPT ![w] = IdleRun]
Row(w)      == rows[run[w].d]

\* A worker takes a message whose countdown is over.
Take(w, d, r) ==
    /\ run[w].pc = "idle" /\ queue[d][r] > 0
    /\ queue' = [queue EXCEPT ![d][r] = @ - 1]
    /\ run' = [run EXCEPT ![w] = [IdleRun EXCEPT !.pc = "load", !.d = d, !.retries = r]]
    /\ UNCHANGED <<hooks, rows, accepted, lost, crashes>>

\* _load_delivery_and_webhook and the early returns.
Load(w) ==
    /\ run[w].pc = "load"
    /\ \/ /\ Row(w).status \in {"purged", "delivered"}
          /\ Goto(w, "ack")
       \/ /\ Row(w).status \notin {"purged", "delivered"}
          /\ ~hooks[Row(w).hook].active
          /\ run' = [run EXCEPT ![w] = [@ EXCEPT !.pc = "record", !.attempt = Row(w).attempt,
                                                 !.outcome = "failed"]]
       \/ /\ Row(w).status \notin {"purged", "delivered"}
          /\ hooks[Row(w).hook].active
          /\ run' = [run EXCEPT ![w] = [@ EXCEPT !.pc = "post", !.attempt = Row(w).attempt + 1]]
    /\ UNCHANGED <<hooks, rows, queue, accepted, lost, crashes>>

\* Mutant: the result of the task is stored as the status.
OutcomeAsResult(attempt) == IF attempt < MaxAttempts THEN "retry" ELSE "failed"

\* Mutant: one retry too many.
OutcomeLate(attempt) == IF attempt <= MaxAttempts THEN "retrying" ELSE "failed"

\* A failed POST: will_retry or not.
Outcome(attempt) == IF attempt < MaxAttempts THEN "retrying" ELSE "failed"

\* The POST: a 2xx, or an HTTPError or any other status.
Post(w) ==
    /\ run[w].pc = "post"
    /\ \/ /\ run' = [run EXCEPT ![w] = [@ EXCEPT !.pc = "record", !.outcome = "delivered"]]
          /\ accepted' = accepted \cup {run[w].d}
       \/ /\ run' = [run EXCEPT ![w] = [@ EXCEPT !.pc = "record",
                                                 !.outcome = Outcome(run[w].attempt)]]
          /\ UNCHANGED accepted
    /\ UNCHANGED <<hooks, rows, queue, lost, crashes>>

\* Mutant: the task retries whatever the outcome was.
RecordedAlways(w) == "retry"

Recorded(w) == IF run[w].outcome = "retrying" THEN "retry" ELSE "ack"

\* _record_delivery_outcome, the SELECT.
Record(w) ==
    /\ run[w].pc = "record"
    /\ IF Row(w).status = "purged"
       THEN Goto(w, Recorded(w))
       ELSE run' = [run EXCEPT ![w] = [@ EXCEPT !.pc = "flush", !.seenStatus = Row(w).status,
                                                !.seenAttempt = Row(w).attempt]]
    /\ UNCHANGED <<hooks, rows, queue, accepted, lost, crashes>>

\* _record_delivery_outcome, the COMMIT.  (A row purged meanwhile is
\* TaskFails: the UPDATE matches no row.)
Flush(w) ==
    /\ run[w].pc = "flush" /\ Row(w).status # "purged"
    /\ rows' = [rows EXCEPT ![run[w].d] =
          [hook |-> @.hook, entry |-> @.entry,
           status  |-> IF run[w].outcome # run[w].seenStatus THEN run[w].outcome ELSE @.status,
           attempt |-> IF run[w].attempt # run[w].seenAttempt THEN run[w].attempt ELSE @.attempt]]
    /\ Goto(w, Recorded(w))
    /\ UNCHANGED <<hooks, queue, accepted, lost, crashes>>

\* Mutant: the task gives up without queueing itself again.
RetryNot(w) ==
    /\ run[w].pc = "retry"
    /\ EndRun(w)
    /\ UNCHANGED <<hooks, rows, queue, accepted, lost, crashes>>

\* self.retry queues the next message, or raises when retries are used up.
Retry(w) ==
    /\ run[w].pc = "retry"
    /\ \/ /\ run[w].retries < MaxRetries
          /\ queue' = [queue EXCEPT ![run[w].d][run[w].retries + 1] = @ + 1]
          /\ Goto(w, "ack")
          /\ UNCHANGED lost
       \/ /\ run[w].retries = MaxRetries
          /\ EndRun(w)
          /\ lost' = lost \cup {run[w].d}
          /\ UNCHANGED queue
    /\ UNCHANGED <<hooks, rows, accepted, crashes>>

Ack(w) ==
    /\ run[w].pc = "ack"
    /\ EndRun(w)
    /\ UNCHANGED <<hooks, rows, queue, accepted, lost, crashes>>

\* The task ends in an exception (the database or the broker is away, its pool
\* process is killed): acknowledged all the same.
TaskFails(w) ==
    /\ run[w].pc \notin {"idle", "ack"}
    /\ EndRun(w)
    /\ lost' = lost \cup {run[w].d}
    /\ UNCHANGED <<hooks, rows, queue, accepted, crashes>>

\* The node dies; the broker hands the message out again.
NodeCrash(w) ==
    /\ run[w].pc # "idle" /\ crashes < MaxCrashes
    /\ queue' = [queue EXCEPT ![run[w].d][run[w].retries] = @ + 1]
    /\ EndRun(w)
    /\ crashes' = crashes + 1
    /\ UNCHANGED <<hooks, rows, accepted, lost>>

TaskStep(w) == Load(w) \/ Post(w) \/ Record(w) \/ Flush(w) \/ Retry(w) \/ Ack(w) \/ TaskFails(w)
TakeAny(w)  == \E d \in Ids, r \in Retries : Take(w, d, r)

\* Requests and workers.
DeliveryStep ==
    \/ \E h \in Hooks :
          \/ CreateWebhook(h) \/ DeleteWebhook(h) \/ RestoreWebhook(h) \/ Purge(h)
          \/ \E active \in BOOLEAN : UpdateWebhook(h, active)
          \/ PingWebhook(h)
    \/ \E w \in Workers : TakeAny(w) \/ TaskStep(w) \/ NodeCrash(w)

\* The dispatcher, of which only this much is known here: it may serve any
\* webhook that it has found at some time.
DeliveryNext ==
    \/ DeliveryStep
    \/ \E h \in Hooks, i \in Dispatched : CreateDelivery(h, i)

\* The workers take messages and work them off.
DeliveryFairness ==
    \A w \in Workers : WF_deliveryVars(TakeAny(w)) /\ WF_deliveryVars(TaskStep(w))

DeliverySafe == DeliveryInit /\ [][DeliveryNext]_deliveryVars
DeliverySpec == DeliverySafe /\ DeliveryFairness
-----------------------------------------------------------------------------
(***************************************************************************)
(* Properties.                                                             *)
(***************************************************************************)

\* A delivery that is neither delivered nor failed has a task, queued or
\* running, unless one of its messages was lost: late acknowledgement and
\* queueing the retry before the end of the task leave no gap.
OpenHasTask ==
    \A d \in Ids :
        (rows[d] # NoRow /\ rows[d].status \in {"pending", "retrying"}) =>
            \/ d \in lost
            \/ \E r \in Retries : queue[d][r] > 0
            \/ \E w \in Workers : run[w].d = d /\ run[w].pc \notin {"idle", "ack"}

\* The limit on attempts (in the row) and the one on retries (in the message)
\* agree: a delivery makes at most max_attempts attempts, and Celery does not
\* run out of retries before, unless a message was handed out again.
RetryBudget ==
    /\ \A d \in Ids : rows[d] # NoRow => rows[d].attempt <= MaxRetries + 1 + crashes
    /\ \A w \in Workers : run[w].pc = "retry" /\ crashes = 0 => run[w].retries < MaxRetries

\* As long as no message is handed out twice, delivered and failed are final,
\* and delivered means that the endpoint has accepted the event.
SettledStays ==
    [][\A d \in Ids :
          (crashes = 0 /\ rows[d] # NoRow) =>
              /\ rows[d].status \in {"delivered", "failed"} =>
                     rows'[d].status \in {rows[d].status, "purged"}
              /\ rows'[d].status = "delivered" => d \in accepted]_deliveryVars

\* Every delivery is eventually settled, gone with its webhook, or lost.
DeliverySettles ==
    \A d \in Ids :
        (rows[d] # NoRow) ~>
            (rows[d] # NoRow /\ (d \in lost \/ rows[d].status \in {"delivered", "failed", "purged"}))
=============================================================================
