# Verification of async-fastapi-template

TLA+ models of the parts of this FastAPI application in which several processes
write the same state, model-checked with TLC and, where it matters most, proved
with TLAPS. Every definition is taken from the code under `app/` and `operator/`;
the table of correspondences (definition, file, lines) is the `map` of
`PROJECT.json`.

## 1. The system

The application is a set of API processes (asyncio, one event loop each), Celery
workers and a Celery beat, over PostgreSQL, Redis, an object store and a broker;
a Kubernetes operator deploys it. There is no in-process lock on shared data: all
coordination happens through database constraints, through Redis commands and
through the broker's acknowledgements. The behaviours that make the code hard
follow from four habits of it:

* A handler SELECTs objects, computes on them across awaits and COMMITs at the
  end. No `SELECT ... FOR UPDATE`, no version column. SQLAlchemy writes only the
  columns whose value differs from the loaded one. So every decision is made on
  what was loaded, and every write lands on what the row has become.
* External parties call at least once and in any order (Stripe), or hand a task
  out again when its worker dies (`task_acks_late`).
* Several transactions, or commands to several stores, make one logical operation
  (ledger row, handler, stamp; draft, issue; delivery row, task; object,
  thumbnails, row; SADD, EXPIRE; four children of a resource).
* Values are kept beside their source: entitlements in a process, counts and
  counters in Redis, the default tenant in a class, HTML beside markdown.

### Components

| Component | State | Operations | Hard behaviour | What makes it correct | Model |
|---|---|---|---|---|---|
| Subscriptions, self-service | `subscriptions` | subscribe, change plan, cancel, resume | check-then-insert; stale commits | one live row per tenant; status follows the machine; bookkeeping columns agree with the status; an upgrade costs its share | `Subscriptions`, `Proration` |
| Stripe intake | `stripe_events`, `subscriptions` | checkout, subscription updated/deleted, payment failed | duplicates, reordering, a crash between ledger and handler | an event is applied at most once; no event relinks a row | `Subscriptions` |
| Dunning | failure count, retry time | record failure, sweep, suspend, recover | sweep beside recoveries; lost increments | recovered rows leave the schedule | `BillingDefs`, `Subscriptions` |
| Administrator's billing actions | `subscriptions` | override plan, set status, generic form, pay an invoice | stale check; unchecked columns | legal moves | `Subscriptions` |
| Invoicing | `invoices` | generate, issue, pay, void, daily sweep | check-then-insert; sweep in two commits; crash | one non-void invoice per period; paid means issued; every ended period is invoiced | `Invoicing` |
| Rate limiting | Redis sorted sets | check | stamps and transactions in different orders | the limit holds in a window | `Gateway` |
| Usage metering, quota, plans' metering | Redis counters, process cache | resolve, count, report, bill | expiry, stale cache in other processes | quota; charged to the right period; no more overage billed than was counted | `Gateway` |
| Users, login, second factor | `users`, challenges in memory | register, log in, verify, enrol, edit, delete, restore, purge | lost increments, stale lists of codes | lockout exact; 2FA usable; codes and challenges used once | `Accounts` |
| Tokens, session registry | Redis keys with TTL | issue, refresh, revoke, list | a shared key expires; commands interleave, are cut off | a revocation holds; a revoked session is not listed; keys expire | `TokenRegistry` |
| Event bus | Redis stream, group position, pending list | publish, read, acknowledge | several readers under one consumer name; trimming; crash with a batch in hand | no event dispatched twice | `EventBus` |
| Webhooks | `webhooks`, `webhook_deliveries`, broker queue | create, update, delete, restore, purge, ping, dispatch, deliver, retry | redelivery of messages; two counters for one limit; purge under a running task | no open delivery without a task; attempt budget; settled stays settled; every delivery settles | `WebhookDeliveries`, `Notifications` |
| Notifications | preferences, inbox, email queue | dispatch to channels, change preferences | preferences changed during a dispatch | one notification and one email per event | `Notifications` |
| Inbox, admin lists | `notifications`, `notification_preferences`, cached count | page, mark, delete, restore, purge, count | changes between two pages; a count stored after its invalidation, a lagging replica | no row skipped or shown twice; a count covers the announced rows | `Inbox`, `AdminRegistry` |
| CMS, tenants | pages, posts, categories, tags, links, `tenants` | create, update, delete, list | two columns for one text; links to deleted labels; a default tenant that is gone | HTML follows markdown; no dangling reference; deleted stays deleted | `Cms`, `AdminRegistry` |
| Files | `files`, objects | upload, list, download, delete | two stores without a transaction; names collide | a listed file can be downloaded | `Files` |
| Backups, task status | dumps, `task_status` | back up, clean up, restore | a task started again; a store or a status update that fails; restore of the very table that records it | newest dump restored; success means stored | `Backups` |
| Operator | children of a resource | reconcile, delete | calls fail half-way; restarts | children converge to the resource | `Operator` |
| Roles, API keys, OAuth, IP rules, search, WebSocket, Kafka, email, middleware, config | — | — | — | — | not modelled, see section 5 |

`PROJECT.json` lists every component with its sources, and the hazards of the
code line by line with the property that would catch each.

### How the parts interact

A request passes the rate limiter and the quota (`Gateway`), whose counters later
become lines of an invoice. Billing handlers publish events after their commit;
the bus hands them to the two dispatchers; the webhook dispatcher writes
deliveries and queues Celery tasks; the notification dispatcher fills the inbox.
A payment of an invoice may recover a past-due subscription; the dunning and
invoicing sweeps read subscriptions that requests and Stripe change under them.
The weekly purge removes soft-deleted rows while tasks and readers use them. A
login (`Accounts`) mints tokens (`TokenRegistry`); disabling a user makes his
tokens useless. The administrator's generic screens (`AdminRegistry`) write the
same tables as the endpoints. A restore replaces `files` and `task_status` under
the requests and tasks that write them.

## 2. Modules

```
BillingDefs            statuses, transitions, dunning on a row (no state)
 |- Subscriptions      the table and its writers           -- implements SubscriptionMachine
 |   |- Proration      the money of a plan change
 |       |- MCSubscriptions, SubscriptionsProofs
 |- Invoicing          invoices, requests and the sweep
     |- MCInvoicing, InvoicingProofs
EventBus               stream, consumer group, consumer loops
WebhookDeliveries      webhooks, deliveries, broker queue, Celery workers
EventBus + WebhookDeliveries
 |- Notifications      the two dispatchers                 -- implements WebhookDeliveries
     |- MCNotifications, WebhookProofs
Gateway                rate limiter, entitlements, usage counters, metered lines
 |- MCGateway, GatewayProofs
TokenRegistry          tokens, blacklist, session index
 |- MCTokenRegistry, IdentityProofs
AdminRegistry          the administrator's forms (no state)
 |- Accounts           users, login, second factor, passkeys
 |   |- MCAccounts, IdentityProofs
 |- Cms                pages, posts, labels, tenants
 |   |- MCCms, CmsProofs
 |- Inbox              notifications, preferences, pages, cached count
 |   |- MCInbox, InboxProofs
 |- Files              files and objects
     |- Backups        backup, cleanup and restore tasks beside Files
         |- MCBackups, BackupsProofs
Operator               reconcile against the Kubernetes API
```

Every run has an `MC` module with its constants, but `Deliveries`, whose constants are in
its configuration; `Files` is checked within `MCBackups`.

**BillingDefs** has the status sets, `ALLOWED_TRANSITIONS` and the row operations
of the dunning service as operators on a row.

**Subscriptions.** `subs` is the table, `ledger` is `stripe_events`, `now` the
clock, `sess` the session of each worker and `applied` a history counter. A
handler is a load-and-compute action (`Subscribe`, `ChangePlan`, `CancelNow`,
`CancelAtPeriodEnd`, `Resume`, `OverridePlan`, `SetStatus`, `AdminEdit`, `MarkPaid`,
`HandleCheckout`, `HandleSync`, `HandlePaymentFailed`, `Sweep`) that puts the loaded rows in
`snap` and what the handler made of them in `new`, followed by `Commit`, which
writes the columns that differ between the two onto the current row and inserts
`ins`. `CommitConflict` is the `IntegrityError` of a unique index, `Abort` an
exception, timeout or crash at any point. Stripe deliveries go through `Deliver`
(look up the id), `RecordEvent` (INSERT; a second one fails on the primary key),
the handler, `Commit` and `MarkProcessed`. `AdminEdit` is the generic form of the
dashboard: it writes the plan, the pending plan, the cancel flag and the Stripe id of any
row without a check. `FormFields` bounds which of them the forms of a run name.

**SubscriptionMachine** is the machine promised by the `SubscriptionStatus`
docstring: the statuses in which a row is born and the moves it may make. `overruled` is
the one thing added to the docstring: while a synchronisation to trialing is committed,
a row of any status may become trialing.

**Proration** is the arithmetic of `billing.py` on the rows of `Subscriptions`:
the fraction of the period left as a pair of integers (a float in the code),
Python's rounding to even, credit, charge and net.

**Invoicing** keeps, of a subscription, its status and period; its writers are
single steps here because their races are the subject of `Subscriptions`. A
generate is `Generate`, `Check`, `Insert`; a move is `Load`, `Commit`; the sweep
is `SweepStart`, `SweepNext`, then `Check`, `Insert`, `Refresh`, `Commit` for
each due period, with one commit per insert and one per issue, as in the code.

**EventBus.** `stream` holds every entry ever added, `first` is where trimming
has got to, `last` the group's last-delivered id, `pending` its pending entries
list and `batch` what each process is working off. All processes read as the
same consumer `"consumer"` with the id `>`.

**WebhookDeliveries.** `queue[d][r]` counts broker messages for delivery `d` with
`request.retries = r`. A task is `Take`, `Load`, `Post`, `Record` (SELECT), `Flush`
(COMMIT), then `Ack` or `Retry`. `NodeCrash` gives the message back to the queue
(late acknowledgement); `TaskFails` is an exception in the task, which
acknowledges the message and so loses it: `lost` records for which deliveries
this has happened, also when `.delay()` fails after the row was committed.

**Notifications** composes the two: a consumer loop runs `handle_event` and
`handle_notification_event` for the entry it is at, one database call or
enqueueing per action, and acknowledges whatever happened, since both handlers
swallow their exceptions. `LoopBreaks` is a process that dies or an `XACK` that
raises.

**Gateway.** A request is a slot: `Arrive` stamps its time, `Check` is the Redis
transaction of the limiter on its sorted set (a set of members with their scores),
`ResolveHit` or `ResolveMiss` and `StoreEntitlements`
find the tenant's period and allowance in the process's cache or the database,
`Count` increments the counter and decides. `Fault` is a Redis or database that
does not answer. `Subscribe`, `CancelSubscription`, `Renew`, `UpdatePlan` and
`DeactivatePlan` change what the entitlements are computed from; `BillPeriod` reads
the counter into an invoice, as 0 when Redis does not answer (`Readings`); `Tick` expires keys. `FindHandler` is the middleware's
loop over the routes as it behaves: the first route of the method.

**TokenRegistry.** A request is the sequence of Redis commands it has still to
send; `Execute` sends the first, `Cut` breaks the request off. `black`, `index` and
`meta` are the three kinds of keys with their expiry, `token` the tokens minted,
`revoked` and `last` history. Its `RegistryInit`, `RegistryNext` and `RegistrySpec` have
names of their own because `IdentityProofs` extends it together with `Accounts`.

**Accounts.** As in `Subscriptions` a handler stages and `Commit` writes the changed
columns; `hist` records wrong passwords, spent codes and whether two commits on the
user overlapped. Signed tokens sent by mail are records with a purpose and an
expiry. `pendingReg` and `pendingAuth`, the challenges of passkeys, live in a process and `Restart` forgets
them.

**AdminRegistry** has the table of forms and `SetFormFields`, the loop of
`admin_edit` and `admin_create`, with `_coerce_value`.

**Cms.** Pages and posts are one table with a kind, categories and tags another;
`links` are the association rows. `default` is the default tenant each process
remembers; a request's tenant is its header or that. `CommitInsert` and `CommitUpdate`
go through slug index and foreign keys.

**Inbox.** `walk` is one client following `next_cursor`; `cache` the administrator's
count; `reader` what the replica of `get_read_db` shows, which `Replicate` brings up to
date at any time or never; ids are drawn before their row is visible, so rows appear out
of order. A request runs for any time: the timeout middleware answers 408 and does not
end the handler. `announced` (history) are the rows for which an administrator's request
has deleted the key of the count.

**Files** and **Backups.** `objects` is the storage backend; an upload is `UploadFile`,
`PutContent`, `PutThumbnails`, `InsertRow`. `Backups` adds tasks with a late
acknowledgement, dumps as snapshots of both tables, and the status rows. `S3Fails` and
`PutObjectUnanswered` are errors of the object store, `UpdateStatusRaises` a status update
that raises in `on_success` or `on_failure`: Celery acknowledges the message all the same
and the row stays as it was. `stored` (what each task stored last), `restored`, `version` and `atTime` are
history. `SuccessMeansStored` compares a row with that history and not with the task's
last execution: a restore can bring back the SUCCESS of a task that was delivered again
afterwards and given up. This takes two crashes or three tasks, more than the run has;
the proof found it. So does an older SUCCESS that survives a later failure whose update
raised: a redelivery and a raise are two faults. `PgRestore` is what the restore is meant
to do; given the URL as its archive, `pg_restore` does what `PgRestoreNothing` says. Both
are actions, so that what is shown covers the day the argument is put right.

**Operator.** One API call per action; what kopf and Kubernetes do (when a handler is
called again, garbage collection, merging of lists) is marked external. The module has what
the code does: `Importable` is FALSE with the client library of `requirements.txt`, and
`Adopt` returns `None`, as `kopf.adopt` does, so that no call has a body.

### What is abstracted

Names, payloads, texts, audit entries, logging, event publication of billing (it
changes no billing state) and columns that are only displayed (`response_body`,
`next_retry_at`, `failure_count`, ...) are left out. Time is a clock of ticks;
intervals are numbers of ticks. Feature switches (`WEBHOOK_ENABLED`,
`NOTIFICATION_ENABLED`, ...) are on. The event types a webhook takes are fixed. A
user without a preference row is one with all channels enabled, which is what
`channel_enabled` makes of it. Passwords, signatures, TOTP codes and checksums are
right or wrong, never computed. In `Accounts` the lengths of columns are not
enforced and a TOTP secret can be decoded (see the disagreements below).

## 3. Runs

All runs but `Operator` pass; that one is expected to find its property violated. The type invariants of the modules (`TypeOK`, `FilesTypeOK`) hold in these
instances as well; the runs list one only where other properties lean on it and a
theorem states it. `PROJECT.json` has, for each property, a plausible bug of the code
(a mutant) under which TLC finds it violated; `Operator` needs none.

| Run | What it asks | Properties |
|---|---|---|
| `SubIntake` | two workers, duplicated, reordered, aborted Stripe deliveries, a trial among them, beside the sweep | types; `OneLivePerTenant`, `EventAppliedOnce`, `LedgerGuardsHandlers`, `LegalUnlessStale` |
| `SubSerial` | all writers, the generic form included, one session at a time | `BookkeepingMatchesStatus`, `UpgradePaysItsDifference`, `StripeLinkKept`, `ImplementsMachine` (refinement) |
| `Invoices` | a request beside the sweep, one crash, a subscription that changes | `OneInvoicePerPeriod`, `PaidWasIssued`, `InvoiceLegalUnlessStale`, `EndedPeriodInvoiced` (liveness) |
| `Gateway` | two requests in two processes, a tenant whose plan and period change, counters that expire, a Redis that does not answer | `WindowBound`, `QuotaHolds`, `ChargedToCurrentPeriod`, `OverageExactInGrace` |
| `Accounts` | two processes, two addresses: every writer of a user | `NoEarlyLockout`, `LockoutExactUnlessRaced`, `SecondFactorUnlessRaced`, `OneUsePerCeremony` |
| `Tokens` | two processes sending Redis commands, one cut-off request | `LastRevocationHolds`, `RevokedNotListed`, `NoImmortalKeys` |
| `Deliveries` | two Celery workers, one node crash, a webhook that is disabled, deleted, restored, purged | types; `OpenHasTask`, `RetryBudget`, `SettledStays`, `DeliverySettles` (liveness) |
| `Dispatch` | two processes on one stream, preferences changing, trimming, broken loops | `DispatchedOnce`, `ImplementsDeliveries` (refinement) |
| `Inbox` | a client walking the pages and an administrator counting rows while both users and the purge change them | `WalkComplete`, `CountCoversAdmin` |
| `Cms` | two editors, a tenant that is deleted, processes that remember it | `HtmlFollowsMarkdown`, `NoDanglingLinks`, `DeletedStaysDeleted` |
| `Storage` | uploads and deletions of one image beside two backup tasks and one fault | `RowHasContent`, `RestoreIsRecent`, `SuccessMeansStored` |
| `Operator` | the operator as written: three changes by users, two faults | `Converges` (liveness), violated |

### What the runs show

* The unique indexes are what keeps one live subscription per tenant and one
  non-void invoice per period: all the check-then-insert code can lose its race,
  and a stale or reordered write can bring a dead row back, but no commit gets
  past the index. (Without the index, TLC finds the second row.)
* The ledger lets exactly one session through for an event.
* Every status change outside the machine is a commit over a stale read, or a move to
  the trial that Stripe reports. So row locks, or a check in the UPDATE, and a check of
  that one target would be enough to enforce the machine. The administrator's form moves
  no status, and spoils none of the books but the two flags it writes itself.
* Clamping the fraction of a period makes an upgrade cost between nothing and the
  price gap whatever dates Stripe or earlier changes left on the row.
* The limiter bounds admissions in a window shortened by the longest time between
  a request's stamp and its transaction, not in the full window. The quota holds
  per period as long as the counter lives; stale entitlements misplace a request
  only for the TTL of the cache after a change. No invoice bills more
  than was counted; one written within the hour of grace bills exactly that if its read
  was answered, and no overage if not.
* The lockout is exact, and the second factor consistent, for every user on whom no
  two commits overlapped: all their failures are lost updates. It never strikes early,
  even then.
* Of a user's blacklist only the last revocation is guaranteed: an earlier one may be
  forgotten with the key when the last one has the shorter life. Session index and
  metadata agree with the revocations.
* Late acknowledgement and queueing the retry before the task ends leave no
  window in which a retrying delivery has no task. The two limits on
  retries agree; a message that was handed out twice costs at most one attempt
  more per crash.
* Reading with `>` means at most once: a broken loop loses its batch, and never
  dispatches an event twice.
* The keyset pages lose and repeat nothing, since the cursor is an id that no change
  moves. A cached count misses no row an administrator announced, unless it was taken on a
  lagging replica or was under way when the key was deleted; then it may be stored at any
  later time.
* Foreign keys keep links and tenants from dangling although labels and tenant are
  looked up long before the commit. HTML and markdown part only when two updates of
  an entry overlap. A soft deletion survives stale updates because they write only
  the columns they changed.
* Row and content agree for every path no two requests worked on at once, and no
  deletion of which was cut off; a second upload of a name keeps the row and
  replaces the content.
* A backup that is repeated after a crash, and whose row may have come back out of a
  dump, reports success only with a stored dump. The row may say less than happened, or
  something older, when its update raises.
* The operator as written reconciles nothing (disagreement 6). With a handler that can be
  imported and an `Adopt` that returns its argument, `Converges` passes on the same bounds
  (363 000 states): the order of the calls and the retries are sound.

### Known disagreements between code and documents

Six statements of the repository's own documents are not kept by the code. The sixth is
the run `Operator`. The others are written as properties beside the model and are not part
of the passing runs; adding one as a `PROPERTY` to the configuration named gives the
counterexample.

1. **A canceled subscription comes back** (`TerminalStaysTerminal`, `SubIntake`).
   `handle_subscription_sync` checks the transition for the targets canceled,
   past_due and active only (`stripe_events.py:187`), so a late event with status
   trialing (`evt_trial`) revives a canceled row, and a stale commit revives any row. The docstring
   `models/subscription.py:18-24` says `canceled -> (terminal)`.
2. **Two failures at once count once** (`EveryFailureAdvances`, `SubIntake` with a
   second payment_failed event). `dunning.py:122` increments the loaded object;
   `stripe_events.py:210` says "Every distinct verified failure advances the schedule".
3. **A paid invoice becomes void** (`PaidIsTerminal`, `Invoices`). `void` checks the
   status it loaded (`invoicing.py:225`); its period can then be invoiced, and paid,
   again. `models/invoice.py:40` says `paid -> (terminal)`.
4. **A draft of the sweep is never issued** (`SweptDraftIssued`, `Invoices`). The sweep
   dies between its two commits, and later sweeps skip the period as covered. The
   comment at `tasks/invoicing.py:64-65` says that drafts are issued immediately.
5. **A deleted webhook goes on receiving events** (`DeletedNotSelected`, `Dispatch`).
   The dispatcher's query does not look at `deleted_at` (`crud/webhook.py:41`), and the
   engine-level filter that the docstring at `models/base.py:52-56` names does not
   exist.
6. **The operator creates nothing** (`Converges`, `Operator`). `handlers.py:21` imports
   `V1HTTPGet`, which the pinned client (`>=31,<33`) does not have: the process ends and is
   started again, for ever. Were it loaded (`Importable = TRUE`), lines 252, 265, 279 and
   294 hand on what `kopf.adopt` returns, `None`, and every create and patch raises for
   want of a body, for ever as well. `docs/operator.md:10` says "the operator creates and
   keeps in sync", lines 19-20 and 86 that children carry owner references, are patched
   and created.

Met while reading, and visible in the models as they are:

* `_find_handler` tests `if match:` on an enum member that is always true, so the first
  route of the method decides: decorated limits do not apply to their own routes
  (`redis_rate_limit.py:121-127`, against the docstring of `decorators/rate_limit.py`).
* `request.state.user_id` is set by nobody: the authenticated tier is never used.
* The generic form of a subscription (`admin/__init__.py:163-169`, `411-445`) changes the
  Stripe id of a linked row, and sets a pending plan and the cancel flag on a canceled one.
* Entitlements are never invalidated (`invalidate_entitlements` has no caller); blocked
  requests are counted and billed; an invoice written later than the grace bills no
  overage, and neither does one whose read Redis did not answer (`usage.py:59-67`, as the
  docstring `invoicing.py:75-77` says).
* The marker of a general revocation is never read, and a refresh does not ask the
  blacklist. `decode_access_token` does not look at the purpose.
* Passkey logins look neither at `is_active` nor at a deletion; `sign_count` is never
  updated. A verification link names the user, not the address, and changing the
  address does not reset `is_verified`.
* The TOTP secret has 40 characters for a column of 32 and is hexadecimal where base32
  is expected (`auth/totp.py`); the prefix of an API key has 10 for a column of 8.
* `GET /users` never reports a next page; `GET /users/trashed` is shadowed by
  `/users/{user_id}`, and so are three of the administrator's routes.
* Assigning `category_ids` or `tag_ids` (`crud/cms.py:55,58,81,84`) touches a collection
  that is not loaded, which an async session cannot load there: the request fails and the
  API stores no links. `Create` and `Update` of `Cms` commit them, as meant: the model
  does more than the code, and what is shown of links covers both.
* A soft-deleted page blocks its slug; rows without tenant may share a slug.
* `delete_file` says soft delete and deletes for good; thumbnails of names with the same
  stem collide.
* `restore_backup` hands `pg_restore` the URL as the archive; it exits with 1, which
  counts as a warning, so the task reports success without restoring
  (`PgRestoreNothing`). The cleanup may delete the last backup.
* A status update that raises (`tasks/base.py:30-47`) leaves the row of a finished task as
  it was: missing, or with an older outcome.
* `create_for_user` and the purge never invalidate the administrator's count;
  `restore_notification` does not ask for the owner.
* `RequestTimeoutMiddleware` is the innermost middleware though the comment in `main.py`
  says outermost; it does not end the handler it stops waiting for. The tenant's IP rules run before the tenant is known.
* A patch of the operator's would leave environment variables that were removed from the
  resource in place.

### Bounds, and why they are enough

* Two workers, or requests: every race here is between the load and the commit of one
  session and a commit of another; a third session adds no new pair.
* Two subscription rows of a tenant: the least for which uniqueness can fail, and
  one row can die while another lives. Two Stripe ids, so that a second checkout
  differs from the first. `SubSerial` has one row, because with one session rows do
  not interact but through the index, and two plans, so that plans change.
* Four to six events, each with its own payload, chosen so that every handler is taken
  and a checkout of a canceled subscription and a trial that comes late are among them (a
  status that the code does not know ends like a rejected event); every event may be delivered any number of times,
  in any order. `SubIntake` has no form (`FormFields = {}`, and no administrator); `SubSerial`
  has forms that name a plan and a Stripe id. The other two columns touch no property of
  the run; the theorems have them all.
* `MaxAttempts` is 1 in `SubIntake`, where the sweep suspends after a failure, and 2 in
  `SubSerial`, where it schedules a retry and the administrator suspends; 2 in `Accounts`: a
  first wrong password, the lock and its end.
* Two invoices: one void or conflicting and one new, on the same period.
* `MaxRetries = 2` and one crash: a first, a middle and a last retry, and a
  duplicate message at each of them. The exhaustion of Celery's retries before
  the attempts are used up is reached. (With two crashes: 735 000 states, same
  result.)
* Two stream entries, batches of two, `MaxLen = 1`: a batch can be complete,
  partial, trimmed under the reader and broken off in the middle. In `Dispatch`
  there is no Celery worker: `ImplementsDeliveries` covers what workers do.
* `Gateway`: limits of two in a window of three ticks with delays of one, an allowance of
  one, three requests: over the limit, over the quota, and stamps out of order. One change
  of the subscription or plan; periods of two ticks, a grace of one, so that a counter
  expires within the run.
* `Accounts`: four requests on two rows (two requests race, one before, one after); two
  addresses and names for conflicts.
* `Tokens`: one user, since no key is shared; two requests, command by command, four
  tokens, life times in the order of the defaults, one cut.
* `Cms`: three requests, one of which may race, on a database with one linked page; two
  slugs, two texts, one tenant.
* `Inbox`: pages of one row, four rows of which one is deleted, so that a walk has up to
  four pages with changes between any two of them; three ticks with a TTL of one, so that
  a count expires, is taken again and is overtaken.
* `Storage`: one image uploaded at most twice, two tasks of any kind, one fault (a
  worker's death, an error of the store or of a status update), two times. `Operator`: two images, one variable, three changes and two faults.
* `CHECK_DEADLOCK FALSE` is in the runs whose systems may come to rest: all
  events handled, all rows terminal, all requests served.

Symmetry sets are used only in runs without liveness properties. `SubSerial` leaves the
history variable `applied` out of its view: no action and no property of the run reads it.

### Fairness

The safety runs assume none. `Invoicing`: weak fairness of the steps of a running
session (an asyncio task or a Celery process goes on) and of `SweepStart` (beat starts
the sweep every day); requests, crashes and the clock are not fair.
`WebhookDeliveries`: weak fairness of taking a message and of a task's steps, per
worker. Nothing is assumed of the endpoint, which may refuse for ever, nor of crashes,
which are finitely many. `Operator`: weak fairness of the operator's own steps, of its
restart (a Deployment restarts it) and of the garbage collector; changes and faults are
finitely many, and nothing is assumed of them.

## 4. Proofs

All theorems hold for every value of the constants that satisfies the named
assumptions of the modules, so for any number of workers, rows, events, retries and
crashes. The assumptions say that bounds and settings are naturals (some not 0) and that
`None` differs from the values it is used beside; beyond that:

* a single worker, a hypothesis of some theorems on subscriptions, see below;
* `GatewayAssumption`: the quantities plans include have a largest one, and a request
  takes less than a window; `RoutesAssumption`: the routes of a path have one decorated
  limit between them, since they share the Redis key;
* `AccountsAssumption`: there are finitely many addresses and processes (an address has a
  bounded length), and a backup code, a random string, is none of the words the model
  uses for other inputs;
* `FilesAssumption`: nobody uploads under the name of a thumbnail.

TLC evaluates the assumptions in the runs; `SubSerial` has one worker.

**SubscriptionsProofs**

* `TypeCorrect`: `Spec => []TypeOK`. Inductive with `SessionsConsistent`: a session
  holds only rows that are in the table and a new value for each of them, without
  which a flush could not be typed.
* `OneLive`: `Spec => []OneLivePerTenant`. The table changes only by a commit, and
  a commit keeps `UniqueIndexes`.
* `AppliedOnce`, `LedgerGuards`: from `LedgerInv`. A session that is past the gate
  holds an event that is "seen", no other session holds it, and until the commit
  nothing of it was applied. The count alone is not inductive: it needs to know
  that the committing session is the first.
* `IllegalOnlyIfStale`: `Spec => LegalUnlessStale`, for any payloads. Via `Staged`: what a handler stages is one of the changes
  (`Change`) that its checks admit of the row it loaded, or a row as handlers make
  them (`Birth`). The property excepts the move to trialing that a synchronisation stages,
  and no other: the first of the known disagreements shows why.
* `SerialImplementsMachine`: with one worker, `Spec` implements
  `SubscriptionMachine`. With one session the snapshot is the row (`FreshAlways`),
  so no commit is stale, and the machine is overruled just when the commit is that of a
  trial.
* `SerialBookkeeping`: with one worker, `Spec => []BookkeepingMatchesStatus`. One lemma
  per row operation says what it does to the columns of a row that are in order
  (`Books`); with a fresh snapshot the UPDATE writes just that, and a form
  writes none of these columns. The property speaks of the time before two events
  (`Orderly`): a synchronisation to trialing, since a revived row keeps its `canceled_at`,
  and the checkout of a subscription that is canceled already, which inserts a canceled row
  without one. Several workers break it too: two commits mix their columns.
* `SerialLinkKept`: with one worker, `Spec => StripeLinkKept`, whatever Stripe sends: who
  changes the id of a linked row is a request of the administrator's that names another
  one. Two checkouts at once can both find the row without an id, and the second overwrites.
* `UpgradeIsFair`: `Spec => []UpgradePaysItsDifference`, for any number of workers and any
  prices and periods. The credit and the charge are rounded separately, halves to even;
  each is within a half of its quotient (`RoundBounds`), and since the exact difference
  lies between 0 and the gap of the prices, so does the rounded one (`ProratedBounds`).

**InvoicingProofs**

* `InvoicingTypeCorrect`, `OnePerPeriod` as above.
* `PaidIssued`: `Spec => []PaidWasIssued`, with `PaymentInv`: whoever commits a
  payment loaded an open invoice, and `issued_at` is never cleared, so the invoice
  has been issued even if it was voided meanwhile.
* `InvoiceLegal`: `Spec => InvoiceLegalUnlessStale`.

**WebhookProofs**

The first four are about `DeliverySafe`, the safety part of `DeliverySpec`; by the fifth
they hold of the composition with the bus as well.

* `DeliveriesTyped`: `DeliverySafe => []DeliveryTypeOK`, with the facts that messages
  and tasks are about rows that exist.
* `NoDeliveryForgotten`: `DeliverySafe => []OpenHasTask`. `OpenHasTask` is not
  inductive: a task at its COMMIT counts as one, but if it loaded the very status
  it is going to write it writes nothing, and then another task has to be there.
  `OpenInv` counts only tasks that will still settle the delivery or queue its
  successor (`Responsible`).
* `Settled`: `DeliverySafe => SettledStays`, an action property. `OrderInv`: as long as no
  node died, a delivery has one message or one task at work, the task has loaded what the
  row holds, and the retries in the message are behind the attempts in the row.
  `AcceptedInv`: nobody holds the outcome "delivered" without a 2xx.
* `RetriesWithinBudget`: `DeliverySafe => []RetryBudget`. That the attempts are bounded is
  not inductive, since every message can make one more. `BudgetInv` counts tokens, that
  is messages and runs that will go on to queue one: only a crash makes a token, the last
  attempt spends one, and attempts plus tokens stay within `MaxAttempts` plus the crashes.
* `DispatcherImplementsDeliveries`: `Spec => ImplementsDeliveries`. The entry a loop is at
  has been published (`BusTypeOK` is inductive), so the dispatcher does to the deliveries
  only what `DeliveryNext` allows it.
* `EntriesDispatchedOnce`: `Spec => []DispatchedOnce`, with `OnceInv`: batches of two loops
  are disjoint, nothing has been done for entries not reached, and for the entry a loop
  is at nothing of what its handlers have still to do. `NotificationsTyped` gives the
  types.

**CmsProofs**

* `CmsInvariant`, `TypeCorrect`: with `SessionInv`, by which an update in flight loaded an
  undeleted row, keeps its kind and tenant, and writes text and HTML together or leaves
  both. The tables alone say nothing about what a late commit will write.
* `HtmlFollows`: a commit on a row nobody raced meets the row it loaded.
* `LinksNeverDangle`: the commits check the keys against the tables as they are, and
  deletions of labels and tenants take their links or are refused.
* `DeletionIsFinal`: `Spec => DeletedStaysDeleted`, an action property: an update flushes
  only the columns it changed, and `deleted_at` is not one.

**InboxProofs**

* `WalkIsComplete`: `WalkInv` says that what the walk has seen is exactly what must be
  seen of the ids from the cursor up. It rests on lemmas about `Newest`: the n largest
  of a finite set of ids exist and are above the rest.
* `CountIsCurrent`: `Spec => []CountCoversAdmin`, needs the same of the counts in the hands
  of requests (`CoverInv`): one that is not late covers what was announced, and a deletion
  of the key makes every other count under way late.

**GatewayProofs**

* `GatewayTypes`: types, and no request under way is older than `MaxDelay`.
* `QuotaIsKept`, `OverageIsExact`: `CounterInv`: every increment sets an expiry past the
  period and its grace, so until then the counter is the number of requests counted,
  also after expiries and restarts of the count; a read that is not answered is 0, which
  bills no overage.
* `ChargedRecently`: `ChargeInv` relates each cached entry, and each request holding
  one, to the time of the last change.
* `WindowIsBounded`: `MemberInv`: what was admitted less than a window minus `MaxDelay`
  ago is still a member of the sorted set, because no transaction is stamped earlier
  than that; so the admitted ones are among the members the last admission counted.
  `NameInv` makes the members distinct, which the count needs.

**IdentityProofs**, about `Accounts`

* `AccountsInvariant`: the rows, and every row a request has staged, have counters that
  were earned (`Earned`), and what is staged differs from what was loaded in the way the
  handler's kind allows (`LockoutKept`, `FactorKept`). The facts about rows are not
  inductive without the ones about requests in flight.
* `LockoutNeverEarly` follows from it; `LockoutIsExact` and `SecondFactorHolds` from
  `UnracedInv`: on a row no two commits of which overlapped, a commit meets the row it
  loaded.
* `CeremoniesUsedOnce`: `CeremonyInv`: credentials made and processes still holding the
  challenge together are at most the ceremonies begun. The count of credentials alone is
  not inductive: a process holding a challenge can always make one more.

**IdentityProofs**, about `TokenRegistry`

Every step is the beginning of a request, one command sent (`Sends`) or `Quiet`
(`RegistryKinds`), and of a program it mostly matters which commands are left in it.
`RegistryIInv` has a part for each property.

* `RevocationHolds`: `RegistrySpec => []LastRevocationHolds`. `LastCovered`: the key's
  expiry is not before the end of the last revocation. An EXPIRE that is still to be sent
  carries a TTL computed earlier; `TtlsCover` says it is long enough whenever it is sent.
* `RevokedStayOut`: `RegistrySpec => []RevokedNotListed`. `RevokedLeave`: a token under
  revocation is out of the index or the same request has still to remove it. That a ZADD
  does not put it back needs `StoredOnce`: a token still to be stored is known to
  nobody but the request that minted it, so nobody can have revoked it.
* `KeysExpire`: `RegistrySpec => []NoImmortalKeys`. `TtlsFollow`: a key without a TTL has
  an EXPIRE under way. For the hashes this needs the order of a program (`Follow`): the
  set of its commands does not tell that the EXPIRE comes after the HSET.
* `RegistryTypes` gives the types. The theorems hold for any lifetimes, also where the
  blacklist's TTL is longer than every token's.

**BackupsProofs**

* `BackupsInvariant`: three parts. `PathInv`: for a path that is not overlapped, one
  request and one row at most, an upload past its first step has stored its content, and
  until a deletion has removed it the row's object is there (`Orderly`). `RecentInv`: the
  dump under a key, or in a task's hands, holds what was committed before the time in the
  key. `EarnedInv`: every status column, the live one and those in dumps, calls only those
  backups a success that have stored one; dumps must be included since a restore makes
  theirs the live one. A task whose update raised has ended and is in no column.
* `RowsHaveContent`, `RestoresRecent` and `SuccessIsEarned` follow. The newest key exists
  because times are naturals (`LatestKey`, from the library's well-founded induction).

### What the proofs changed

`SuccessMeansStored` held in the run only because of its bounds: it had been stated for
the last execution of a task, and a restore can undo what that one recorded. It now says
what holds for every instance. The sorted set of the limiter had been a sequence of
scores; it is a set of distinct members, as in Redis, and `WindowBound` counts them.

### Only model-checked

Liveness (`EndedPeriodInvoiced`, `DeliverySettles`, `Converges`) is out of the prover's
reach. Every other property of a run is stated by a theorem.

## 5. Not modelled, and the plan

Not modelled, and why:

* Roles, permissions, API keys: CRUD without a property beyond a foreign key; creating
  an API key fails on PostgreSQL as the columns are declared. OAuth: nothing stores the
  state its callback asks for, so a login cannot complete.
* IP rules of tenants: they run before the tenant is resolved and decide nothing.
* Checkout session, refund, e-mail, Stripe client: calls of external services that
  write nothing here.
* WebSocket manager and bridge, Kafka bus: the bus's `connect` passes consumer options to
  the producer; no event reaches them.
* Full-text search, GraphQL queries, HTML screens, health, metrics, logging, CSRF,
  compression, configuration, CLI: no state that several actors change.
* The audit log: its listener records the id of a row that has none yet.
* Response cache, `cached` decorator, invalidation by prefix: used by nobody.

## 6. Running

    tlc -workers 2 -config SubIntake.cfg MCSubscriptions
    tlc -workers 2 -config Deliveries.cfg WebhookDeliveries
    tlc -workers 2 -config Storage.cfg MCBackups
    tlapm WebhookProofs.tla

The configuration of each run and the module it belongs to are in `PROJECT.json`.
`Storage` (3.5 million states) and `Gateway` (3.1 million) are the longest runs, between two
and three minutes each.
