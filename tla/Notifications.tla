--------------------------- MODULE Notifications ---------------------------
(***************************************************************************)
(* The two dispatchers that main.py subscribes to every event of the bus:  *)
(* handle_event (services/webhook.py) turns an entry into deliveries, and  *)
(* handle_notification_event (services/notifications.py) into an in-app    *)
(* notification and an email.  The consumer loop of a process runs them    *)
(* one after the other for the entry it is at; both swallow their          *)
(* exceptions, so that the entry is acknowledged whatever happened.        *)
(***************************************************************************)
EXTENDS EventBus, WebhookDeliveries

CONSTANTS
    Users,          \* users that events name
    NoUser,         \* the None of an event without a user
    Subscribed,     \* for each webhook the event types it takes
    Preferred       \* channels users switch on and off

Channels == {"webhook", "in_app", "email"}

ASSUME DispatchAssumption ==
    /\ NoUser \notin Users
    /\ \A k \in EventKinds : k.user \in Users \cup {NoUser}
    /\ Preferred \subseteq Channels
    /\ Dispatched = Entries

VARIABLES
    prefs,      \* notification_preferences: the channels a user has enabled
    handler,    \* where each process is with its entry
    todo,       \* webhooks its handle_event has still to serve
    inbox,      \* notifications inserted for each entry
    emails      \* email tasks queued for each entry

dispatchVars == <<prefs, handler, todo, inbox, emails>>
vars == <<busVars, deliveryVars, dispatchVars>>

TypeOK ==
    /\ BusTypeOK
    /\ DeliveryTypeOK
    /\ prefs \in [Users -> SUBSET Channels]
    /\ handler \in [Procs -> {"webhook", "select", "create", "in_app", "insert",
                              "email", "send", "ack"}]
    /\ todo \in [Procs -> SUBSET Hooks]
    /\ inbox \in [Entries -> Nat]
    /\ emails \in [Entries -> Nat]

\* A user without a preference row has every channel enabled.
Init ==
    /\ BusInit
    /\ DeliveryInit
    /\ prefs = [u \in Users |-> Channels]
    /\ handler = [p \in Procs |-> "webhook"]
    /\ todo = [p \in Procs |-> {}]
    /\ inbox = [i \in Entries |-> 0]
    /\ emails = [i \in Entries |-> 0]

-----------------------------------------------------------------------------
(***************************************************************************)
(* The handlers.                                                           *)
(***************************************************************************)
At(p, pc)   == InBatch(p) /\ handler[p] = pc
Event(p)    == stream[batch[p].at]
Then(p, pc) == handler' = [handler EXCEPT ![p] = pc]

\* channel_enabled for the user of the event.
ChannelEnabled(p, channel) == Event(p).user # NoUser /\ channel \in prefs[Event(p).user]

\* handle_event: the user's webhook channel.
CheckWebhookChannel(p) ==
    /\ At(p, "webhook")
    /\ Then(p, IF Event(p).user = NoUser \/ ChannelEnabled(p, "webhook") THEN "select" ELSE "in_app")
    /\ UNCHANGED <<busVars, deliveryVars, prefs, todo, inbox, emails>>

\* get_active_for_event_type; a soft-deleted webhook is not left out.
Matching(kind) ==
    {h \in Hooks : /\ hooks[h].active /\ hooks[h].state \in {"present", "deleted"}
                   /\ kind.type \in Subscribed[h]}

SelectWebhooks(p) ==
    /\ At(p, "select")
    /\ todo' = [todo EXCEPT ![p] = Matching(Event(p))]
    /\ Then(p, "create")
    /\ UNCHANGED <<busVars, deliveryVars, prefs, inbox, emails>>

\* Mutant: the task is queued before the row is committed.
DispatchTaskFirst(p) ==
    /\ At(p, "create")
    /\ \E h \in todo[p], d \in Ids :
          /\ NextId(d)
          /\ queue' = [queue EXCEPT ![d][0] = 1]
          /\ todo' = [todo EXCEPT ![p] = @ \ {h}]
    /\ UNCHANGED <<busVars, prefs, handler, inbox, emails, hooks, rows, run, accepted, lost, crashes>>

\* The loop over the webhooks: one committed row and one task each.
Dispatch(p) ==
    /\ At(p, "create")
    /\ \E h \in todo[p] :
          /\ CreateDelivery(h, batch[p].at)
          /\ todo' = [todo EXCEPT ![p] = @ \ {h}]
    /\ UNCHANGED <<busVars, prefs, handler, inbox, emails>>

\* handle_event returns, at the end of its loop or with an exception that it
\* logs; a webhook purged meanwhile is one.
WebhooksDone(p) ==
    /\ At(p, "create") \/ At(p, "select") \/ At(p, "webhook")
    /\ todo' = [todo EXCEPT ![p] = {}]
    /\ Then(p, "in_app")
    /\ UNCHANGED <<busVars, deliveryVars, prefs, inbox, emails>>

\* handle_notification_event: the in-app channel, then the email channel.
CheckInAppChannel(p) ==
    /\ At(p, "in_app")
    /\ Then(p, IF Event(p).user = NoUser THEN "ack"
                ELSE IF ChannelEnabled(p, "in_app") THEN "insert" ELSE "email")
    /\ UNCHANGED <<busVars, deliveryVars, prefs, todo, inbox, emails>>

CreateInApp(p) ==
    /\ At(p, "insert")
    /\ inbox' = [inbox EXCEPT ![batch[p].at] = @ + 1]
    /\ Then(p, "email")
    /\ UNCHANGED <<busVars, deliveryVars, prefs, todo, emails>>

CheckEmailChannel(p) ==
    /\ At(p, "email")
    /\ Then(p, IF ChannelEnabled(p, "email") THEN "send" ELSE "ack")
    /\ UNCHANGED <<busVars, deliveryVars, prefs, todo, inbox, emails>>

\* _dispatch_email queues the task.
DispatchEmail(p) ==
    /\ At(p, "send")
    /\ emails' = [emails EXCEPT ![batch[p].at] = @ + 1]
    /\ Then(p, "ack")
    /\ UNCHANGED <<busVars, deliveryVars, prefs, todo, inbox>>

\* An exception of handle_notification_event, or of the broker: logged.
NotificationFails(p) ==
    /\ \E pc \in {"in_app", "insert", "email", "send"} : At(p, pc)
    /\ Then(p, "ack")
    /\ UNCHANGED <<busVars, deliveryVars, prefs, todo, inbox, emails>>

Acknowledge(p) ==
    /\ At(p, "ack")
    /\ XAck(p)
    /\ Then(p, "webhook")
    /\ UNCHANGED <<deliveryVars, prefs, todo, inbox, emails>>

\* The process dies, or the loop's XACK raises.
LoopBreaks(p) ==
    /\ InBatch(p)
    /\ DropBatch(p)
    /\ Then(p, "webhook")
    /\ todo' = [todo EXCEPT ![p] = {}]
    /\ UNCHANGED <<deliveryVars, prefs, inbox, emails>>

\* PUT /notifications/preferences
UpdatePreferences(u, channel) ==
    /\ prefs' = [prefs EXCEPT ![u] = IF channel \in @ THEN @ \ {channel} ELSE @ \cup {channel}]
    /\ UNCHANGED <<busVars, deliveryVars, handler, todo, inbox, emails>>

HandlerStep(p) ==
    \/ CheckWebhookChannel(p) \/ SelectWebhooks(p) \/ Dispatch(p) \/ WebhooksDone(p)
    \/ CheckInAppChannel(p) \/ CreateInApp(p) \/ CheckEmailChannel(p) \/ DispatchEmail(p)
    \/ NotificationFails(p) \/ Acknowledge(p)

ReadBatch(p) == XReadGroup(p) /\ UNCHANGED <<deliveryVars, dispatchVars>>

Next ==
    \/ \E k \in EventKinds : Publish(k) /\ UNCHANGED <<deliveryVars, dispatchVars>>
    \/ \E p \in Procs : ReadBatch(p) \/ HandlerStep(p) \/ LoopBreaks(p)
    \/ \E u \in Users, c \in Preferred : UpdatePreferences(u, c)
    \/ DeliveryStep /\ UNCHANGED <<busVars, dispatchVars>>

Spec == Init /\ [][Next]_vars
-----------------------------------------------------------------------------
(***************************************************************************)
(* Properties.                                                             *)
(***************************************************************************)

\* Although several processes read the stream, die with half a batch in hand
\* and leave entries pending, no event is dispatched twice: one delivery per
\* webhook, one notification, one email.
DispatchedOnce ==
    /\ \A c, d \in Ids :
          (/\ rows[c] # NoRow /\ rows[d] # NoRow /\ rows[c].entry > 0
           /\ rows[c].entry = rows[d].entry /\ rows[c].hook = rows[d].hook) => c = d
    /\ \A i \in Entries : inbox[i] <= 1 /\ emails[i] <= 1

\* The dispatcher uses the deliveries only as WebhookDeliveries allows, so what
\* is shown of them there holds here.
ImplementsDeliveries == DeliverySafe

\* SoftDeleteMixin docstring: soft-deleted rows are filtered out of every
\* query, so the dispatcher does not find a deleted webhook.  The
\* code does not keep this: the dispatcher's query does not look at deleted_at.
DeletedNotSelected ==
    [][\A p \in Procs : \A h \in todo'[p] \ todo[p] : hooks[h].state = "present"]_vars
=============================================================================
