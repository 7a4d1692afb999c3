---------------------------- MODULE BillingDefs ----------------------------
(***************************************************************************)
(* The pure part of the billing context: the subscription state machine    *)
(* (app/billing/services/billing.py) and the row-level operations of the   *)
(* dunning service (app/billing/services/dunning.py), written as functions *)
(* on a subscription row.  A row is a record; only the columns that some   *)
(* handler reads to decide what to do, or that a property speaks of, are   *)
(* kept.  The *_at columns that are only ever stamped are booleans.        *)
(***************************************************************************)
EXTENDS Integers

CONSTANTS
    MaxAttempts,    \* settings.DUNNING_MAX_ATTEMPTS
    BaseDelay,      \* settings.DUNNING_BASE_DELAY_MINUTES, in clock ticks
    MaxDelay        \* MAX_DELAY, in clock ticks

\* The ranges come from the Field(...) bounds of app/core/config.py.
ASSUME DunningSettings ==
    /\ MaxAttempts \in Nat \ {0}
    /\ BaseDelay \in Nat \ {0}
    /\ MaxDelay \in Nat \ {0}

SubscriptionStatus == {"trialing", "active", "past_due", "canceled", "suspended"}

LIVE_STATUSES == {"trialing", "active", "past_due"}

ALLOWED_TRANSITIONS ==
    [s \in SubscriptionStatus |->
        CASE s = "trialing" -> {"active", "past_due", "canceled"}
          [] s = "active"   -> {"past_due", "canceled"}
          [] s = "past_due" -> {"active", "canceled", "suspended"}
          [] OTHER          -> {}]

\* assert_transition(current, target) does not raise.
CanMove(current, target) == target \in ALLOWED_TRANSITIONS[current]

-----------------------------------------------------------------------------
(***************************************************************************)
(* Dunning.  NoTime stands for NULL in a timestamp column.                 *)
(***************************************************************************)
NoTime == -1

\* NULL in any other column.
None == "none"

\* backoff_delay: base * 2**(attempt - 1), capped; attempt is at least 1 here.
BackoffDelay(attempt) ==
    LET d == BaseDelay * 2^(attempt - 1)
    IN  IF d <= MaxDelay THEN d ELSE MaxDelay

\* Mutant: the schedule survives the recovery.
ResetDunningKeepsRetry(row) == [row EXCEPT !.failed = 0]

\* reset_dunning: both of its branches leave the kept columns like this.
ResetDunning(row) == [row EXCEPT !.failed = 0, !.retry = NoTime]

\* record_payment_failure, after its assert_transition has passed.
RecordFailure(row, now) ==
    [row EXCEPT !.status = "past_due",
                !.failed = @ + 1,
                !.retry  = now + BackoffDelay(row.failed + 1)]

\* suspend_subscription
Suspend(row) ==
    [row EXCEPT !.status = "suspended", !.suspendedAt = TRUE, !.retry = NoTime]

\* The body of the loop of process_due_retries for one due row.
DunningTick(row, now) ==
    IF row.failed >= MaxAttempts
    THEN Suspend(row)
    ELSE [row EXCEPT !.failed = @ + 1,
                     !.retry  = now + BackoffDelay(row.failed + 1)]

\* The WHERE clause of process_due_retries.
IsDue(row, now) ==
    /\ row.status = "past_due"
    /\ row.retry # NoTime
    /\ row.retry <= now

\* recover_subscription on a past_due row, its only caller's case.
Recover(row) == ResetDunning([row EXCEPT !.status = "active"])

\* The assignments of an immediate cancellation: the tenant's, the
\* administrator's and the one synchronised from Stripe make the same ones.
Cancel(row) ==
    [row EXCEPT !.status = "canceled", !.canceledAt = TRUE,
                !.cancelAtEnd = FALSE, !.pending = None]
=============================================================================
