------------------------ MODULE SubscriptionMachine ------------------------
(***************************************************************************)
(* What the SubscriptionStatus docstring (models/subscription.py) promises *)
(* of a subscription's status: it is born trialing, active or past_due, or *)
(* already canceled when Stripe says so, and from then on moves only along *)
(* the documented transitions.  One transaction may move several rows.     *)
(*                                                                         *)
(* Stripe has the last word on trials: while a synchronisation overrules   *)
(* the machine, a row of any status may become trialing, which the         *)
(* docstring does not say (stripe_events.py, handle_subscription_sync).    *)
(***************************************************************************)
CONSTANT Ids
VARIABLES
    status,     \* the status of each subscription, "none" before it is born
    overruled   \* a synchronisation that asks for a trial is being committed

Documented ==
    {<<"trialing", "active">>, <<"trialing", "past_due">>, <<"trialing", "canceled">>,
     <<"active", "past_due">>, <<"active", "canceled">>,
     <<"past_due", "active">>, <<"past_due", "canceled">>, <<"past_due", "suspended">>}

Init ==
    /\ status = [i \in Ids |-> "none"]
    /\ overruled = FALSE

Born(i) == status[i] = "none" /\ status'[i] \in {"trialing", "active", "past_due", "canceled"}
Moves(i) == <<status[i], status'[i]>> \in Documented
Overrules(i) == overruled /\ status[i] # "none" /\ status'[i] = "trialing"

Next ==
    /\ DOMAIN status' = Ids
    /\ \A i \in Ids : status'[i] = status[i] \/ Born(i) \/ Moves(i) \/ Overrules(i)
    /\ overruled' \in BOOLEAN

Spec == Init /\ [][Next]_<<status, overruled>>
=============================================================================
