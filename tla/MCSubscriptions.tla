-------------------------- MODULE MCSubscriptions --------------------------
(***************************************************************************)
(* Instances of Subscriptions for TLC.                                     *)
(***************************************************************************)
EXTENDS Proration, TLC

MCPrice    == [p \in Plans |-> IF p = "basic" THEN 5 ELSE 15]
MCCurrency == [p \in Plans |-> "usd"]
MCInterval == [p \in Plans |-> 2]

Event(type, stripe, plan, status) ==
    [type |-> type, stripe |-> stripe, tenant |-> "acme", plan |-> plan,
     status |-> status, trialOver |-> FALSE, start |-> NoTime, end |-> NoTime]

\* Two checkouts of the same tenant, one without a status and one unpaid, a failure,
\* a trial that Stripe reports, a deletion, and an event that is none of the
\* handlers' business.
IntakePayload ==
       "evt_checkout"  :> Event("checkout", "sub_1", "basic", None)
    @@ "evt_checkout2" :> Event("checkout", "sub_2", "basic", "unpaid")
    @@ "evt_failed"    :> Event("payment_failed", "sub_1", None, None)
    @@ "evt_trial"     :> Event("updated", "sub_1", None, "trialing")
    @@ "evt_deleted"   :> Event("deleted", "sub_1", None, None)
    @@ "evt_other"     :> Event("other", "sub_1", None, None)

\* The checkout, of a subscription that is canceled already, of a tenant that also
\* subscribes by itself; a trial that Stripe reports and the end of one, with a
\* period that ends before it starts; and a failed payment.
SerialPayload ==
       "evt_checkout"  :> Event("checkout", "sub_1", "pro", "canceled")
    @@ "evt_trial"     :> Event("updated", "sub_1", None, "trialing")
    @@ "evt_active"    :> [Event("updated", "sub_1", None, "trialing")
                              EXCEPT !.trialOver = TRUE, !.start = 2, !.end = 1]
    @@ "evt_failed"    :> Event("payment_failed", "sub_1", None, None)

Perms == Permutations(Workers)

\* applied is read by no action and by no property of SubSerial.
WithoutApplied == <<subs, ledger, now, sess>>
=============================================================================
