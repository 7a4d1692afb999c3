----------------------------- MODULE Proration -----------------------------
(***************************************************************************)
(* The money of a plan change: what change_plan previews when a tenant     *)
(* upgrades in the middle of a period.  Amounts are cents; the fraction of *)
(* the period that is left is a pair of numerator and denominator, where   *)
(* the code has a float.                                                   *)
(***************************************************************************)
EXTENDS Subscriptions

Clamp(x, low, high) == IF x < low THEN low ELSE IF x > high THEN high ELSE x

\* Mutant: an elapsed or not yet begun period is not clamped.
FractionUnclamped(start, end) ==
    IF end <= start THEN [num |-> 0, den |-> 1]
    ELSE [num |-> end - now, den |-> end - start]

\* fraction_remaining: 0 for an empty period, otherwise between 0 and 1.
FractionRemaining(start, end) ==
    IF end <= start THEN [num |-> 0, den |-> 1]
    ELSE [num |-> Clamp(end - now, 0, end - start), den |-> end - start]

\* Python's round: a half goes to the even neighbour.
Round(num, den) ==
    LET q == num \div den
        twice == 2 * (num % den)
    IN
    IF twice > den \/ (twice = den /\ q % 2 = 1) THEN q + 1 ELSE q

Prorated(price, f) == Round(price * f.num, f.den)

\* compute_unused_credit and compute_prorated_charge
UnusedCredit(row) == Prorated(Price[row.plan], FractionRemaining(row.start, row.end))
ProratedCharge(p, row) == Prorated(Price[p], FractionRemaining(row.start, row.end))

Preview(credit, charge) == [credit |-> credit, charge |-> charge, net |-> charge - credit]

\* decide_plan_change
PlanChange(row, p) ==
    IF Price[p] > Price[row.plan]
    THEN [effective |-> "immediate", preview |-> Preview(UnusedCredit(row), ProratedCharge(p, row))]
    ELSE [effective |-> "scheduled"]

\* Whatever period Stripe or an earlier change has left on a live row (ended,
\* not begun, or ending before it starts), an upgrade previews a credit within
\* the old price, never pays out, and never costs more than the price gap.
UpgradePaysItsDifference ==
    \A t \in Tenants, p \in ActivePlans : \A i \in LiveSub(t) :
        LET d == PlanChange(subs[i], p) IN
        (Currency[p] = Currency[subs[i].plan] /\ d.effective = "immediate") =>
            /\ d.preview.credit \in 0..Price[subs[i].plan]
            /\ d.preview.net \in 0..(Price[p] - Price[subs[i].plan])
=============================================================================
