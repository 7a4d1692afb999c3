\* Concurrent, duplicated, reordered and aborted Stripe deliveries, with the
\* dunning sweep running beside them.
SPECIFICATION Spec
CONSTANTS
    w1 = w1
    w2 = w2
    Workers = {w1, w2}
    NullTenant = "null"
    Tenants = {"acme"}
    Plans = {"basic"}
    ActivePlans = {"basic"}
    TrialPlans = {}
    Price <- MCPrice
    Currency <- MCCurrency
    Interval <- MCInterval
    DefaultPeriod = 2
    StripeIds = {"sub_1", "sub_2"}
    Events = {"evt_checkout", "evt_checkout2", "evt_trial", "evt_failed", "evt_deleted", "evt_other"}
    Payload <- IntakePayload
    Actors = {"stripe", "sweep"}
    FormFields = {}
    MaxSubs = 2
    MaxTime = 1
    MaxAttempts = 1
    BaseDelay = 1
    MaxDelay = 2
SYMMETRY Perms
\* Once every event is in the ledger and the clock has ended, nothing is left to do.
CHECK_DEADLOCK FALSE
INVARIANTS
    TypeOK
    OneLivePerTenant
    EventAppliedOnce
    LedgerGuardsHandlers
PROPERTY
    LegalUnlessStale
