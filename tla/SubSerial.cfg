\* One session at a time: the tenant, the administrator, Stripe and the sweep.
SPECIFICATION Spec
CONSTANTS
    w1 = w1
    Workers = {w1}
    NullTenant = "null"
    Tenants = {"acme"}
    Plans = {"basic", "pro"}
    ActivePlans = {"basic", "pro"}
    TrialPlans = {"basic"}
    Price <- MCPrice
    Currency <- MCCurrency
    Interval <- MCInterval
    DefaultPeriod = 2
    StripeIds = {"sub_1", "sub_2"}
    Events = {"evt_checkout", "evt_trial", "evt_active", "evt_failed"}
    Payload <- SerialPayload
    Actors = {"tenant", "admin", "stripe", "sweep"}
    FormFields = {"plan", "stripe"}
    MaxSubs = 1
    MaxTime = 1
    MaxAttempts = 2
    BaseDelay = 1
    MaxDelay = 1
\* Once every event is in the ledger and the clock has ended, a terminal row is left alone.
CHECK_DEADLOCK FALSE
VIEW WithoutApplied
INVARIANTS
    BookkeepingMatchesStatus
    UpgradePaysItsDifference
PROPERTIES
    StripeLinkKept
    ImplementsMachine
