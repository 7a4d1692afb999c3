\* Requests beside the sweep, on one subscription.
SPECIFICATION Spec
CONSTANTS
    a1 = a1
    c1 = c1
    MaxAttempts = 1
    BaseDelay = 1
    MaxDelay = 1
    Subs = {"sub"}
    ApiWorkers = {a1}
    CeleryWorkers = {c1}
    Requested <- MCRequested
    Interval = 1
    MaxInvoices = 2
    MaxTime = 1
    MaxAborts = 1
\* A terminal subscription whose invoices are all terminal is left alone.
CHECK_DEADLOCK FALSE
INVARIANTS
    OneInvoicePerPeriod
    PaidWasIssued
PROPERTIES
    InvoiceLegalUnlessStale
    EndedPeriodInvoiced
