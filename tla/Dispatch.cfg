\* Two processes reading the stream; no Celery worker.
SPECIFICATION Spec
CONSTANTS
    p1 = p1
    p2 = p2
    Procs = {p1, p2}
    Workers = {}
    Hooks = {"hook"}
    Users = {"ann"}
    NoUser = "nobody"
    EventKinds <- MCKinds
    Subscribed <- MCSubscribed
    Preferred = {"webhook"}
    Dispatched = {1, 2}
    BatchSize = 2
    MaxLen = 1
    MaxPublished = 2
    MaxRetries = 0
    MaxDeliveries = 2
    MaxCrashes = 0
SYMMETRY Perms
\* When everything published is handled nothing is left to do.
CHECK_DEADLOCK FALSE
INVARIANTS
    DispatchedOnce
PROPERTIES
    ImplementsDeliveries
