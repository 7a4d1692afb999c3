\* Two workers, one of them on a node that dies with a task in hand.
SPECIFICATION DeliverySpec
CONSTANTS
    w1 = w1
    w2 = w2
    Workers = {w1, w2}
    Hooks = {"hook"}
    Dispatched = {1}
    MaxRetries = 2
    MaxDeliveries = 1
    MaxCrashes = 1
\* A purged webhook whose deliveries are settled is left alone.
CHECK_DEADLOCK FALSE
INVARIANTS
    DeliveryTypeOK
    OpenHasTask
    RetryBudget
PROPERTIES
    SettledStays
    DeliverySettles
