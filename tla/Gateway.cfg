SPECIFICATION Spec
CONSTANTS
    s1 = s1
    s2 = s2
    p1 = p1
    p2 = p2
    c1 = c1
    None = None
    Slots <- MCSlots
    Processes <- MCProcesses
    Clients <- MCClients
    RouteTable <- MCRouteTable
    TierLimit <- MCTierLimit
    TierWindow = 3
    Quantities <- MCQuantities
    EntitlementsTtl = 1
    PeriodLength = 2
    Grace = 1
    MinTtl = 1
    MaxDelay = 1
    MaxTime = 3
    MaxRequests = 3
    MaxChanges = 1
SYMMETRY Symmetry
INVARIANTS
    WindowBound
    QuotaHolds
    ChargedToCurrentPeriod
    OverageExactInGrace
CHECK_DEADLOCK FALSE
