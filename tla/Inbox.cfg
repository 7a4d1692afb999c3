SPECIFICATION MCSpec
CHECK_DEADLOCK FALSE
SYMMETRY Symmetry
CONSTANTS
    u1 = u1
    u2 = u2
    Users <- MCUsers
    None = None
    Workers = {w1, w2}
    PageSize = 1
    CountTtl = 1
    PurgeAge = 0
    MaxRows = 4
    MaxTime = 3
    MaxRequests = 2
INVARIANT WalkComplete
INVARIANT CountCoversAdmin
