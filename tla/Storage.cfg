SPECIFICATION Spec
CHECK_DEADLOCK FALSE
SYMMETRY Symmetry
CONSTANTS
    Names = {"img"}
    Thumb <- MCThumb
    Contents = {c1, c2}
    None = None
    Workers = {w1, w2}
    MaxFiles = 2
    MaxRequests = 2
    Tasks = {k1, k2}
    Retention = 0
    MaxTime = 1
    MaxFaults = 1
INVARIANT RowHasContent
INVARIANT RestoreIsRecent
INVARIANT SuccessMeansStored
