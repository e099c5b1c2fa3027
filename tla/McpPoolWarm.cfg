SPECIFICATION Spec
CONSTANTS
    Key = {k1, k2, p}
    Pinned = {p}
    Caller = {c1, c2, c3}
    maxWarm = 1
    MaxCalls = 4
SYMMETRY Symmetry
CHECK_DEADLOCK FALSE
INVARIANTS TypeOK IdleHasTimer OverflowInUse
PROPERTIES ClosesOnlyIdle
