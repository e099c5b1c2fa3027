SPECIFICATION Spec
CONSTANTS
    Proc = {p1}
    Task = {t1}
    Content = {a, b}
    Large = {b}
    FullTtl = 1
    PinnedTtl = 2
    OpTtl = 2
    Quota = 1
    MaxSnap = 2
    MaxOp = 1
    MaxDay = 3
    MaxFaults = 1

INVARIANTS TypeOK ChosenOnlyAreLost SmallBlobsExact
PROPERTIES PinsHonoured FreshOperationsKept
