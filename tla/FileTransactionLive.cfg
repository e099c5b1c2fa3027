\* One application process: pending manifests are resolved.
SPECIFICATION LiveSpec
CONSTANTS
    Proc = {p1}
    Path = {f1}
    Content = {c1, c2}
    MaxTx = 2
    MaxEntries = 1
    MaxUserEdits = 0
    MaxFaults = 2
PROPERTY PendingIsResolved
CHECK_DEADLOCK TRUE
