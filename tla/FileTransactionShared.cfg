\* Several application processes share the storage.
SPECIFICATION Spec
CONSTANTS
    Proc = {p1, p2}
    Path = {f1}
    Content = {c1, c2}
    MaxTx = 2
    MaxEntries = 2
    MaxUserEdits = 0
    MaxFaults = 1
SYMMETRY Symmetry
INVARIANTS JournalOnlyPublished NoWriteBeforeDecision
CHECK_DEADLOCK TRUE
