\* One application process, two transactions.
SPECIFICATION Spec
CONSTANTS
    Proc = {p1}
    Path = {f1, f2}
    Content = {c1, c2}
    MaxTx = 2
    MaxEntries = 2
    MaxUserEdits = 1
    MaxFaults = 2
SYMMETRY Symmetry
INVARIANTS TypeOK CommittedIsRecoverable AllOrNothing AtMostOnePending NewestDecisionWins
PROPERTY ImplementsIntent
CHECK_DEADLOCK TRUE
