SPECIFICATION Spec
CONSTANTS
    Path = {f, g}
    Content = {a, b}
    Absent = Absent
    Task = {t1}
    NoTask = NoTask
    Turn = {u1}
    NoTurn = NoTurn
    Limit = 200
    MaxCommands = 3
    MaxDisturbances = 1
SYMMETRY Symmetry
INVARIANTS TypeOK SourceHoldsBefore RevertIsComplete
PROPERTIES ReplacedIsSaved RevertTaskRestores
