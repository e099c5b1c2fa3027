SPECIFICATION Spec
CONSTANTS
    Path = {p, q}
    NoPath = NoPath
    MaxOpenTabs = 2
    MaxDocs = 4
    MaxEdits = 2
    MaxWrites = 1
    MaxJobs = 2
SYMMETRY Symmetry
CHECK_DEADLOCK FALSE
INVARIANTS TypeOK EditsKept CleanWasOnDisk TabsBounded OnePathOneTab
