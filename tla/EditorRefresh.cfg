SPECIFICATION Spec
CONSTANTS
    Path = {p, q}
    NoPath = NoPath
    MaxOpenTabs = 2
    MaxDocs = 2
    MaxEdits = 1
    MaxWrites = 1
    MaxJobs = 2
CHECK_DEADLOCK FALSE
PROPERTIES DirtyKeptByRefresh
