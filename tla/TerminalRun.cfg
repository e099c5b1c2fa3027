\* Two runs, one chunk of output, one trouble.
SPECIFICATION FairSpec
CONSTANTS
    MaxRuns = 2
    MaxChunks = 1
    MaxTroubles = 1
CHECK_DEADLOCK FALSE
INVARIANTS TypeOK HistoryOnce NoGhostRun ResultIsOwn
PROPERTIES  RunEnds
