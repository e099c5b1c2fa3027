SPECIFICATION SpecPlanned
CONSTANTS
    Request = {r1, r2}
    Steps = 1
    MaxVersion = 1
    MaxRequests = 3
    MaxBeats = 0
    MaxFaults = 0
SYMMETRY Symmetry
CHECK_DEADLOCK FALSE
INVARIANTS LogIsLegal GateHolds RowIsAPrefix
PROPERTIES DecisionsStand
