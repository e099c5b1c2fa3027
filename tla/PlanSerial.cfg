SPECIFICATION Spec
CONSTANTS
    Request = {r1}
    Steps = 2
    MaxVersion = 2
    MaxRequests = 5
    MaxBeats = 1
    MaxFaults = 1
CHECK_DEADLOCK FALSE
INVARIANTS TypeOK DecisionReachesBoth
