SPECIFICATION Spec
CONSTANTS
    Runs = {1, 2}
    Procs = {1, 2}
    Slots = {s1, s2}
    Requests = {q1, q2}
    NULL = NULL
    MaxRequests = 2
    MaxKills = 1
    MaxStops = 1
    MaxAttempts = 1
    LeaseLapses = TRUE
INVARIANTS TypeOK 
PROPERTIES FenceLostToOverlap OperatorReopens NoLateWrites OwnershipSpec
SYMMETRY Symmetry
CHECK_DEADLOCK FALSE
