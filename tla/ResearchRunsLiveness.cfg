SPECIFICATION FairSpec
CONSTANTS
    Runs = {1}
    Procs = {1, 2, 3, 4, 5}
    Slots = {s1}
    Requests = {q1, q2}
    NULL = NULL
    MaxRequests = 4
    MaxKills = 1
    MaxStops = 0
    MaxAttempts = 1
    LeaseLapses = FALSE
PROPERTIES RunningEnds HeldRequestEnds
CHECK_DEADLOCK FALSE
