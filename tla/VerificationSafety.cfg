SPECIFICATION Spec
CONSTANTS
    Hashes <- OneHash
    MaxStrategies = 3
    MaxVersions = 3
    Clients = {c1, c2}
    Slots = {e1, e2}
    Profiles = {"QUICK"}
    Verdicts <- TwoVerdicts
    Asked <- TwoLifecycles
    MaxRuns = 2
    MaxRequests = 2
    MaxTrouble = 1
INVARIANTS
    TypeOK
    CompletedHasReport
    RunsAreExecuted
    PromotionTraceable
PROPERTIES
    RetiredStaysRetired
CHECK_DEADLOCK FALSE
SYMMETRY Interchangeable
