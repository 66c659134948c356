SPECIFICATION Spec
CONSTANTS
    Candidates <- Kinds
    Generators <- AnyFour
    Error = Error
    Gate <- TwoTrades
    Budget = 1
    MaxAttempts = 2
    MaxHoldout = 1
    MaxTrouble = 1
INVARIANT FinalizationConverts
CHECK_DEADLOCK FALSE
