SPECIFICATION Spec
CONSTANTS
    Candidates <- Kinds
    Generators <- AnyFour
    Error = Error
    Gate <- TwoTrades
    Budget = 2
    MaxAttempts = 4
    MaxHoldout = 1
    MaxTrouble = 2
INVARIANTS
    TypeOK
    SignalsUnique
    CompletedIsSettled
    BudgetKept
CHECK_DEADLOCK FALSE
