SPECIFICATION Spec
CONSTANTS
    Configs <- FiveConfigs
    Conditions <- AllConditions
    Bars <- FourBars
    Window = 4
    DataBeyond = FALSE
    CancelEvery = 2
    Tick = 100
    NaN = NaN
INVARIANTS
    TypeOK
    Accounted
    LossBounded
    TradesInOrder
CHECK_DEADLOCK FALSE
