SPECIFICATION Spec
CONSTANTS
    Configs <- NextOpenOnly
    Conditions <- AllConditions
    Bars <- FourBars
    Window = 2
    DataBeyond = TRUE
    CancelEvery = 2
    Tick = 100
    NaN = NaN
INVARIANT NoFuturePrice
CHECK_DEADLOCK FALSE
