SPECIFICATION FairSpec
CONSTANTS
    LastMinute = 4
    Timeframes <- TwoAndFour
    Listed <- AllListed
    Backlog = 0
    ReconcileLimit = 3
    Spans <- SecondHalf
    MaxTrouble = 1
INVARIANTS
    TypeOK
    LackIsRecorded
    OpenOnlyIfAsked
PROPERTY IncompleteIsCompleted
CHECK_DEADLOCK FALSE
