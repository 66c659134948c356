SPECIFICATION FairSpec
CONSTANTS
    LastMinute = 3
    PageSize = 2
    ChunkSize = 1
    ListedSets <- AllListed
    ScanSpans <- TwoSpans
    FutureScans = FALSE
    MaxTrouble = 2
INVARIANTS
    TypeOK
    RepairedIsStored
    NoAbandonedRepair
PROPERTIES
    MissingTriggersRepair
    DownloadSpec
    RecordedIsRepaired
CHECK_DEADLOCK FALSE
