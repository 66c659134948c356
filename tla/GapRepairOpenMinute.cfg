SPECIFICATION Spec
CONSTANTS
    LastMinute = 3
    PageSize = 2
    ChunkSize = 1
    ListedSets <- AllListed
    ScanSpans <- TwoSpans
    FutureScans = TRUE
    MaxTrouble = 0
INVARIANT CanonicalClosed
CHECK_DEADLOCK FALSE
