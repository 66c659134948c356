SPECIFICATION FairSpec
CONSTANTS
    LastMinute = 3
    PageSize = 2
    ChunkSize = 1
    ListedSets <- SomeListed
    Ends <- OpenEnds
    MaxJobs = 2
    MaxRequests = 3
    MaxTrouble = 1
INVARIANTS
    TypeOK
    CompletedAccounted
    SoleRunner
PROPERTIES
    ActiveEnds
    DownloadSpec
CHECK_DEADLOCK FALSE
