SPECIFICATION Spec
CONSTANTS
    NULL = NULL
    live = live
    batch = batch
    checkpoint = checkpoint
    batch2 = batch2
    rebuild = rebuild
    Items <- MCItems
    Priority <- MCPriority
    Awaits <- MCAwaits
INVARIANTS
    TypeOK
    PromiseMatchesEffect
PROPERTIES
    ServesMostUrgent
    EventuallySettled
CHECK_DEADLOCK FALSE
