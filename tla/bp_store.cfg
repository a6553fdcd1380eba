SPECIFICATION HSpec
CONSTANTS
    MaxPages = 3
    Zero = zero
    Contents = {zero, a}
    Torn = torn
    Faults = {"write", "sync"}
    Restarts = {"exit", "power_loss"}
    INVALID_PAGE_ID = INVALID_PAGE_ID
    PoolSize = 2
    NoFrame = NoFrame
    Writes = {a}
    MaxUsage = 1
    MaxHandles = 1
    FetchUnallocated = FALSE
INVARIANTS MappingExact AllocatedReachable CleanMatchesFile
PROPERTIES ImplementsPageStore FlushMakesDurable
