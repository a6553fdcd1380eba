SPECIFICATION FairSpec
CONSTANTS
    MaxPages = 3
    Zero = zero
    Contents = {zero}
    Torn = torn
    Faults = {"write", "sync"}
    Restarts = {"exit", "power_loss"}
    INVALID_PAGE_ID = INVALID_PAGE_ID
    PoolSize = 2
    NoFrame = NoFrame
    Writes = {zero}
    MaxUsage = 3
    MaxHandles = 2
    FetchUnallocated = TRUE
INVARIANTS TypeOK VictimUnpinned
PROPERTIES RefusalJustified CallReturns
