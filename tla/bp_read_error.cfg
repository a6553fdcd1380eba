SPECIFICATION Spec
CONSTANTS
    MaxPages = 2
    Zero = zero
    Contents = {zero, a}
    Torn = torn
    Faults = {"read"}
    Restarts = {}
    INVALID_PAGE_ID = INVALID_PAGE_ID
    PoolSize = 1
    NoFrame = NoFrame
    Writes = {a}
    MaxUsage = 1
    MaxHandles = 1
    FetchUnallocated = FALSE
INVARIANTS MappingExact
