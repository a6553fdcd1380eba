SPECIFICATION RestartSpec
CONSTANTS
    Keys = {1, 2, 3}
    KeyLen <- LongKeys
    ValueLen <- NoValues
    PoolSize = 6
    Foreign = {0}
    MaxPages = 8
    MaxSlot = 3
    Faults = {}
INVARIANTS FlushedKeysSurvive
CHECK_DEADLOCK FALSE
