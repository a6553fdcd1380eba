SPECIFICATION Spec
CONSTANTS
    Keys = {1, 2, 3, 4}
    KeyLen <- LongKeys
    ValueLen <- NoValues
    PoolSize = 5
    Foreign = {0}
    MaxPages = 10
    MaxSlot = 4
    Faults = {"create", "after_split"}
INVARIANTS KeysFound
CHECK_DEADLOCK FALSE
