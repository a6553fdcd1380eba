SPECIFICATION Spec
CONSTANTS
    Keys = {1, 2, 3, 4}
    KeyLen <- BigKeys
    ValueLen <- NoValues
    PoolSize = 6
    Foreign = {0}
    MaxPages = 16
    MaxSlot = 4
    Faults = {}
INVARIANTS SeparatorsFit
CHECK_DEADLOCK FALSE
