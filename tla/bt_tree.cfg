SPECIFICATION Spec
CONSTANTS
    Keys = {1, 2, 3, 4, 5}
    KeyLen <- LongKeys
    ValueLen <- NoValues
    PoolSize = 6
    Foreign = {0, 2, 6}
    MaxPages = 16
    MaxSlot = 3
    Faults = {"before_split"}
INVARIANTS TypeOK KeysFound LeafChain NodesSound SeparatorsFit NoDoubleBorrow
PROPERTIES ImplementsIndex
CHECK_DEADLOCK FALSE
