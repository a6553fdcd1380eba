SPECIFICATION Spec
CONSTANTS
    Capacity = 16
    Lens = {1, 3}
    Data = {"a", "b"}
INVARIANTS TypeOK SlotsKeepData NoSpaceLost
