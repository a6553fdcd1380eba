SPECIFICATION Spec
CONSTANTS
    Keys = {1, 2, 3, 4, 5}
    Sizes = {0, 1, 3, 5, 8}
    Capacities = {23, 24}
INVARIANTS NeverPanics SplitsAsStated
PROPERTIES SplitEnds
CHECK_DEADLOCK FALSE
