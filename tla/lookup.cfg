SPECIFICATION LookupSpec
CONSTANTS
    Sizes = {0, 1, 2, 3, 4, 5, 6, 7, 8}
    ESCAPE_LENGTH = 3
    Stores <- LookupStores
    Targets <- LookupTargets
INVARIANTS ResultIsRight MidIsIndex EncodesAsStated FindsLeastNotBelow
PROPERTIES LookupEnds
CHECK_DEADLOCK FALSE
