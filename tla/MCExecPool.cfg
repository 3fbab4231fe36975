CONSTANTS
    Count = 3
    Sizes = {0, 1, 2, 3, 4, 5}
SPECIFICATION Spec
INVARIANTS
    TypeOK
    EachItemOnce
    QuietWhenDraining
PROPERTY Returns
CHECK_DEADLOCK FALSE
