CONSTANTS
    Account = {a1, a2, a3, a4}
    NoMark = NoMark
    NoTo = NoTo
    MaxTxs = 5
SPECIFICATION Spec
INVARIANTS
    TypeOK
    NoEmptyLevel
    OrderPreserved
    AllScheduled
    FirstLevelDisjoint
    LevelsJustified
SYMMETRY Symmetry
CHECK_DEADLOCK FALSE
