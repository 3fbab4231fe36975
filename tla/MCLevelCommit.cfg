CONSTANTS
    A = A
    P = P
    Account = {A, P}
    BalanceKey = BalanceKey
    SubBalanceKey = SubBalanceKey
    NonceKey = NonceKey
    CreatAccountKey = CreatAccountKey
    SetCodeKey = SetCodeKey
    Slot = Slot
    Results <- AllResults
    Level = 3
    MaxArrivals = 4
    Funds = 9
    Amount = 1
SPECIFICATION Spec
INVARIANTS
    TypeOK
    ArrivalIndependent
    ConflictSetsUntouched
    AgreesWithSerial
    BalancesAddUp
    ReadsAreSerializable
    LogsAreAdded
    EachOnce
PROPERTY CommitReturns
CHECK_DEADLOCK FALSE
