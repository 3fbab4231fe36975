CONSTANTS
    A = A
    P = P
    Account = {A, P}
    BalanceKey = BalanceKey
    SubBalanceKey = SubBalanceKey
    NonceKey = NonceKey
    CreatAccountKey = CreatAccountKey
    SetCodeKey = SetCodeKey
    Slot = Slot
    Results <- Failures
    Level = 2
    MaxArrivals = 2
    Funds = 9
    Amount = 1
SPECIFICATION Spec
INVARIANT FailedUpdatesOnlyNonce
CHECK_DEADLOCK FALSE
