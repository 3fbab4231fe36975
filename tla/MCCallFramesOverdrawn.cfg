CONSTANTS
    User = User
    C = C
    Precompile = Precompile
    Fresh = Fresh
    Contracts = {C}
    Funds <- OnceFunds
    BalanceKey = BalanceKey
    SubBalanceKey = SubBalanceKey
    NonceKey = NonceKey
    CreatAccountKey = CreatAccountKey
    SetCodeKey = SetCodeKey
    Slot = Slot
    CallCreateDepth = 2
    Gas = 6
SPECIFICATION Spec
INVARIANT NeverOverdrawn
CHECK_DEADLOCK FALSE
