CONSTANTS
    User = User
    C = C
    Precompile = Precompile
    Fresh = Fresh
    Contracts = {C}
    Funds <- OnceFunds
    BalanceKey = BalanceKey
    SubBalanceKey = SubBalanceKey
    NonceKey = NonceKey
    CreatAccountKey = CreatAccountKey
    SetCodeKey = SetCodeKey
    Slot = Slot
    CallCreateDepth = 2
    Gas = 6
SPECIFICATION Spec
INVARIANTS
    TypeOK
    StaticChangesNothing
    CreditsRestOnReads
PROPERTY GasNeverMade
CHECK_DEADLOCK FALSE
