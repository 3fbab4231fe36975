CONSTANTS
    A = A
    B = B
    C = C
    D = D
    E = E
    CB = CB
    Account = {A, B, C, D, E, CB}
    Coinbase = CB
    NoMark = NoMark
    NoTo = NoTo
    BalanceKey = BalanceKey
    SubBalanceKey = SubBalanceKey
    NonceKey = NonceKey
    Blocks <- Untipped
    Price = 1
    BaseFee = 1
    TxGas = 1
    BlockGas = 4
    Bonus = 3
    Intrinsic = 1
    CallStipend = 2
    Funds = 7
    Wrap = 64
SPECIFICATION Spec
PROPERTY AtomicLevels
CHECK_DEADLOCK FALSE
