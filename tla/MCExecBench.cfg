CONSTANTS
    A = A
    B = B
    C = C
    D = D
    E = E
    CB = CB
    Account = {A, B, C, D, E, CB}
    Coinbase = CB
    NoMark = NoMark
    NoTo = NoTo
    BalanceKey = BalanceKey
    SubBalanceKey = SubBalanceKey
    NonceKey = NonceKey
    Blocks <- Ample
    Price = 1
    BaseFee = 0
    TxGas = 1
    BlockGas = 4
    Bonus = 3
    Intrinsic = 1
    CallStipend = 2
    Funds = 7
    Wrap = 64
SPECIFICATION Spec
INVARIANTS
    TypeOK
    CommittedReadsAreFresh
    ReportedUnlessErred
    GasCountedOnce
    NonceCountsTransactions
PROPERTIES
    FrozenWhileRunning
    Terminates
CHECK_DEADLOCK FALSE
