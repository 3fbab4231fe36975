CONSTANTS
    StackLimit = 9
    Root = 32
    WordBytes = 4
    CallShare = 4
    MaxCodeSize = 1
    Self = 1
    Nobody = 2
    Price <- Prices
    InitialGas <- Gases
    InitialSlots <- Slots
    Operands <- AllOperands
SPECIFICATION Spec
INVARIANTS
    TypeOK
    StackSafe
    MemorySafe
PROPERTIES
    GasDecreases
    Halts
CHECK_DEADLOCK FALSE
