------------------------------- MODULE EvmOps -------------------------------
(***************************************************************************)
(* The instruction set twice over: what vm/ethvm/jump_table.go declares of *)
(* each operation, and what the functions of instructions.go and eips.go   *)
(* do to the stack and the memory.  The interpreter checks the first and   *)
(* then executes the second, so the two have to agree.                     *)
(*                                                                         *)
(* Operands are named by their distance from the top of the stack, Back(n) *)
(* in the code.  A span <<o, l>> is the piece of memory at operand o whose *)
(* length is operand l.                                                    *)
(***************************************************************************)
EXTENDS Integers, Sequences

CONSTANTS StackLimit,   \* params.StackLimit
          Price         \* gas.go and params/protocol_params.go, by name

\* The prices are positive.
PriceNames ==
    {"GasQuickStep", "GasFastestStep", "GasFastStep", "GasMidStep", "GasSlowStep", "GasExtStep", "Keccak256Gas",
     "WarmStorageReadCost", "ColdAccountAccessCost", "ColdSloadCost", "JumpdestGas", "CreateGas", "Create2Gas",
     "SelfdestructGas", "MemoryGas", "QuadCoeffDiv", "CopyGas", "Keccak256WordGas", "LogGas", "LogTopicGas",
     "LogDataGas", "ExpGas", "ExpByte", "InitCodeWordGas", "CreateBySelfdestructGas", "SstoreSentryGas",
     "SstoreSetGas", "SstoreResetGas", "SstoreClearsScheduleRefund", "CallNewAccountGas", "CallValueTransferGas",
     "CallStipend"}
ASSUME StackAssumption == StackLimit \in Nat
ASSUME PriceAssumption == Price \in [PriceNames -> Nat \ {0}]

WordLen == 32           \* in a span: 32 bytes, whatever the stack holds
ByteLen == 33           \* one byte

\* An instruction is a name and a number, which tells PUSH1 to PUSH32 apart.  A
\* table is a set of rows, each for some keys.
Row(keys, v) == [keys |-> keys, says |-> v]
Ops(names, v) == Row(names \X {0}, v)
Numbered(name, ns, V(_)) == {Row({<<name, n>>}, V(n)) : n \in ns}
Table(rows) == [key \in UNION {r.keys : r \in rows} |-> (CHOOSE r \in rows : key \in r.keys).says]

-----------------------------------------------------------------------------
(* jump_table.go and stack_table.go.                                         *)

minStack(pops, pushes) == pops
OneTooMany(pops, pushes) == StackLimit + 1 + pops - pushes
maxStack(pops, pushes) == StackLimit + pops - pushes

\* An entry: items popped and pushed, constant gas, and the functions that
\* compute the dynamic gas and the memory size, "none" for nil.
Op(pops, pushes, cost, dynamic, memory) ==
    [minStack |-> minStack(pops, pushes), maxStack |-> maxStack(pops, pushes),
     constantGas |-> cost, dynamicGas |-> dynamic, memorySize |-> memory]
Free(pops, pushes, cost) == Op(pops, pushes, 0, "none", "none")
Plain(pops, pushes, cost) == Op(pops, pushes, cost, "none", "none")

ComputeOps ==
    {Ops({"STOP"}, Plain(0, 0, 0)),
     Ops({"ADD", "SUB", "LT", "GT", "SLT", "SGT", "EQ", "AND", "XOR", "OR", "BYTE"}, Plain(2, 1, Price.GasFastestStep)),
     Ops({"MUL", "DIV", "SDIV", "MOD", "SMOD", "SIGNEXTEND"}, Plain(2, 1, Price.GasFastStep)),
     Ops({"ADDMOD", "MULMOD"}, Plain(3, 1, Price.GasMidStep)),
     Ops({"ISZERO", "NOT"}, Plain(1, 1, Price.GasFastestStep)),
     Ops({"EXP"}, Op(2, 1, 0, "gasExpEIP158", "none")),
     Ops({"KECCAK256"}, Op(2, 1, Price.Keccak256Gas, "gasKeccak256", "memoryKeccak256"))}

EnvironmentOps ==
    {Ops({"ADDRESS", "ORIGIN", "CALLER", "CALLVALUE", "CALLDATASIZE", "CODESIZE", "GASPRICE", "COINBASE",
          "TIMESTAMP", "NUMBER", "DIFFICULTY", "GASLIMIT"}, Plain(0, 1, Price.GasQuickStep)),
     Ops({"BALANCE", "EXTCODESIZE"}, Op(1, 1, Price.WarmStorageReadCost, "gasEip2929AccountCheck", "none")),
     Ops({"CALLDATALOAD"}, Plain(1, 1, Price.GasFastestStep)),
     Ops({"BLOCKHASH"}, Plain(1, 1, Price.GasExtStep)),
     Ops({"CALLDATACOPY"}, Op(3, 0, Price.GasFastestStep, "gasCallDataCopy", "memoryCallDataCopy")),
     Ops({"CODECOPY"}, Op(3, 0, Price.GasFastestStep, "gasCodeCopy", "memoryCodeCopy")),
     Ops({"EXTCODECOPY"}, Op(4, 0, Price.WarmStorageReadCost, "gasExtCodeCopyEIP2929", "memoryExtCodeCopy"))}

MachineOps ==
    {Ops({"POP"}, Plain(1, 0, Price.GasQuickStep)),
     Ops({"PC", "MSIZE", "GAS"}, Plain(0, 1, Price.GasQuickStep)),
     Ops({"MLOAD"}, Op(1, 1, Price.GasFastestStep, "gasMLoad", "memoryMLoad")),
     Ops({"MSTORE"}, Op(2, 0, Price.GasFastestStep, "gasMStore", "memoryMStore")),
     Ops({"MSTORE8"}, Op(2, 0, Price.GasFastestStep, "gasMStore8", "memoryMStore8")),
     Ops({"SLOAD"}, Op(1, 1, 0, "gasSLoadEIP2929", "none")),
     Ops({"SSTORE"}, Op(2, 0, 0, "gasSStoreEIP3529", "none")),
     Ops({"JUMP"}, Plain(1, 0, Price.GasMidStep)),
     Ops({"JUMPI"}, Plain(2, 0, Price.GasSlowStep)),
     Ops({"JUMPDEST"}, Plain(0, 0, Price.JumpdestGas))}

PushOps == Numbered("PUSH", 1 .. 32, LAMBDA n : Plain(0, 1, Price.GasFastestStep))
DupOps == Numbered("DUP", 1 .. 16, LAMBDA n : Plain(n, n + 1, Price.GasFastestStep))
SwapOps == Numbered("SWAP", 1 .. 16, LAMBDA n : Plain(n + 1, n + 1, Price.GasFastestStep))

\* makeGasLog(n) makes the function for LOGn.
makeGasLogs == <<"makeGasLog0", "makeGasLog1", "makeGasLog2", "makeGasLog3", "makeGasLog4">>
CallOps ==
    {Ops({"CREATE"}, Op(3, 1, Price.CreateGas, "gasCreateEip3860", "memoryCreate")),
     Ops({"CREATE2"}, Op(4, 1, Price.Create2Gas, "gasCreate2Eip3860", "memoryCreate2")),
     Ops({"CALL"}, Op(7, 1, Price.WarmStorageReadCost, "gasCallEIP2929", "memoryCall")),
     Ops({"CALLCODE"}, Op(7, 1, Price.WarmStorageReadCost, "gasCallCodeEIP2929", "memoryCall")),
     Ops({"DELEGATECALL"}, Op(6, 1, Price.WarmStorageReadCost, "gasDelegateCallEIP2929", "memoryDelegateCall")),
     Ops({"STATICCALL"}, Op(6, 1, Price.WarmStorageReadCost, "gasStaticCallEIP2929", "memoryStaticCall")),
     Ops({"RETURN"}, Op(2, 0, 0, "gasReturn", "memoryReturn")),
     Ops({"REVERT"}, Op(2, 0, 0, "gasRevert", "memoryRevert")),
     Ops({"SELFDESTRUCT"}, Op(1, 0, Price.SelfdestructGas, "gasSelfdestructEIP3529", "none")),
     Ops({"RETURNDATACOPY"}, Op(3, 0, Price.GasFastestStep, "gasReturnDataCopy", "memoryReturnDataCopy")),
     Ops({"SHL", "SHR", "SAR"}, Plain(2, 1, Price.GasFastestStep)),
     Ops({"EXTCODEHASH"}, Op(1, 1, Price.WarmStorageReadCost, "gasEip2929AccountCheck", "none")),
     Ops({"RETURNDATASIZE", "CHAINID", "BASEFEE", "PUSH0"}, Plain(0, 1, Price.GasQuickStep)),
     Ops({"SELFBALANCE"}, Plain(0, 1, Price.GasFastStep))}
    \cup Numbered("LOG", 0 .. 4, LAMBDA n : Op(n + 2, 0, 0, makeGasLogs[n + 1], "memoryLog"))

\* All the unassigned codes have one entry, which has a maxStack and no gas.
JumpTable == Table(ComputeOps \cup EnvironmentOps \cup MachineOps \cup PushOps \cup DupOps \cup SwapOps \cup CallOps
                   \cup {Ops({"UNDEFINED"}, Plain(0, 0, 0))})

\* memory_table.go: the spans whose ends memorySize takes the greatest of.
DeclaredSpans ==
    Table({Row({"memoryKeccak256", "memoryReturn", "memoryRevert", "memoryLog"}, {<<0, 1>>}),
           Row({"memoryCallDataCopy", "memoryReturnDataCopy", "memoryCodeCopy"}, {<<0, 2>>}),
           Row({"memoryExtCodeCopy"}, {<<1, 3>>}),
           Row({"memoryMLoad", "memoryMStore"}, {<<0, WordLen>>}),
           Row({"memoryMStore8"}, {<<0, ByteLen>>}),
           Row({"memoryCreate", "memoryCreate2"}, {<<1, 2>>}),
           Row({"memoryCall"}, {<<5, 6>>, <<3, 4>>}),
           Row({"memoryDelegateCall", "memoryStaticCall"}, {<<4, 5>>, <<2, 3>>}),
           Row({"none"}, {})})

-----------------------------------------------------------------------------
(* instructions.go: the stack items an instruction looks at, what it leaves  *)
(* of them, the memory it uses, whether readOnly forbids it, and what it     *)
(* does next.                                                                *)

Does(touches, net, spans, guarded, then) ==
    [touches |-> touches, net |-> net, spans |-> spans, guarded |-> guarded, then |-> then]
Pure(touches, net) == Does(touches, net, {}, "never", "next")
Copies(touches, net, spans) == Does(touches, net, spans, "never", "next")

ArithmeticEffects ==
    {Ops({"ADD", "SUB", "MUL", "DIV", "SDIV", "MOD", "SMOD", "EXP", "SIGNEXTEND", "LT", "GT", "SLT", "SGT", "EQ",
          "AND", "OR", "XOR", "BYTE"}, Pure(2, -1)),
     Ops({"NOT", "ISZERO"}, Pure(1, 0))}
ModuloShiftEffects ==
    {Ops({"ADDMOD", "MULMOD"}, Pure(3, -2)),
     Ops({"SHL", "SHR", "SAR"}, Pure(2, -1))}
InputEffects ==
    {Ops({"KECCAK256"}, Copies(2, -1, {<<0, 1>>})),
     Ops({"ADDRESS", "ORIGIN", "CALLER", "CALLVALUE", "CALLDATASIZE", "RETURNDATASIZE"}, Pure(0, 1)),
     Ops({"BALANCE", "CALLDATALOAD"}, Pure(1, 0)),
     Ops({"CALLDATACOPY"}, Copies(3, -3, {<<0, 2>>})),
     Ops({"RETURNDATACOPY"}, Does(3, -3, {<<0, 2>>}, "never", "returnData"))}
ContextEffects ==
    {Ops({"EXTCODESIZE", "EXTCODEHASH", "BLOCKHASH"}, Pure(1, 0)),
     Ops({"CODESIZE", "GASPRICE", "COINBASE", "TIMESTAMP", "NUMBER", "DIFFICULTY", "GASLIMIT"}, Pure(0, 1)),
     Ops({"CODECOPY"}, Copies(3, -3, {<<0, 2>>})),
     Ops({"EXTCODECOPY"}, Copies(4, -4, {<<1, 3>>}))}
MachineEffects ==
    {Ops({"POP"}, Pure(1, -1)),
     Ops({"MLOAD"}, Copies(1, 0, {<<0, WordLen>>})),
     Ops({"MSTORE"}, Copies(2, -2, {<<0, WordLen>>})),
     Ops({"MSTORE8"}, Copies(2, -2, {<<0, ByteLen>>})),
     Ops({"SLOAD"}, Pure(1, 0)),
     Ops({"SSTORE"}, Does(2, -2, {}, "always", "next")),
     Ops({"JUMP"}, Does(1, -1, {}, "never", "jump")),
     Ops({"JUMPI"}, Does(2, -2, {}, "never", "jump")),
     Ops({"JUMPDEST"}, Pure(0, 0)),
     Ops({"PC", "MSIZE", "GAS"}, Pure(0, 1))}
CreateEffects ==
    {Ops({"CREATE"}, Does(3, -2, {<<1, 2>>}, "always", "create")),
     Ops({"CREATE2"}, Does(4, -3, {<<1, 2>>}, "always", "create2"))}
\* The input is taken out of the memory before the call, the answer put into
\* it after.
CallEffects ==
    {Ops({"CALL"}, Does(7, -6, {<<3, 4>>, <<5, 6>>}, "value", "call")),
     Ops({"CALLCODE"}, Does(7, -6, {<<3, 4>>, <<5, 6>>}, "never", "call")),
     Ops({"DELEGATECALL", "STATICCALL"}, Does(6, -5, {<<2, 3>>, <<4, 5>>}, "never", "call"))}
EndEffects ==
    {Ops({"RETURN"}, Does(2, -2, {<<0, 1>>}, "never", "stop")),
     Ops({"REVERT"}, Does(2, -2, {<<0, 1>>}, "never", "revert")),
     Ops({"UNDEFINED"}, Does(0, 0, {}, "never", "fail")),
     Ops({"STOP"}, Does(0, 0, {}, "never", "stop")),
     Ops({"SELFDESTRUCT"}, Does(1, -1, {}, "always", "stop"))}
LogPushEffects ==
    Numbered("LOG", 0 .. 4, LAMBDA n : Does(n + 2, 0 - (n + 2), {<<0, 1>>}, "always", "next"))
    \cup Numbered("PUSH", 1 .. 32, LAMBDA n : Pure(0, 1))
    \cup Numbered("DUP", 1 .. 16, LAMBDA n : Pure(n, 1))
    \cup Numbered("SWAP", 1 .. 16, LAMBDA n : Pure(n + 1, 0))
EipEffects == {Ops({"PUSH0", "SELFBALANCE", "CHAINID", "BASEFEE"}, Pure(0, 1))}

execute == Table(ArithmeticEffects \cup ModuloShiftEffects \cup InputEffects \cup ContextEffects \cup MachineEffects
                 \cup CreateEffects \cup CallEffects \cup EndEffects \cup LogPushEffects \cup EipEffects)
=============================================================================
