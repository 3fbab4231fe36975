-------------------------- MODULE InterpreterProofs --------------------------
(***************************************************************************)
(* The stack, the memory and the gas of Interpreter, proved for operands   *)
(* of any size and for all prices, limits and widths that meet the         *)
(* assumptions of EvmOps, EvmGas and Interpreter.                          *)
(*                                                                         *)
(* 1. The two tables: for every code the entry of jump_table.go covers     *)
(*    what the function of instructions.go does (InstructionsCovered).     *)
(* 2. The gas: what an instruction costs that can be paid (DynamicGas),    *)
(*    and what of it a callee is given (CallCost).                         *)
(* 3. The iteration: what holds of each before it executes (FactsOf).      *)
(* 4. The invariant, kept by each step, and the theorems.                  *)
(***************************************************************************)
EXTENDS Interpreter, TLAPS

(* 1. The two tables.                                                        *)

Keys(rows) == UNION {r.keys : r \in rows}

\* What a table says of a key is what one of its rows does.
LEMMA TableLemma ==
    ASSUME NEW rows
    PROVE  /\ DOMAIN Table(rows) = Keys(rows)
           /\ \A key \in Keys(rows) : \E r \in rows : key \in r.keys /\ Table(rows)[key] = r.says
<1>1. DOMAIN Table(rows) = Keys(rows)
  BY DEF Table, Keys
<1>2. ASSUME NEW key \in Keys(rows) PROVE \E r \in rows : key \in r.keys /\ Table(rows)[key] = r.says
  <2>1. \E r \in rows : key \in r.keys
    BY DEF Keys
  <2>2. Table(rows)[key] = (CHOOSE r \in rows : key \in r.keys).says
    BY <1>1 DEF Table
  <2>. QED
    BY <2>1, <2>2
<1>. QED
  BY <1>1, <1>2

EffectRows == ArithmeticEffects \cup ModuloShiftEffects \cup InputEffects \cup ContextEffects \cup MachineEffects
              \cup CreateEffects \cup CallEffects \cup EndEffects \cup LogPushEffects \cup EipEffects

\* What the rows of ArithmeticEffects say of their keys.
LEMMA ArithmeticEffectsRows ==
    ASSUME NEW e \in ArithmeticEffects, NEW op \in e.keys
    PROVE  \/ /\ op[1] \in {"ADD", "SUB", "MUL", "DIV", "SDIV", "MOD", "SMOD", "EXP", "SIGNEXTEND",
                         "LT", "GT", "SLT", "SGT", "EQ", "AND", "OR", "XOR", "BYTE"}
              /\ e.says = Pure(2, -1)
           \/ op[1] \in {"NOT", "ISZERO"} /\ e.says = Pure(1, 0)
BY DEF ArithmeticEffects, Ops, Row

\* What the rows of ModuloShiftEffects say of their keys.
LEMMA ModuloShiftEffectsRows ==
    ASSUME NEW e \in ModuloShiftEffects, NEW op \in e.keys
    PROVE  \/ op[1] \in {"ADDMOD", "MULMOD"} /\ e.says = Pure(3, -2)
           \/ op[1] \in {"SHL", "SHR", "SAR"} /\ e.says = Pure(2, -1)
BY DEF ModuloShiftEffects, Ops, Row

\* What the rows of InputEffects say of their keys.
LEMMA InputEffectsRows ==
    ASSUME NEW e \in InputEffects, NEW op \in e.keys
    PROVE  \/ op[1] = "KECCAK256" /\ e.says = Copies(2, -1, {<<0, 1>>})
           \/ /\ op[1] \in {"ADDRESS", "ORIGIN", "CALLER", "CALLVALUE", "CALLDATASIZE",
                         "RETURNDATASIZE"}
              /\ e.says = Pure(0, 1)
           \/ op[1] \in {"BALANCE", "CALLDATALOAD"} /\ e.says = Pure(1, 0)
           \/ op[1] = "CALLDATACOPY" /\ e.says = Copies(3, -3, {<<0, 2>>})
           \/ op[1] = "RETURNDATACOPY" /\ e.says = Does(3, -3, {<<0, 2>>}, "never", "returnData")
BY DEF InputEffects, Ops, Row

\* What the rows of ContextEffects say of their keys.
LEMMA ContextEffectsRows ==
    ASSUME NEW e \in ContextEffects, NEW op \in e.keys
    PROVE  \/ op[1] \in {"EXTCODESIZE", "EXTCODEHASH", "BLOCKHASH"} /\ e.says = Pure(1, 0)
           \/ /\ op[1] \in {"CODESIZE", "GASPRICE", "COINBASE", "TIMESTAMP", "NUMBER", "DIFFICULTY",
                         "GASLIMIT"}
              /\ e.says = Pure(0, 1)
           \/ op[1] = "CODECOPY" /\ e.says = Copies(3, -3, {<<0, 2>>})
           \/ op[1] = "EXTCODECOPY" /\ e.says = Copies(4, -4, {<<1, 3>>})
BY DEF ContextEffects, Ops, Row

\* What the rows of MachineEffects say of their keys.
LEMMA MachineEffectsRows ==
    ASSUME NEW e \in MachineEffects, NEW op \in e.keys
    PROVE  \/ op[1] = "POP" /\ e.says = Pure(1, -1)
           \/ op[1] = "MLOAD" /\ e.says = Copies(1, 0, {<<0, WordLen>>})
           \/ op[1] = "MSTORE" /\ e.says = Copies(2, -2, {<<0, WordLen>>})
           \/ op[1] = "MSTORE8" /\ e.says = Copies(2, -2, {<<0, ByteLen>>})
           \/ op[1] = "SLOAD" /\ e.says = Pure(1, 0)
           \/ op[1] = "SSTORE" /\ e.says = Does(2, -2, {}, "always", "next")
           \/ op[1] = "JUMP" /\ e.says = Does(1, -1, {}, "never", "jump")
           \/ op[1] = "JUMPI" /\ e.says = Does(2, -2, {}, "never", "jump")
           \/ op[1] = "JUMPDEST" /\ e.says = Pure(0, 0)
           \/ op[1] \in {"PC", "MSIZE", "GAS"} /\ e.says = Pure(0, 1)
BY DEF MachineEffects, Ops, Row

\* What the rows of CreateEffects say of their keys.
LEMMA CreateEffectsRows ==
    ASSUME NEW e \in CreateEffects, NEW op \in e.keys
    PROVE  \/ op[1] = "CREATE" /\ e.says = Does(3, -2, {<<1, 2>>}, "always", "create")
           \/ op[1] = "CREATE2" /\ e.says = Does(4, -3, {<<1, 2>>}, "always", "create2")
BY DEF CreateEffects, Ops, Row

\* What the rows of CallEffects say of their keys.
LEMMA CallEffectsRows ==
    ASSUME NEW e \in CallEffects, NEW op \in e.keys
    PROVE  \/ op[1] = "CALL" /\ e.says = Does(7, -6, {<<3, 4>>, <<5, 6>>}, "value", "call")
           \/ op[1] = "CALLCODE" /\ e.says = Does(7, -6, {<<3, 4>>, <<5, 6>>}, "never", "call")
           \/ /\ op[1] \in {"DELEGATECALL", "STATICCALL"}
              /\ e.says = Does(6, -5, {<<2, 3>>, <<4, 5>>}, "never", "call")
BY DEF CallEffects, Ops, Row

\* What the rows of EndEffects say of their keys.
LEMMA EndEffectsRows ==
    ASSUME NEW e \in EndEffects, NEW op \in e.keys
    PROVE  \/ op[1] = "RETURN" /\ e.says = Does(2, -2, {<<0, 1>>}, "never", "stop")
           \/ op[1] = "REVERT" /\ e.says = Does(2, -2, {<<0, 1>>}, "never", "revert")
           \/ op[1] = "UNDEFINED" /\ e.says = Does(0, 0, {}, "never", "fail")
           \/ op[1] = "STOP" /\ e.says = Does(0, 0, {}, "never", "stop")
           \/ op[1] = "SELFDESTRUCT" /\ e.says = Does(1, -1, {}, "always", "stop")
BY DEF EndEffects, Ops, Row

\* What the rows of LogPushEffects say of their keys.
LEMMA LogPushEffectsRows ==
    ASSUME NEW e \in LogPushEffects, NEW op \in e.keys
    PROVE  \/ op[1] = "LOG" /\ e.says = Does(op[2] + 2, 0 - (op[2] + 2), {<<0, 1>>}, "always", "next")
           \/ op[1] = "PUSH" /\ e.says = Pure(0, 1)
           \/ op[1] = "DUP" /\ e.says = Pure(op[2], 1)
           \/ op[1] = "SWAP" /\ e.says = Pure(op[2] + 1, 0)
<1>1. ASSUME NEW n \in 0 .. 4, e = Row({<<"LOG", n>>}, Does(n + 2, 0 - (n + 2), {<<0, 1>>}, "always", "next"))
      PROVE  op[1] = "LOG" /\ e.says = Does(op[2] + 2, 0 - (op[2] + 2), {<<0, 1>>}, "always", "next")
  <2>1. op = <<"LOG", n>>
    BY <1>1 DEF Row
  <2>. QED
    BY <1>1, <2>1 DEF Row
<1>2. ASSUME NEW n \in 1 .. 32, e = Row({<<"PUSH", n>>}, Pure(0, 1))
      PROVE  op[1] = "PUSH" /\ e.says = Pure(0, 1)
  BY <1>2 DEF Row
<1>3. ASSUME NEW n \in 1 .. 16, e = Row({<<"DUP", n>>}, Pure(n, 1))
      PROVE  op[1] = "DUP" /\ e.says = Pure(op[2], 1)
  <2>1. op = <<"DUP", n>>
    BY <1>3 DEF Row
  <2>. QED
    BY <1>3, <2>1 DEF Row
<1>4. ASSUME NEW n \in 1 .. 16, e = Row({<<"SWAP", n>>}, Pure(n + 1, 0))
      PROVE  op[1] = "SWAP" /\ e.says = Pure(op[2] + 1, 0)
  <2>1. op = <<"SWAP", n>>
    BY <1>4 DEF Row
  <2>. QED
    BY <1>4, <2>1 DEF Row
<1>5. \/ \E n \in 0 .. 4 : e = Row({<<"LOG", n>>}, Does(n + 2, 0 - (n + 2), {<<0, 1>>}, "always", "next"))
      \/ \E n \in 1 .. 32 : e = Row({<<"PUSH", n>>}, Pure(0, 1))
      \/ \E n \in 1 .. 16 : e = Row({<<"DUP", n>>}, Pure(n, 1))
      \/ \E n \in 1 .. 16 : e = Row({<<"SWAP", n>>}, Pure(n + 1, 0))
  BY DEF LogPushEffects, Numbered
<1>. QED
  BY <1>1, <1>2, <1>3, <1>4, <1>5

\* What the rows of EipEffects say of their keys.
LEMMA EipEffectsRows ==
    ASSUME NEW e \in EipEffects, NEW op \in e.keys
    PROVE  \/ op[1] \in {"PUSH0", "SELFBALANCE", "CHAINID", "BASEFEE"} /\ e.says = Pure(0, 1)
BY DEF EipEffects, Ops, Row

\* The keys of ArithmeticEffects.
LEMMA ArithmeticEffectsKeys ==
    Keys(ArithmeticEffects) =
        {"ADD", "SUB", "MUL", "DIV", "SDIV", "MOD", "SMOD", "EXP", "SIGNEXTEND", "LT", "GT", "SLT", "SGT", "EQ", "AND",
                "OR", "XOR", "BYTE", "NOT", "ISZERO"} \X {0}
BY DEF Keys, ArithmeticEffects, Ops, Row

\* The keys of ModuloShiftEffects.
LEMMA ModuloShiftEffectsKeys ==
    Keys(ModuloShiftEffects) =
        {"ADDMOD", "MULMOD", "SHL", "SHR", "SAR"} \X {0}
BY DEF Keys, ModuloShiftEffects, Ops, Row

\* The keys of InputEffects.
LEMMA InputEffectsKeys ==
    Keys(InputEffects) =
        {"KECCAK256", "ADDRESS", "ORIGIN", "CALLER", "CALLVALUE", "CALLDATASIZE", "RETURNDATASIZE", "BALANCE",
                "CALLDATALOAD", "CALLDATACOPY", "RETURNDATACOPY"} \X {0}
BY DEF Keys, InputEffects, Ops, Row

\* The keys of ContextEffects.
LEMMA ContextEffectsKeys ==
    Keys(ContextEffects) =
        {"EXTCODESIZE", "EXTCODEHASH", "BLOCKHASH", "CODESIZE", "GASPRICE", "COINBASE", "TIMESTAMP", "NUMBER",
                "DIFFICULTY", "GASLIMIT", "CODECOPY", "EXTCODECOPY"} \X {0}
BY DEF Keys, ContextEffects, Ops, Row

\* The keys of MachineEffects.
LEMMA MachineEffectsKeys ==
    Keys(MachineEffects) =
        {"POP", "MLOAD", "MSTORE", "MSTORE8", "SLOAD", "SSTORE", "JUMP", "JUMPI", "JUMPDEST", "PC", "MSIZE",
                "GAS"} \X {0}
BY DEF Keys, MachineEffects, Ops, Row

\* The keys of CreateEffects.
LEMMA CreateEffectsKeys ==
    Keys(CreateEffects) =
        {"CREATE", "CREATE2"} \X {0}
BY DEF Keys, CreateEffects, Ops, Row

\* The keys of CallEffects.
LEMMA CallEffectsKeys ==
    Keys(CallEffects) =
        {"CALL", "CALLCODE", "DELEGATECALL", "STATICCALL"} \X {0}
BY DEF Keys, CallEffects, Ops, Row

\* The keys of EndEffects.
LEMMA EndEffectsKeys ==
    Keys(EndEffects) =
        {"RETURN", "REVERT", "UNDEFINED", "STOP", "SELFDESTRUCT"} \X {0}
BY DEF Keys, EndEffects, Ops, Row

\* The keys of LogPushEffects.
LEMMA LogPushEffectsKeys ==
    /\ {"LOG"} \X (0 .. 4) \subseteq Keys(LogPushEffects)
    /\ {"PUSH"} \X (1 .. 32) \subseteq Keys(LogPushEffects)
    /\ {"DUP"} \X (1 .. 16) \subseteq Keys(LogPushEffects)
    /\ {"SWAP"} \X (1 .. 16) \subseteq Keys(LogPushEffects)
<1>1. ASSUME NEW keys, NEW v, Row(keys, v) \in LogPushEffects PROVE keys \subseteq Keys(LogPushEffects)
  BY <1>1 DEF Keys, Row
<1>2. ASSUME NEW n \in 0 .. 4 PROVE <<"LOG", n>> \in Keys(LogPushEffects)
  <2>1. Row({<<"LOG", n>>}, Does(n + 2, 0 - (n + 2), {<<0, 1>>}, "always", "next")) \in LogPushEffects
    BY DEF LogPushEffects, Numbered
  <2>. QED
    BY <1>1, <2>1
<1>3. ASSUME NEW n \in 1 .. 32 PROVE <<"PUSH", n>> \in Keys(LogPushEffects)
  <2>1. Row({<<"PUSH", n>>}, Pure(0, 1)) \in LogPushEffects
    BY DEF LogPushEffects, Numbered
  <2>. QED
    BY <1>1, <2>1
<1>4. ASSUME NEW n \in 1 .. 16
      PROVE  <<"DUP", n>> \in Keys(LogPushEffects) /\ <<"SWAP", n>> \in Keys(LogPushEffects)
  <2>1. Row({<<"DUP", n>>}, Pure(n, 1)) \in LogPushEffects
    BY DEF LogPushEffects, Numbered
  <2>2. Row({<<"SWAP", n>>}, Pure(n + 1, 0)) \in LogPushEffects
    BY DEF LogPushEffects, Numbered
  <2>. QED
    BY <1>1, <2>1, <2>2
<1>5. ASSUME NEW name, NEW ns, \A n \in ns : <<name, n>> \in Keys(LogPushEffects)
      PROVE  {name} \X ns \subseteq Keys(LogPushEffects)
  BY <1>5
<1>. QED
  BY <1>2, <1>3, <1>4, <1>5

\* The keys of EipEffects.
LEMMA EipEffectsKeys ==
    Keys(EipEffects) =
        {"PUSH0", "SELFBALANCE", "CHAINID", "BASEFEE"} \X {0}
BY DEF Keys, EipEffects, Ops, Row

\* The keys of a group are keys of the whole.
LEMMA EffectKeys ==
    /\ Keys(ArithmeticEffects) \subseteq Keys(EffectRows)
    /\ Keys(ModuloShiftEffects) \subseteq Keys(EffectRows)
    /\ Keys(InputEffects) \subseteq Keys(EffectRows)
    /\ Keys(ContextEffects) \subseteq Keys(EffectRows)
    /\ Keys(MachineEffects) \subseteq Keys(EffectRows)
    /\ Keys(CreateEffects) \subseteq Keys(EffectRows)
    /\ Keys(CallEffects) \subseteq Keys(EffectRows)
    /\ Keys(EndEffects) \subseteq Keys(EffectRows)
    /\ Keys(LogPushEffects) \subseteq Keys(EffectRows)
    /\ Keys(EipEffects) \subseteq Keys(EffectRows)
BY DEF Keys, EffectRows

\* What instructions.go does for each code.
LEMMA EffectOf ==
    ASSUME NEW op \in Keys(EffectRows)
    PROVE  \/ /\ op[1] \in {"ADD", "SUB", "MUL", "DIV", "SDIV", "MOD", "SMOD", "EXP", "SIGNEXTEND",
                         "LT", "GT", "SLT", "SGT", "EQ", "AND", "OR", "XOR", "BYTE"}
              /\ execute[op] = Pure(2, -1)
           \/ op[1] \in {"NOT", "ISZERO"} /\ execute[op] = Pure(1, 0)
           \/ op[1] \in {"ADDMOD", "MULMOD"} /\ execute[op] = Pure(3, -2)
           \/ op[1] \in {"SHL", "SHR", "SAR"} /\ execute[op] = Pure(2, -1)
           \/ op[1] = "KECCAK256" /\ execute[op] = Copies(2, -1, {<<0, 1>>})
           \/ /\ op[1] \in {"ADDRESS", "ORIGIN", "CALLER", "CALLVALUE", "CALLDATASIZE",
                         "RETURNDATASIZE"}
              /\ execute[op] = Pure(0, 1)
           \/ op[1] \in {"BALANCE", "CALLDATALOAD"} /\ execute[op] = Pure(1, 0)
           \/ op[1] = "CALLDATACOPY" /\ execute[op] = Copies(3, -3, {<<0, 2>>})
           \/ op[1] = "RETURNDATACOPY" /\ execute[op] = Does(3, -3, {<<0, 2>>}, "never", "returnData")
           \/ op[1] \in {"EXTCODESIZE", "EXTCODEHASH", "BLOCKHASH"} /\ execute[op] = Pure(1, 0)
           \/ /\ op[1] \in {"CODESIZE", "GASPRICE", "COINBASE", "TIMESTAMP", "NUMBER", "DIFFICULTY",
                         "GASLIMIT"}
              /\ execute[op] = Pure(0, 1)
           \/ op[1] = "CODECOPY" /\ execute[op] = Copies(3, -3, {<<0, 2>>})
           \/ op[1] = "EXTCODECOPY" /\ execute[op] = Copies(4, -4, {<<1, 3>>})
           \/ op[1] = "POP" /\ execute[op] = Pure(1, -1)
           \/ op[1] = "MLOAD" /\ execute[op] = Copies(1, 0, {<<0, WordLen>>})
           \/ op[1] = "MSTORE" /\ execute[op] = Copies(2, -2, {<<0, WordLen>>})
           \/ op[1] = "MSTORE8" /\ execute[op] = Copies(2, -2, {<<0, ByteLen>>})
           \/ op[1] = "SLOAD" /\ execute[op] = Pure(1, 0)
           \/ op[1] = "SSTORE" /\ execute[op] = Does(2, -2, {}, "always", "next")
           \/ op[1] = "JUMP" /\ execute[op] = Does(1, -1, {}, "never", "jump")
           \/ op[1] = "JUMPI" /\ execute[op] = Does(2, -2, {}, "never", "jump")
           \/ op[1] = "JUMPDEST" /\ execute[op] = Pure(0, 0)
           \/ op[1] \in {"PC", "MSIZE", "GAS"} /\ execute[op] = Pure(0, 1)
           \/ op[1] = "CREATE" /\ execute[op] = Does(3, -2, {<<1, 2>>}, "always", "create")
           \/ op[1] = "CREATE2" /\ execute[op] = Does(4, -3, {<<1, 2>>}, "always", "create2")
           \/ op[1] = "CALL" /\ execute[op] = Does(7, -6, {<<3, 4>>, <<5, 6>>}, "value", "call")
           \/ op[1] = "CALLCODE" /\ execute[op] = Does(7, -6, {<<3, 4>>, <<5, 6>>}, "never", "call")
           \/ /\ op[1] \in {"DELEGATECALL", "STATICCALL"}
              /\ execute[op] = Does(6, -5, {<<2, 3>>, <<4, 5>>}, "never", "call")
           \/ op[1] = "RETURN" /\ execute[op] = Does(2, -2, {<<0, 1>>}, "never", "stop")
           \/ op[1] = "REVERT" /\ execute[op] = Does(2, -2, {<<0, 1>>}, "never", "revert")
           \/ op[1] = "UNDEFINED" /\ execute[op] = Does(0, 0, {}, "never", "fail")
           \/ op[1] = "STOP" /\ execute[op] = Does(0, 0, {}, "never", "stop")
           \/ op[1] = "SELFDESTRUCT" /\ execute[op] = Does(1, -1, {}, "always", "stop")
           \/ op[1] = "LOG" /\ execute[op] = Does(op[2] + 2, 0 - (op[2] + 2), {<<0, 1>>}, "always", "next")
           \/ op[1] = "PUSH" /\ execute[op] = Pure(0, 1)
           \/ op[1] = "DUP" /\ execute[op] = Pure(op[2], 1)
           \/ op[1] = "SWAP" /\ execute[op] = Pure(op[2] + 1, 0)
           \/ op[1] \in {"PUSH0", "SELFBALANCE", "CHAINID", "BASEFEE"} /\ execute[op] = Pure(0, 1)
<1>1. PICK e \in EffectRows : op \in e.keys /\ execute[op] = e.says
  BY TableLemma DEF execute, EffectRows
<1>2. CASE e \in ArithmeticEffects
  BY <1>1, <1>2, ArithmeticEffectsRows
<1>3. CASE e \in ModuloShiftEffects
  BY <1>1, <1>3, ModuloShiftEffectsRows
<1>4. CASE e \in InputEffects
  BY <1>1, <1>4, InputEffectsRows
<1>5. CASE e \in ContextEffects
  BY <1>1, <1>5, ContextEffectsRows
<1>6. CASE e \in MachineEffects
  BY <1>1, <1>6, MachineEffectsRows, ZenonT(60)
<1>7. CASE e \in CreateEffects
  BY <1>1, <1>7, CreateEffectsRows
<1>8. CASE e \in CallEffects
  BY <1>1, <1>8, CallEffectsRows
<1>9. CASE e \in EndEffects
  BY <1>1, <1>9, EndEffectsRows
<1>10. CASE e \in LogPushEffects
  BY <1>1, <1>10, LogPushEffectsRows
<1>11. CASE e \in EipEffects
  BY <1>1, <1>11, EipEffectsRows
<1>. QED
  BY <1>1, <1>2, <1>3, <1>4, <1>5, <1>6, <1>7, <1>8, <1>9, <1>10, <1>11 DEF EffectRows

\* What the rows of ComputeOps say of their keys.
LEMMA ComputeOpsRows ==
    ASSUME NEW r \in ComputeOps, NEW op \in r.keys
    PROVE  \/ op \in {"STOP"} \X {0} /\ r.says = Plain(0, 0, 0)
           \/ /\ op \in {"ADD", "SUB", "LT", "GT", "SLT", "SGT", "EQ", "AND", "XOR", "OR",
                         "BYTE"} \X {0}
              /\ r.says = Plain(2, 1, Price.GasFastestStep)
           \/ /\ op \in {"MUL", "DIV", "SDIV", "MOD", "SMOD", "SIGNEXTEND"} \X {0}
              /\ r.says = Plain(2, 1, Price.GasFastStep)
           \/ op \in {"ADDMOD", "MULMOD"} \X {0} /\ r.says = Plain(3, 1, Price.GasMidStep)
           \/ op \in {"ISZERO", "NOT"} \X {0} /\ r.says = Plain(1, 1, Price.GasFastestStep)
           \/ op \in {"EXP"} \X {0} /\ r.says = Op(2, 1, 0, "gasExpEIP158", "none")
           \/ /\ op \in {"KECCAK256"} \X {0}
              /\ r.says = Op(2, 1, Price.Keccak256Gas, "gasKeccak256", "memoryKeccak256")
BY DEF ComputeOps, Ops, Row

\* What the rows of EnvironmentOps say of their keys.
LEMMA EnvironmentOpsRows ==
    ASSUME NEW r \in EnvironmentOps, NEW op \in r.keys
    PROVE  \/ /\ op \in {"ADDRESS", "ORIGIN", "CALLER", "CALLVALUE", "CALLDATASIZE", "CODESIZE",
                         "GASPRICE", "COINBASE", "TIMESTAMP", "NUMBER", "DIFFICULTY",
                         "GASLIMIT"} \X {0}
              /\ r.says = Plain(0, 1, Price.GasQuickStep)
           \/ /\ op \in {"BALANCE", "EXTCODESIZE"} \X {0}
              /\ r.says = Op(1, 1, Price.WarmStorageReadCost, "gasEip2929AccountCheck", "none")
           \/ op \in {"CALLDATALOAD"} \X {0} /\ r.says = Plain(1, 1, Price.GasFastestStep)
           \/ op \in {"BLOCKHASH"} \X {0} /\ r.says = Plain(1, 1, Price.GasExtStep)
           \/ /\ op \in {"CALLDATACOPY"} \X {0}
              /\ r.says = Op(3, 0, Price.GasFastestStep, "gasCallDataCopy", "memoryCallDataCopy")
           \/ /\ op \in {"CODECOPY"} \X {0}
              /\ r.says = Op(3, 0, Price.GasFastestStep, "gasCodeCopy", "memoryCodeCopy")
           \/ /\ op \in {"EXTCODECOPY"} \X {0}
              /\ r.says = Op(4, 0, Price.WarmStorageReadCost, "gasExtCodeCopyEIP2929", "memoryExtCodeCopy")
BY DEF EnvironmentOps, Ops, Row

\* What the rows of MachineOps say of their keys.
LEMMA MachineOpsRows ==
    ASSUME NEW r \in MachineOps, NEW op \in r.keys
    PROVE  \/ op \in {"POP"} \X {0} /\ r.says = Plain(1, 0, Price.GasQuickStep)
           \/ op \in {"PC", "MSIZE", "GAS"} \X {0} /\ r.says = Plain(0, 1, Price.GasQuickStep)
           \/ op \in {"MLOAD"} \X {0} /\ r.says = Op(1, 1, Price.GasFastestStep, "gasMLoad", "memoryMLoad")
           \/ op \in {"MSTORE"} \X {0} /\ r.says = Op(2, 0, Price.GasFastestStep, "gasMStore", "memoryMStore")
           \/ /\ op \in {"MSTORE8"} \X {0}
              /\ r.says = Op(2, 0, Price.GasFastestStep, "gasMStore8", "memoryMStore8")
           \/ op \in {"SLOAD"} \X {0} /\ r.says = Op(1, 1, 0, "gasSLoadEIP2929", "none")
           \/ op \in {"SSTORE"} \X {0} /\ r.says = Op(2, 0, 0, "gasSStoreEIP3529", "none")
           \/ op \in {"JUMP"} \X {0} /\ r.says = Plain(1, 0, Price.GasMidStep)
           \/ op \in {"JUMPI"} \X {0} /\ r.says = Plain(2, 0, Price.GasSlowStep)
           \/ op \in {"JUMPDEST"} \X {0} /\ r.says = Plain(0, 0, Price.JumpdestGas)
BY DEF MachineOps, Ops, Row

\* What the rows of PushOps say of their keys.
LEMMA PushOpsRows ==
    ASSUME NEW r \in PushOps, NEW op \in r.keys
    PROVE  \/ op \in {"PUSH"} \X (1 .. 32) /\ r.says = Plain(0, 1, Price.GasFastestStep)
BY DEF PushOps, Numbered, Row

\* What the rows of DupOps say of their keys.
LEMMA DupOpsRows ==
    ASSUME NEW r \in DupOps, NEW op \in r.keys
    PROVE  \/ op \in {"DUP"} \X (1 .. 16) /\ r.says = Plain(op[2], op[2] + 1, Price.GasFastestStep)
BY DEF DupOps, Numbered, Row

\* What the rows of SwapOps say of their keys.
LEMMA SwapOpsRows ==
    ASSUME NEW r \in SwapOps, NEW op \in r.keys
    PROVE  \/ op \in {"SWAP"} \X (1 .. 16) /\ r.says = Plain(op[2] + 1, op[2] + 1, Price.GasFastestStep)
BY DEF SwapOps, Numbered, Row

\* What the rows of CallOps say of their keys.
LEMMA CallOpsRows ==
    ASSUME NEW r \in CallOps, NEW op \in r.keys
    PROVE  \/ /\ op \in {"CREATE"} \X {0}
              /\ r.says = Op(3, 1, Price.CreateGas, "gasCreateEip3860", "memoryCreate")
           \/ /\ op \in {"CREATE2"} \X {0}
              /\ r.says = Op(4, 1, Price.Create2Gas, "gasCreate2Eip3860", "memoryCreate2")
           \/ /\ op \in {"CALL"} \X {0}
              /\ r.says = Op(7, 1, Price.WarmStorageReadCost, "gasCallEIP2929", "memoryCall")
           \/ /\ op \in {"CALLCODE"} \X {0}
              /\ r.says = Op(7, 1, Price.WarmStorageReadCost, "gasCallCodeEIP2929", "memoryCall")
           \/ /\ op \in {"DELEGATECALL"} \X {0}
              /\ r.says = Op(6, 1, Price.WarmStorageReadCost, "gasDelegateCallEIP2929", "memoryDelegateCall")
           \/ /\ op \in {"STATICCALL"} \X {0}
              /\ r.says = Op(6, 1, Price.WarmStorageReadCost, "gasStaticCallEIP2929", "memoryStaticCall")
           \/ op \in {"RETURN"} \X {0} /\ r.says = Op(2, 0, 0, "gasReturn", "memoryReturn")
           \/ op \in {"REVERT"} \X {0} /\ r.says = Op(2, 0, 0, "gasRevert", "memoryRevert")
           \/ /\ op \in {"SELFDESTRUCT"} \X {0}
              /\ r.says = Op(1, 0, Price.SelfdestructGas, "gasSelfdestructEIP3529", "none")
           \/ /\ op \in {"RETURNDATACOPY"} \X {0}
              /\ r.says = Op(3, 0, Price.GasFastestStep, "gasReturnDataCopy", "memoryReturnDataCopy")
           \/ op \in {"SHL", "SHR", "SAR"} \X {0} /\ r.says = Plain(2, 1, Price.GasFastestStep)
           \/ /\ op \in {"EXTCODEHASH"} \X {0}
              /\ r.says = Op(1, 1, Price.WarmStorageReadCost, "gasEip2929AccountCheck", "none")
           \/ /\ op \in {"RETURNDATASIZE", "CHAINID", "BASEFEE", "PUSH0"} \X {0}
              /\ r.says = Plain(0, 1, Price.GasQuickStep)
           \/ op \in {"SELFBALANCE"} \X {0} /\ r.says = Plain(0, 1, Price.GasFastStep)
           \/ op \in {"LOG"} \X (0 .. 4) /\ r.says = Op(op[2] + 2, 0, 0, makeGasLogs[op[2] + 1], "memoryLog")
BY DEF CallOps, Numbered, Ops, Row

\* The spans each function of memory_table.go declares.
LEMMA Declared ==
    /\ \A m \in {"memoryKeccak256", "memoryReturn", "memoryRevert", "memoryLog"} : DeclaredSpans[m] = {<<0, 1>>}
    /\ \A m \in {"memoryCallDataCopy", "memoryReturnDataCopy", "memoryCodeCopy"} : DeclaredSpans[m] = {<<0, 2>>}
    /\ DeclaredSpans["memoryExtCodeCopy"] = {<<1, 3>>}
    /\ \A m \in {"memoryMLoad", "memoryMStore"} : DeclaredSpans[m] = {<<0, WordLen>>}
    /\ DeclaredSpans["memoryMStore8"] = {<<0, ByteLen>>}
    /\ \A m \in {"memoryCreate", "memoryCreate2"} : DeclaredSpans[m] = {<<1, 2>>}
    /\ DeclaredSpans["memoryCall"] = {<<5, 6>>, <<3, 4>>}
    /\ \A m \in {"memoryDelegateCall", "memoryStaticCall"} : DeclaredSpans[m] = {<<4, 5>>, <<2, 3>>}
    /\ DeclaredSpans["none"] = {}
<1>. DEFINE rows ==
       {Row({"memoryKeccak256", "memoryReturn", "memoryRevert", "memoryLog"}, {<<0, 1>>}),
        Row({"memoryCallDataCopy", "memoryReturnDataCopy", "memoryCodeCopy"}, {<<0, 2>>}),
        Row({"memoryExtCodeCopy"}, {<<1, 3>>}),
        Row({"memoryMLoad", "memoryMStore"}, {<<0, WordLen>>}),
        Row({"memoryMStore8"}, {<<0, ByteLen>>}),
        Row({"memoryCreate", "memoryCreate2"}, {<<1, 2>>}),
        Row({"memoryCall"}, {<<5, 6>>, <<3, 4>>}),
        Row({"memoryDelegateCall", "memoryStaticCall"}, {<<4, 5>>, <<2, 3>>}),
        Row({"none"}, {})}
<1>1. DeclaredSpans = Table(rows)
  BY DEF DeclaredSpans
<1>. HIDE DEF rows
<1>2. ASSUME NEW r \in rows, NEW m \in r.keys PROVE DeclaredSpans[m] = r.says
  <2>1. m \in Keys(rows)
    BY <1>2 DEF Keys
  <2>2. PICK s \in rows : m \in s.keys /\ Table(rows)[m] = s.says
    BY <2>1, TableLemma
  <2>3. m \in s.keys
    BY <2>2
  <2>4. s.says = r.says
    BY <1>2, <2>3 DEF rows, Row
  <2>. QED
    BY <1>1, <2>2, <2>4
<1>3. ASSUME NEW keys, NEW v, Row(keys, v) \in rows PROVE \A m \in keys : DeclaredSpans[m] = v
  BY <1>2, <1>3 DEF Row
<1>. QED
  BY <1>3 DEF rows

\* The functions for dynamic gas that charge for memory, and those that charge in
\* any case.
Logs == {"makeGasLog0", "makeGasLog1", "makeGasLog2", "makeGasLog3", "makeGasLog4"}
Copying == {"gasCallDataCopy", "gasCodeCopy", "gasReturnDataCopy"}
Creating == {"gasCreateEip3860", "gasCreate2Eip3860"}
Growing == {"gasMLoad", "gasMStore", "gasMStore8", "gasReturn", "gasRevert"}
Charging == {"gasExpEIP158", "gasSLoadEIP2929", "gasSStoreEIP3529"} \cup Logs
ForMemory == Growing \cup Copying \cup Creating \cup Logs \cup CallKinds \cup {"gasExtCodeCopyEIP2929", "gasKeccak256"}
Kinds == ForMemory \cup Charging \cup {"none", "gasEip2929AccountCheck", "gasSelfdestructEIP3529"}

\* The operands such a function looks at.
Uses(kind) ==
    CASE kind \in Copying \cup Creating -> {2}
      [] kind = "gasExtCodeCopyEIP2929" -> {0, 3}
      [] kind \in Logs \cup {"gasKeccak256", "gasExpEIP158", "gasSStoreEIP3529"} -> {1}
      [] kind \in {"gasEip2929AccountCheck", "gasSelfdestructEIP3529"} -> {0}
      [] kind \in {"gasCallEIP2929", "gasCallCodeEIP2929"} -> {0, 1, 2}
      [] kind \in {"gasDelegateCallEIP2929", "gasStaticCallEIP2929"} -> {0, 1}
      [] OTHER -> {}

GoesOn == {"next", "jump", "returnData", "call", "create", "create2"}

\* What the entry e declares covers what the effect x does.
StackCovered(e, x) ==
    /\ x.touches \in Nat /\ x.net \in Int /\ e.minStack \in Nat /\ e.maxStack \in Int
    /\ x.touches <= e.minStack /\ e.minStack + x.net >= 0 /\ e.maxStack + x.net <= StackLimit
MemoryCovered(e, x) ==
    /\ x.spans = DeclaredSpans[e.memorySize]
    /\ x.spans # {} => e.dynamicGas \in ForMemory
    /\ \A s \in x.spans : s[1] \notin Uses(e.dynamicGas)
    /\ \/ x.spans = {}
       \/ \E o \in 0 .. 6, l \in (0 .. 6) \cup {WordLen, ByteLen} : x.spans = {<<o, l>>}
       \/ \E o, l, p, m \in 0 .. 6 : x.spans = {<<o, l>>, <<p, m>>}
GasCovered(e, x) ==
    /\ e.constantGas \in Nat /\ e.dynamicGas \in Kinds
    /\ x.then \in GoesOn \cup {"stop", "revert", "fail"}
    /\ x.then \in GoesOn => e.constantGas > 0 \/ e.dynamicGas \in Charging
    /\ x.then = "call" <=> e.dynamicGas \in CallKinds
Covered(e, x) == StackCovered(e, x) /\ MemoryCovered(e, x) /\ GasCovered(e, x)

\* No price is zero.
LEMMA Prices ==
    \A p \in PriceNames : Price[p] \in Nat \ {0}
BY PriceAssumption
\* Each entry of ComputeOps covers the function of its code.
LEMMA ComputeOpsCovered ==
    ASSUME NEW r \in ComputeOps, NEW op \in r.keys
    PROVE  op \in Keys(EffectRows) /\ Covered(r.says, execute[op])
<1>1. CASE op \in {"STOP"} \X {0} /\ r.says = Plain(0, 0, 0)
  <2>1. op \in Keys(EffectRows)
    BY <1>1, EffectKeys, EndEffectsKeys
  <2>2. execute[op] = Does(0, 0, {}, "never", "stop")
    BY <1>1, <2>1, EffectOf
  <2>. QED
    BY <1>1, <2>1, <2>2, Declared, StackAssumption, PriceAssumption
       DEF Covered, StackCovered, MemoryCovered, GasCovered, minStack, maxStack, Op, Plain, Does, PriceNames, Kinds,
           ForMemory, Growing, Copying, Creating, Logs, CallKinds, Charging, Uses, GoesOn, WordLen, ByteLen
<1>2. CASE op \in {"ADD", "SUB", "LT", "GT", "SLT", "SGT", "EQ", "AND", "XOR", "OR", "BYTE"} \X {0}
           /\ r.says = Plain(2, 1, Price.GasFastestStep)
  <2>1. op \in Keys(EffectRows)
    BY <1>2, EffectKeys, ArithmeticEffectsKeys
  <2>2. execute[op] = Pure(2, -1)
    BY <1>2, <2>1, EffectOf
  <2>. QED
    BY <1>2, <2>1, <2>2, Declared, StackAssumption, PriceAssumption
       DEF Covered, StackCovered, MemoryCovered, GasCovered, minStack, maxStack, Op, Plain, Does, Pure, PriceNames,
           Kinds, CallKinds, GoesOn
<1>3. CASE op \in {"MUL", "DIV", "SDIV", "MOD", "SMOD", "SIGNEXTEND"} \X {0}
           /\ r.says = Plain(2, 1, Price.GasFastStep)
  <2>1. op \in Keys(EffectRows)
    BY <1>3, EffectKeys, ArithmeticEffectsKeys
  <2>2. execute[op] = Pure(2, -1)
    BY <1>3, <2>1, EffectOf
  <2>. QED
    BY <1>3, <2>1, <2>2, Declared, StackAssumption, PriceAssumption
       DEF Covered, StackCovered, MemoryCovered, GasCovered, minStack, maxStack, Op, Plain, Does, Pure, PriceNames,
           Kinds, CallKinds, GoesOn
<1>4. CASE op \in {"ADDMOD", "MULMOD"} \X {0} /\ r.says = Plain(3, 1, Price.GasMidStep)
  <2>1. op \in Keys(EffectRows)
    BY <1>4, EffectKeys, ModuloShiftEffectsKeys
  <2>2. execute[op] = Pure(3, -2)
    BY <1>4, <2>1, EffectOf
  <2>. QED
    BY <1>4, <2>1, <2>2, Declared, StackAssumption, PriceAssumption
       DEF Covered, StackCovered, MemoryCovered, GasCovered, minStack, maxStack, Op, Plain, Does, Pure, PriceNames,
           Kinds, CallKinds, GoesOn
<1>5. CASE op \in {"ISZERO", "NOT"} \X {0} /\ r.says = Plain(1, 1, Price.GasFastestStep)
  <2>1. op \in Keys(EffectRows)
    BY <1>5, EffectKeys, ArithmeticEffectsKeys
  <2>2. execute[op] = Pure(1, 0)
    BY <1>5, <2>1, EffectOf
  <2>. QED
    BY <1>5, <2>1, <2>2, Declared, StackAssumption, PriceAssumption
       DEF Covered, StackCovered, MemoryCovered, GasCovered, minStack, maxStack, Op, Plain, Does, Pure, PriceNames,
           Kinds, CallKinds, GoesOn
<1>6. CASE op \in {"EXP"} \X {0} /\ r.says = Op(2, 1, 0, "gasExpEIP158", "none")
  <2>1. op \in Keys(EffectRows)
    BY <1>6, EffectKeys, ArithmeticEffectsKeys
  <2>2. execute[op] = Pure(2, -1)
    BY <1>6, <2>1, EffectOf
  <2>. QED
    BY <1>6, <2>1, <2>2, Declared, StackAssumption, PriceAssumption
       DEF Covered, StackCovered, MemoryCovered, GasCovered, minStack, maxStack, Op, Does, Pure, PriceNames, Kinds,
           ForMemory, Growing, Copying, Creating, Logs, CallKinds, Charging, Uses, GoesOn, WordLen, ByteLen
<1>7. CASE op \in {"KECCAK256"} \X {0}
           /\ r.says = Op(2, 1, Price.Keccak256Gas, "gasKeccak256", "memoryKeccak256")
  <2>1. op \in Keys(EffectRows)
    BY <1>7, EffectKeys, InputEffectsKeys
  <2>2. execute[op] = Copies(2, -1, {<<0, 1>>})
    BY <1>7, <2>1, EffectOf
  <2>. QED
    BY <1>7, <2>1, <2>2, Declared, StackAssumption, PriceAssumption
       DEF Covered, StackCovered, MemoryCovered, GasCovered, minStack, maxStack, Op, Does, Copies, PriceNames, Kinds,
           ForMemory, Growing, Copying, Creating, Logs, CallKinds, Charging, Uses, GoesOn, WordLen, ByteLen
<1>. QED
  BY ComputeOpsRows, <1>1, <1>2, <1>3, <1>4, <1>5, <1>6, <1>7

\* Each entry of EnvironmentOps covers the function of its code.
LEMMA EnvironmentOpsCovered ==
    ASSUME NEW r \in EnvironmentOps, NEW op \in r.keys
    PROVE  op \in Keys(EffectRows) /\ Covered(r.says, execute[op])
<1>1. CASE op \in {"ADDRESS", "ORIGIN", "CALLER", "CALLVALUE", "CALLDATASIZE", "CODESIZE", "GASPRICE",
             "COINBASE", "TIMESTAMP", "NUMBER", "DIFFICULTY", "GASLIMIT"} \X {0}
           /\ r.says = Plain(0, 1, Price.GasQuickStep)
  <2>1. op \in Keys(EffectRows)
    BY <1>1, EffectKeys, InputEffectsKeys, ContextEffectsKeys
  <2>2. execute[op] = Pure(0, 1)
    BY <1>1, <2>1, EffectOf
  <2>. QED
    BY <1>1, <2>1, <2>2, Declared, StackAssumption, PriceAssumption
       DEF Covered, StackCovered, MemoryCovered, GasCovered, minStack, maxStack, Op, Plain, Does, Pure, PriceNames,
           Kinds, CallKinds, GoesOn
<1>2. CASE op \in {"BALANCE", "EXTCODESIZE"} \X {0}
           /\ r.says = Op(1, 1, Price.WarmStorageReadCost, "gasEip2929AccountCheck", "none")
  <2>1. op \in Keys(EffectRows)
    BY <1>2, EffectKeys, InputEffectsKeys, ContextEffectsKeys
  <2>2. execute[op] = Pure(1, 0)
    BY <1>2, <2>1, EffectOf
  <2>. QED
    BY <1>2, <2>1, <2>2, Declared, StackAssumption, PriceAssumption
       DEF Covered, StackCovered, MemoryCovered, GasCovered, minStack, maxStack, Op, Does, Pure, PriceNames, Kinds,
           ForMemory, Growing, Copying, Creating, Logs, CallKinds, Charging, Uses, GoesOn, WordLen, ByteLen
<1>3. CASE op \in {"CALLDATALOAD"} \X {0} /\ r.says = Plain(1, 1, Price.GasFastestStep)
  <2>1. op \in Keys(EffectRows)
    BY <1>3, EffectKeys, InputEffectsKeys
  <2>2. execute[op] = Pure(1, 0)
    BY <1>3, <2>1, EffectOf
  <2>. QED
    BY <1>3, <2>1, <2>2, Declared, StackAssumption, PriceAssumption
       DEF Covered, StackCovered, MemoryCovered, GasCovered, minStack, maxStack, Op, Plain, Does, Pure, PriceNames,
           Kinds, CallKinds, GoesOn
<1>4. CASE op \in {"BLOCKHASH"} \X {0} /\ r.says = Plain(1, 1, Price.GasExtStep)
  <2>1. op \in Keys(EffectRows)
    BY <1>4, EffectKeys, ContextEffectsKeys
  <2>2. execute[op] = Pure(1, 0)
    BY <1>4, <2>1, EffectOf
  <2>. QED
    BY <1>4, <2>1, <2>2, Declared, StackAssumption, PriceAssumption
       DEF Covered, StackCovered, MemoryCovered, GasCovered, minStack, maxStack, Op, Plain, Does, Pure, PriceNames,
           Kinds, CallKinds, GoesOn
<1>5. CASE op \in {"CALLDATACOPY"} \X {0}
           /\ r.says = Op(3, 0, Price.GasFastestStep, "gasCallDataCopy", "memoryCallDataCopy")
  <2>1. op \in Keys(EffectRows)
    BY <1>5, EffectKeys, InputEffectsKeys
  <2>2. execute[op] = Copies(3, -3, {<<0, 2>>})
    BY <1>5, <2>1, EffectOf
  <2>. QED
    BY <1>5, <2>1, <2>2, Declared, StackAssumption, PriceAssumption
       DEF Covered, StackCovered, MemoryCovered, GasCovered, minStack, maxStack, Op, Does, Copies, PriceNames, Kinds,
           ForMemory, Growing, Copying, Creating, Logs, CallKinds, Charging, Uses, GoesOn, WordLen, ByteLen
<1>6. CASE op \in {"CODECOPY"} \X {0}
           /\ r.says = Op(3, 0, Price.GasFastestStep, "gasCodeCopy", "memoryCodeCopy")
  <2>1. op \in Keys(EffectRows)
    BY <1>6, EffectKeys, ContextEffectsKeys
  <2>2. execute[op] = Copies(3, -3, {<<0, 2>>})
    BY <1>6, <2>1, EffectOf
  <2>. QED
    BY <1>6, <2>1, <2>2, Declared, StackAssumption, PriceAssumption
       DEF Covered, StackCovered, MemoryCovered, GasCovered, minStack, maxStack, Op, Does, Copies, PriceNames, Kinds,
           ForMemory, Growing, Copying, Creating, Logs, CallKinds, Charging, Uses, GoesOn, WordLen, ByteLen
<1>7. CASE op \in {"EXTCODECOPY"} \X {0}
           /\ r.says = Op(4, 0, Price.WarmStorageReadCost, "gasExtCodeCopyEIP2929", "memoryExtCodeCopy")
  <2>1. op \in Keys(EffectRows)
    BY <1>7, EffectKeys, ContextEffectsKeys
  <2>2. execute[op] = Copies(4, -4, {<<1, 3>>})
    BY <1>7, <2>1, EffectOf
  <2>. QED
    BY <1>7, <2>1, <2>2, Declared, StackAssumption, PriceAssumption
       DEF Covered, StackCovered, MemoryCovered, GasCovered, minStack, maxStack, Op, Does, Copies, PriceNames, Kinds,
           ForMemory, Growing, Copying, Creating, Logs, CallKinds, Charging, Uses, GoesOn, WordLen, ByteLen
<1>. QED
  BY EnvironmentOpsRows, <1>1, <1>2, <1>3, <1>4, <1>5, <1>6, <1>7

\* Each entry of MachineOps covers the function of its code.
LEMMA MachineOpsCovered ==
    ASSUME NEW r \in MachineOps, NEW op \in r.keys
    PROVE  op \in Keys(EffectRows) /\ Covered(r.says, execute[op])
<1>1. CASE op \in {"POP"} \X {0} /\ r.says = Plain(1, 0, Price.GasQuickStep)
  <2>1. op \in Keys(EffectRows)
    BY <1>1, EffectKeys, MachineEffectsKeys
  <2>2. execute[op] = Pure(1, -1)
    BY <1>1, <2>1, EffectOf
  <2>. QED
    BY <1>1, <2>1, <2>2, Declared, StackAssumption, PriceAssumption
       DEF Covered, StackCovered, MemoryCovered, GasCovered, minStack, maxStack, Op, Plain, Does, Pure, PriceNames,
           Kinds, CallKinds, GoesOn
<1>2. CASE op \in {"PC", "MSIZE", "GAS"} \X {0} /\ r.says = Plain(0, 1, Price.GasQuickStep)
  <2>1. op \in Keys(EffectRows)
    BY <1>2, EffectKeys, MachineEffectsKeys
  <2>2. execute[op] = Pure(0, 1)
    BY <1>2, <2>1, EffectOf
  <2>. QED
    BY <1>2, <2>1, <2>2, Declared, StackAssumption, PriceAssumption
       DEF Covered, StackCovered, MemoryCovered, GasCovered, minStack, maxStack, Op, Plain, Does, Pure, PriceNames,
           Kinds, CallKinds, GoesOn
<1>3. CASE op \in {"MLOAD"} \X {0} /\ r.says = Op(1, 1, Price.GasFastestStep, "gasMLoad", "memoryMLoad")
  <2>1. op \in Keys(EffectRows)
    BY <1>3, EffectKeys, MachineEffectsKeys
  <2>2. execute[op] = Copies(1, 0, {<<0, WordLen>>})
    BY <1>3, <2>1, EffectOf
  <2>. QED
    BY <1>3, <2>1, <2>2, Declared, StackAssumption, PriceAssumption
       DEF Covered, StackCovered, MemoryCovered, GasCovered, minStack, maxStack, Op, Does, Copies, PriceNames, Kinds,
           ForMemory, Growing, Copying, Creating, Logs, CallKinds, Charging, Uses, GoesOn, WordLen, ByteLen
<1>4. CASE op \in {"MSTORE"} \X {0} /\ r.says = Op(2, 0, Price.GasFastestStep, "gasMStore", "memoryMStore")
  <2>1. op \in Keys(EffectRows)
    BY <1>4, EffectKeys, MachineEffectsKeys
  <2>2. execute[op] = Copies(2, -2, {<<0, WordLen>>})
    BY <1>4, <2>1, EffectOf
  <2>. QED
    BY <1>4, <2>1, <2>2, Declared, StackAssumption, PriceAssumption
       DEF Covered, StackCovered, MemoryCovered, GasCovered, minStack, maxStack, Op, Does, Copies, PriceNames, Kinds,
           ForMemory, Growing, Copying, Creating, Logs, CallKinds, Charging, Uses, GoesOn, WordLen, ByteLen
<1>5. CASE op \in {"MSTORE8"} \X {0}
           /\ r.says = Op(2, 0, Price.GasFastestStep, "gasMStore8", "memoryMStore8")
  <2>1. op \in Keys(EffectRows)
    BY <1>5, EffectKeys, MachineEffectsKeys
  <2>2. execute[op] = Copies(2, -2, {<<0, ByteLen>>})
    BY <1>5, <2>1, EffectOf
  <2>. QED
    BY <1>5, <2>1, <2>2, Declared, StackAssumption, PriceAssumption
       DEF Covered, StackCovered, MemoryCovered, GasCovered, minStack, maxStack, Op, Does, Copies, PriceNames, Kinds,
           ForMemory, Growing, Copying, Creating, Logs, CallKinds, Charging, Uses, GoesOn, WordLen, ByteLen
<1>6. CASE op \in {"SLOAD"} \X {0} /\ r.says = Op(1, 1, 0, "gasSLoadEIP2929", "none")
  <2>1. op \in Keys(EffectRows)
    BY <1>6, EffectKeys, MachineEffectsKeys
  <2>2. execute[op] = Pure(1, 0)
    BY <1>6, <2>1, EffectOf
  <2>. QED
    BY <1>6, <2>1, <2>2, Declared, StackAssumption, PriceAssumption
       DEF Covered, StackCovered, MemoryCovered, GasCovered, minStack, maxStack, Op, Does, Pure, PriceNames, Kinds,
           ForMemory, Growing, Copying, Creating, Logs, CallKinds, Charging, Uses, GoesOn, WordLen, ByteLen
<1>7. CASE op \in {"SSTORE"} \X {0} /\ r.says = Op(2, 0, 0, "gasSStoreEIP3529", "none")
  <2>1. op \in Keys(EffectRows)
    BY <1>7, EffectKeys, MachineEffectsKeys
  <2>2. execute[op] = Does(2, -2, {}, "always", "next")
    BY <1>7, <2>1, EffectOf
  <2>. QED
    BY <1>7, <2>1, <2>2, Declared, StackAssumption, PriceAssumption
       DEF Covered, StackCovered, MemoryCovered, GasCovered, minStack, maxStack, Op, Does, PriceNames, Kinds,
           ForMemory, Growing, Copying, Creating, Logs, CallKinds, Charging, Uses, GoesOn, WordLen, ByteLen
<1>8. CASE op \in {"JUMP"} \X {0} /\ r.says = Plain(1, 0, Price.GasMidStep)
  <2>1. op \in Keys(EffectRows)
    BY <1>8, EffectKeys, MachineEffectsKeys
  <2>2. execute[op] = Does(1, -1, {}, "never", "jump")
    BY <1>8, <2>1, EffectOf
  <2>. QED
    BY <1>8, <2>1, <2>2, Declared, StackAssumption, PriceAssumption
       DEF Covered, StackCovered, MemoryCovered, GasCovered, minStack, maxStack, Op, Plain, Does, PriceNames, Kinds,
           ForMemory, Growing, Copying, Creating, Logs, CallKinds, Charging, Uses, GoesOn, WordLen, ByteLen
<1>9. CASE op \in {"JUMPI"} \X {0} /\ r.says = Plain(2, 0, Price.GasSlowStep)
  <2>1. op \in Keys(EffectRows)
    BY <1>9, EffectKeys, MachineEffectsKeys
  <2>2. execute[op] = Does(2, -2, {}, "never", "jump")
    BY <1>9, <2>1, EffectOf
  <2>. QED
    BY <1>9, <2>1, <2>2, Declared, StackAssumption, PriceAssumption
       DEF Covered, StackCovered, MemoryCovered, GasCovered, minStack, maxStack, Op, Plain, Does, PriceNames, Kinds,
           ForMemory, Growing, Copying, Creating, Logs, CallKinds, Charging, Uses, GoesOn, WordLen, ByteLen
<1>10. CASE op \in {"JUMPDEST"} \X {0} /\ r.says = Plain(0, 0, Price.JumpdestGas)
  <2>1. op \in Keys(EffectRows)
    BY <1>10, EffectKeys, MachineEffectsKeys
  <2>2. execute[op] = Pure(0, 0)
    BY <1>10, <2>1, EffectOf
  <2>. QED
    BY <1>10, <2>1, <2>2, Declared, StackAssumption, PriceAssumption
       DEF Covered, StackCovered, MemoryCovered, GasCovered, minStack, maxStack, Op, Plain, Does, Pure, PriceNames,
           Kinds, CallKinds, GoesOn
<1>. QED
  BY MachineOpsRows, <1>1, <1>2, <1>3, <1>4, <1>5, <1>6, <1>7, <1>8, <1>9, <1>10

\* Each entry of PushOps covers the function of its code.
LEMMA PushOpsCovered ==
    ASSUME NEW r \in PushOps, NEW op \in r.keys
    PROVE  op \in Keys(EffectRows) /\ Covered(r.says, execute[op])
<1>1. CASE op \in {"PUSH"} \X (1 .. 32) /\ r.says = Plain(0, 1, Price.GasFastestStep)
  <2>1. op \in Keys(EffectRows)
    BY <1>1, EffectKeys, LogPushEffectsKeys
  <2>2. execute[op] = Pure(0, 1)
    BY <1>1, <2>1, EffectOf
  <2>. QED
    BY <1>1, <2>1, <2>2, Declared, StackAssumption, PriceAssumption
       DEF Covered, StackCovered, MemoryCovered, GasCovered, minStack, maxStack, Op, Plain, Does, Pure, PriceNames,
           Kinds, CallKinds, GoesOn
<1>. QED
  BY PushOpsRows, <1>1

\* Each entry of DupOps covers the function of its code.
LEMMA DupOpsCovered ==
    ASSUME NEW r \in DupOps, NEW op \in r.keys
    PROVE  op \in Keys(EffectRows) /\ Covered(r.says, execute[op])
<1>1. CASE op \in {"DUP"} \X (1 .. 16) /\ r.says = Plain(op[2], op[2] + 1, Price.GasFastestStep)
  <2>1. op \in Keys(EffectRows)
    BY <1>1, EffectKeys, LogPushEffectsKeys
  <2>2. execute[op] = Pure(op[2], 1)
    BY <1>1, <2>1, EffectOf
  <2>. QED
    BY <1>1, <2>1, <2>2, Declared, StackAssumption, PriceAssumption
       DEF Covered, StackCovered, MemoryCovered, GasCovered, minStack, maxStack, Op, Plain, Does, Pure, PriceNames,
           Kinds, CallKinds, GoesOn
<1>. QED
  BY DupOpsRows, <1>1

\* Each entry of SwapOps covers the function of its code.
LEMMA SwapOpsCovered ==
    ASSUME NEW r \in SwapOps, NEW op \in r.keys
    PROVE  op \in Keys(EffectRows) /\ Covered(r.says, execute[op])
<1>1. CASE op \in {"SWAP"} \X (1 .. 16) /\ r.says = Plain(op[2] + 1, op[2] + 1, Price.GasFastestStep)
  <2>1. op \in Keys(EffectRows)
    BY <1>1, EffectKeys, LogPushEffectsKeys
  <2>2. execute[op] = Pure(op[2] + 1, 0)
    BY <1>1, <2>1, EffectOf
  <2>. QED
    BY <1>1, <2>1, <2>2, Declared, StackAssumption, PriceAssumption
       DEF Covered, StackCovered, MemoryCovered, GasCovered, minStack, maxStack, Op, Plain, Does, Pure, PriceNames,
           Kinds, CallKinds, GoesOn
<1>. QED
  BY SwapOpsRows, <1>1

\* Each entry of CallOps covers the function of its code.
LEMMA CallOpsCovered ==
    ASSUME NEW r \in CallOps, NEW op \in r.keys
    PROVE  op \in Keys(EffectRows) /\ Covered(r.says, execute[op])
<1>1. CASE op \in {"CREATE"} \X {0}
           /\ r.says = Op(3, 1, Price.CreateGas, "gasCreateEip3860", "memoryCreate")
  <2>1. op \in Keys(EffectRows)
    BY <1>1, EffectKeys, CreateEffectsKeys
  <2>2. execute[op] = Does(3, -2, {<<1, 2>>}, "always", "create")
    BY <1>1, <2>1, EffectOf
  <2>. QED
    BY <1>1, <2>1, <2>2, Declared, StackAssumption, PriceAssumption
       DEF Covered, StackCovered, MemoryCovered, GasCovered, minStack, maxStack, Op, Does, PriceNames, Kinds,
           ForMemory, Growing, Copying, Creating, Logs, CallKinds, Charging, Uses, GoesOn, WordLen, ByteLen
<1>2. CASE op \in {"CREATE2"} \X {0}
           /\ r.says = Op(4, 1, Price.Create2Gas, "gasCreate2Eip3860", "memoryCreate2")
  <2>1. op \in Keys(EffectRows)
    BY <1>2, EffectKeys, CreateEffectsKeys
  <2>2. execute[op] = Does(4, -3, {<<1, 2>>}, "always", "create2")
    BY <1>2, <2>1, EffectOf
  <2>. QED
    BY <1>2, <2>1, <2>2, Declared, StackAssumption, PriceAssumption
       DEF Covered, StackCovered, MemoryCovered, GasCovered, minStack, maxStack, Op, Does, PriceNames, Kinds,
           ForMemory, Growing, Copying, Creating, Logs, CallKinds, Charging, Uses, GoesOn, WordLen, ByteLen
<1>3. CASE op \in {"CALL"} \X {0}
           /\ r.says = Op(7, 1, Price.WarmStorageReadCost, "gasCallEIP2929", "memoryCall")
  <2>1. op \in Keys(EffectRows)
    BY <1>3, EffectKeys, CallEffectsKeys
  <2>2. execute[op] = Does(7, -6, {<<3, 4>>, <<5, 6>>}, "value", "call")
    BY <1>3, <2>1, EffectOf
  <2>. QED
    BY <1>3, <2>1, <2>2, Declared, StackAssumption, PriceAssumption
       DEF Covered, StackCovered, MemoryCovered, GasCovered, minStack, maxStack, Op, Does, PriceNames, Kinds,
           ForMemory, Growing, Copying, Creating, Logs, CallKinds, Charging, Uses, GoesOn, WordLen, ByteLen
<1>4. CASE op \in {"CALLCODE"} \X {0}
           /\ r.says = Op(7, 1, Price.WarmStorageReadCost, "gasCallCodeEIP2929", "memoryCall")
  <2>1. op \in Keys(EffectRows)
    BY <1>4, EffectKeys, CallEffectsKeys
  <2>2. execute[op] = Does(7, -6, {<<3, 4>>, <<5, 6>>}, "never", "call")
    BY <1>4, <2>1, EffectOf
  <2>. QED
    BY <1>4, <2>1, <2>2, Declared, StackAssumption, PriceAssumption
       DEF Covered, StackCovered, MemoryCovered, GasCovered, minStack, maxStack, Op, Does, PriceNames, Kinds,
           ForMemory, Growing, Copying, Creating, Logs, CallKinds, Charging, Uses, GoesOn, WordLen, ByteLen
<1>5. CASE op \in {"DELEGATECALL"} \X {0}
           /\ r.says = Op(6, 1, Price.WarmStorageReadCost, "gasDelegateCallEIP2929", "memoryDelegateCall")
  <2>1. op \in Keys(EffectRows)
    BY <1>5, EffectKeys, CallEffectsKeys
  <2>2. execute[op] = Does(6, -5, {<<2, 3>>, <<4, 5>>}, "never", "call")
    BY <1>5, <2>1, EffectOf
  <2>. QED
    BY <1>5, <2>1, <2>2, Declared, StackAssumption, PriceAssumption
       DEF Covered, StackCovered, MemoryCovered, GasCovered, minStack, maxStack, Op, Does, PriceNames, Kinds,
           ForMemory, Growing, Copying, Creating, Logs, CallKinds, Charging, Uses, GoesOn, WordLen, ByteLen
<1>6. CASE op \in {"STATICCALL"} \X {0}
           /\ r.says = Op(6, 1, Price.WarmStorageReadCost, "gasStaticCallEIP2929", "memoryStaticCall")
  <2>1. op \in Keys(EffectRows)
    BY <1>6, EffectKeys, CallEffectsKeys
  <2>2. execute[op] = Does(6, -5, {<<2, 3>>, <<4, 5>>}, "never", "call")
    BY <1>6, <2>1, EffectOf
  <2>. QED
    BY <1>6, <2>1, <2>2, Declared, StackAssumption, PriceAssumption
       DEF Covered, StackCovered, MemoryCovered, GasCovered, minStack, maxStack, Op, Does, PriceNames, Kinds,
           ForMemory, Growing, Copying, Creating, Logs, CallKinds, Charging, Uses, GoesOn, WordLen, ByteLen
<1>7. CASE op \in {"RETURN"} \X {0} /\ r.says = Op(2, 0, 0, "gasReturn", "memoryReturn")
  <2>1. op \in Keys(EffectRows)
    BY <1>7, EffectKeys, EndEffectsKeys
  <2>2. execute[op] = Does(2, -2, {<<0, 1>>}, "never", "stop")
    BY <1>7, <2>1, EffectOf
  <2>. QED
    BY <1>7, <2>1, <2>2, Declared, StackAssumption, PriceAssumption
       DEF Covered, StackCovered, MemoryCovered, GasCovered, minStack, maxStack, Op, Does, PriceNames, Kinds,
           ForMemory, Growing, Copying, Creating, Logs, CallKinds, Charging, Uses, GoesOn, WordLen, ByteLen
<1>8. CASE op \in {"REVERT"} \X {0} /\ r.says = Op(2, 0, 0, "gasRevert", "memoryRevert")
  <2>1. op \in Keys(EffectRows)
    BY <1>8, EffectKeys, EndEffectsKeys
  <2>2. execute[op] = Does(2, -2, {<<0, 1>>}, "never", "revert")
    BY <1>8, <2>1, EffectOf
  <2>. QED
    BY <1>8, <2>1, <2>2, Declared, StackAssumption, PriceAssumption
       DEF Covered, StackCovered, MemoryCovered, GasCovered, minStack, maxStack, Op, Does, PriceNames, Kinds,
           ForMemory, Growing, Copying, Creating, Logs, CallKinds, Charging, Uses, GoesOn, WordLen, ByteLen
<1>9. CASE op \in {"SELFDESTRUCT"} \X {0}
           /\ r.says = Op(1, 0, Price.SelfdestructGas, "gasSelfdestructEIP3529", "none")
  <2>1. op \in Keys(EffectRows)
    BY <1>9, EffectKeys, EndEffectsKeys
  <2>2. execute[op] = Does(1, -1, {}, "always", "stop")
    BY <1>9, <2>1, EffectOf
  <2>. QED
    BY <1>9, <2>1, <2>2, Declared, StackAssumption, PriceAssumption
       DEF Covered, StackCovered, MemoryCovered, GasCovered, minStack, maxStack, Op, Does, PriceNames, Kinds,
           ForMemory, Growing, Copying, Creating, Logs, CallKinds, Charging, Uses, GoesOn, WordLen, ByteLen
<1>10. CASE op \in {"RETURNDATACOPY"} \X {0}
            /\ r.says = Op(3, 0, Price.GasFastestStep, "gasReturnDataCopy", "memoryReturnDataCopy")
  <2>1. op \in Keys(EffectRows)
    BY <1>10, EffectKeys, InputEffectsKeys
  <2>2. execute[op] = Does(3, -3, {<<0, 2>>}, "never", "returnData")
    BY <1>10, <2>1, EffectOf
  <2>. QED
    BY <1>10, <2>1, <2>2, Declared, StackAssumption, PriceAssumption
       DEF Covered, StackCovered, MemoryCovered, GasCovered, minStack, maxStack, Op, Does, PriceNames, Kinds,
           ForMemory, Growing, Copying, Creating, Logs, CallKinds, Charging, Uses, GoesOn, WordLen, ByteLen
<1>11. CASE op \in {"SHL", "SHR", "SAR"} \X {0} /\ r.says = Plain(2, 1, Price.GasFastestStep)
  <2>1. op \in Keys(EffectRows)
    BY <1>11, EffectKeys, ModuloShiftEffectsKeys
  <2>2. execute[op] = Pure(2, -1)
    BY <1>11, <2>1, EffectOf
  <2>. QED
    BY <1>11, <2>1, <2>2, Declared, StackAssumption, PriceAssumption
       DEF Covered, StackCovered, MemoryCovered, GasCovered, minStack, maxStack, Op, Plain, Does, Pure, PriceNames,
           Kinds, CallKinds, GoesOn
<1>12. CASE op \in {"EXTCODEHASH"} \X {0}
            /\ r.says = Op(1, 1, Price.WarmStorageReadCost, "gasEip2929AccountCheck", "none")
  <2>1. op \in Keys(EffectRows)
    BY <1>12, EffectKeys, ContextEffectsKeys
  <2>2. execute[op] = Pure(1, 0)
    BY <1>12, <2>1, EffectOf
  <2>. QED
    BY <1>12, <2>1, <2>2, Declared, StackAssumption, PriceAssumption
       DEF Covered, StackCovered, MemoryCovered, GasCovered, minStack, maxStack, Op, Does, Pure, PriceNames, Kinds,
           ForMemory, Growing, Copying, Creating, Logs, CallKinds, Charging, Uses, GoesOn, WordLen, ByteLen
<1>13. CASE op \in {"RETURNDATASIZE", "CHAINID", "BASEFEE", "PUSH0"} \X {0}
            /\ r.says = Plain(0, 1, Price.GasQuickStep)
  <2>1. op \in Keys(EffectRows)
    BY <1>13, EffectKeys, InputEffectsKeys, EipEffectsKeys
  <2>2. execute[op] = Pure(0, 1)
    BY <1>13, <2>1, EffectOf
  <2>. QED
    BY <1>13, <2>1, <2>2, Declared, StackAssumption, PriceAssumption
       DEF Covered, StackCovered, MemoryCovered, GasCovered, minStack, maxStack, Op, Plain, Does, Pure, PriceNames,
           Kinds, CallKinds, GoesOn
<1>14. CASE op \in {"SELFBALANCE"} \X {0} /\ r.says = Plain(0, 1, Price.GasFastStep)
  <2>1. op \in Keys(EffectRows)
    BY <1>14, EffectKeys, EipEffectsKeys
  <2>2. execute[op] = Pure(0, 1)
    BY <1>14, <2>1, EffectOf
  <2>. QED
    BY <1>14, <2>1, <2>2, Declared, StackAssumption, PriceAssumption
       DEF Covered, StackCovered, MemoryCovered, GasCovered, minStack, maxStack, Op, Plain, Does, Pure, PriceNames,
           Kinds, CallKinds, GoesOn
<1>15. CASE op \in {"LOG"} \X (0 .. 4) /\ r.says = Op(op[2] + 2, 0, 0, makeGasLogs[op[2] + 1], "memoryLog")
  <2>1. op \in Keys(EffectRows)
    BY <1>15, EffectKeys, LogPushEffectsKeys
  <2>2. execute[op] = Does(op[2] + 2, 0 - (op[2] + 2), {<<0, 1>>}, "always", "next")
    BY <1>15, <2>1, EffectOf
  <2>3. op[2] \in 0 .. 4 /\ makeGasLogs[op[2] + 1] \in Logs
    BY <1>15 DEF makeGasLogs, Logs
  <2>4. StackCovered(r.says, execute[op])
    BY <1>15, <2>2, <2>3, StackAssumption DEF StackCovered, Op, Does, minStack, maxStack
  <2>5. MemoryCovered(r.says, execute[op])
    <3>1. r.says.memorySize = "memoryLog" /\ r.says.dynamicGas \in Logs /\ execute[op].spans = {<<0, 1>>}
      BY <1>15, <2>2, <2>3 DEF Op, Does
    <3>2. r.says.dynamicGas \in ForMemory /\ Uses(r.says.dynamicGas) = {1}
      BY <3>1 DEF ForMemory, Uses, Logs, Copying, Creating
    <3>. QED
      BY <3>1, <3>2, Declared DEF MemoryCovered
  <2>6. GasCovered(r.says, execute[op])
    <3>1. r.says.constantGas = 0 /\ r.says.dynamicGas \in Logs /\ execute[op].then = "next"
      BY <1>15, <2>2, <2>3 DEF Op, Does
    <3>2. r.says.dynamicGas \in Kinds /\ r.says.dynamicGas \in Charging /\ r.says.dynamicGas \notin CallKinds
      BY <3>1 DEF Kinds, Charging, CallKinds, Logs
    <3>. QED
      BY <3>1, <3>2 DEF GasCovered, GoesOn
  <2>. QED
    BY <2>1, <2>4, <2>5, <2>6 DEF Covered
<1>. QED
  BY CallOpsRows, <1>1, <1>2, <1>3, <1>4, <1>5, <1>6, <1>7, <1>8, <1>9, <1>10, <1>11, <1>12, <1>13, <1>14, <1>15

-----------------------------------------------------------------------------
(* 2. The gas.                                                               *)

\* Division.
LEMMA Quotient ==
    ASSUME NEW a \in Int, NEW b \in Nat \ {0}
    PROVE  /\ a \div b \in Int /\ b * (a \div b) <= a /\ a < b * (a \div b) + b
           /\ a >= 0 => a \div b \in 0 .. a
OBVIOUS

\* A greater dividend has no smaller quotient.
LEMMA QuotientMonotone ==
    ASSUME NEW a \in Int, NEW c \in Int, NEW b \in Nat \ {0}, a <= c
    PROVE  a \div b <= c \div b
<1>1. SUFFICES ASSUME a \div b >= c \div b + 1 PROVE FALSE
  BY Quotient
<1>2. b * (a \div b) >= b * (c \div b + 1)
  BY <1>1, Quotient
<1>. QED
  BY <1>2, Quotient

\* Greater factors have no smaller product.
LEMMA ProductMonotone ==
    ASSUME NEW a \in Nat, NEW b \in Nat, NEW c \in Nat, NEW d \in Nat, a <= c, b <= d
    PROVE  a * b <= c * d
OBVIOUS

\* The widths are positive.
LEMMA WrapPositive ==
    /\ Root \in Nat \ {0} /\ WordBytes \in Nat \ {0} /\ CallShare \in Nat \ {0}
    /\ Wrap \in Nat \ {0} /\ Highest \in Nat /\ Fails = Wrap
<1>1. Root * Root \in Nat \ {0} /\ WordBytes * (Root - 1) \in Nat
  BY GasAssumption
<1>. QED
  BY <1>1, GasAssumption DEF Wrap, Highest, Fails

\* A sum that does not overflow is the sum.
LEMMA SafeAddLemma ==
    ASSUME NEW a \in Nat, NEW b \in Nat
    PROVE  /\ SafeAdd(a, b) \in 0 .. Wrap
           /\ SafeAdd(a, b) < Wrap => SafeAdd(a, b) = a + b
           /\ SafeAdd(a, b) >= a \/ a > Wrap
BY WrapPositive DEF SafeAdd

\* A product that does not overflow is the product.
LEMMA SafeMulLemma ==
    ASSUME NEW a \in Nat, NEW b \in Nat
    PROVE  /\ SafeMul(a, b) \in 0 .. Wrap
           /\ SafeMul(a, b) < Wrap => SafeMul(a, b) = a * b
<1>1. a * b \in Nat
  OBVIOUS
<1>. QED
  BY <1>1, WrapPositive DEF SafeMul

\* Memory is counted in words, and their fee grows with them.
LEMMA Words ==
    ASSUME NEW size \in Nat
    PROVE  /\ toWordSize(size) \in Nat
           /\ size <= toWordSize(size) * WordBytes
           /\ size <= Highest => toWordSize(size) <= Root - 1
           /\ \A more \in Nat : size <= more => toWordSize(size) <= toWordSize(more)
<1>1. size + WordBytes - 1 \in Nat /\ toWordSize(size) = (size + WordBytes - 1) \div WordBytes
  BY WrapPositive DEF toWordSize
<1>2. toWordSize(size) \in Nat /\ WordBytes * toWordSize(size) <= size + WordBytes - 1
      /\ size + WordBytes - 1 < WordBytes * toWordSize(size) + WordBytes
  BY <1>1, Quotient, WrapPositive
<1>3. WordBytes * toWordSize(size) = toWordSize(size) * WordBytes
  BY <1>2, WrapPositive
<1>4. ASSUME size <= Highest, toWordSize(size) >= Root PROVE FALSE
  <2>1. WordBytes * toWordSize(size) >= WordBytes * Root
    BY <1>2, <1>4, ProductMonotone, WrapPositive
  <2>2. WordBytes * (Root - 1) = WordBytes * Root - WordBytes
    BY WrapPositive
  <2>. QED
    BY <1>2, <1>4, <2>1, <2>2, WrapPositive DEF Highest
<1>5. ASSUME NEW more \in Nat, size <= more PROVE toWordSize(size) <= toWordSize(more)
  BY <1>5, QuotientMonotone, WrapPositive DEF toWordSize
<1>. QED
  BY <1>2, <1>3, <1>4, <1>5, WrapPositive

MaxFee == (Root - 1) * Price.MemoryGas + ((Root - 1) * (Root - 1)) \div Price.QuadCoeffDiv
Fee(words) == words * Price.MemoryGas + (words * words) \div Price.QuadCoeffDiv

\* The base of a call is far from what wraps.
LEMMA Constants ==
    /\ MaxFee \in Nat /\ MaxBase = MaxFee + Price.CallNewAccountGas + Price.CallValueTransferGas
    /\ MaxBase \in Nat /\ MaxBase + Price.ColdAccountAccessCost <= (Wrap - MaxBase) \div CallShare
    /\ MaxBase + Price.ColdAccountAccessCost <= Wrap - MaxBase
<1>1. Price.MemoryGas \in Nat \ {0} /\ Price.QuadCoeffDiv \in Nat \ {0} /\ Price.CallNewAccountGas \in Nat \ {0}
      /\ Price.CallValueTransferGas \in Nat \ {0} /\ Price.ColdAccountAccessCost \in Nat \ {0}
  BY Prices DEF PriceNames
<1>2. (Root - 1) * Price.MemoryGas \in Nat /\ (Root - 1) * (Root - 1) \in Nat
  BY <1>1, WrapPositive
<1>3. MaxFee \in Nat
  BY <1>1, <1>2, Quotient DEF MaxFee
<1>4. MaxBase = MaxFee + Price.CallNewAccountGas + Price.CallValueTransferGas
  BY DEF MaxBase, MaxFee
<1>5. MaxBase \in Nat
  BY <1>1, <1>3, <1>4
<1>6. Wrap - MaxBase \in Int
  BY <1>5, WrapPositive
<1>7. (Wrap - MaxBase) \div CallShare >= 1
  BY <1>1, <1>5, <1>6, BaseAssumption, Quotient, WrapPositive
<1>8. CallShare * ((Wrap - MaxBase) \div CallShare) >= (Wrap - MaxBase) \div CallShare
  BY <1>6, <1>7, Quotient, WrapPositive
<1>9. Wrap - MaxBase >= (Wrap - MaxBase) \div CallShare
  BY <1>6, <1>8, Quotient, WrapPositive
<1>10. Wrap - MaxBase >= 1
  BY <1>6, <1>7, <1>9, Quotient, WrapPositive
<1>. QED
  BY <1>1, <1>3, <1>4, <1>5, <1>6, <1>9, BaseAssumption, Quotient, WrapPositive

\* No product wraps in the fee of the memory there may be, and the fee grows.
LEMMA FeeOfWords ==
    ASSUME NEW words \in 0 .. Root - 1
    PROVE  /\ TotalFee(words) = Fee(words) /\ Fee(words) \in 0 .. MaxFee
           /\ \A more \in 0 .. Root - 1 : words <= more => Fee(words) <= Fee(more)
<1>1. Price.MemoryGas \in Nat \ {0} /\ Price.QuadCoeffDiv \in Nat \ {0} /\ Price.ColdAccountAccessCost \in Nat \ {0}
      /\ Price.CallNewAccountGas \in Nat \ {0} /\ Price.CallValueTransferGas \in Nat \ {0}
  BY Prices DEF PriceNames
<1>2. ASSUME NEW w \in 0 .. Root - 1
      PROVE  w * w \in Nat /\ w * Price.MemoryGas \in Nat /\ (w * w) \div Price.QuadCoeffDiv \in Nat /\ Fee(w) \in Nat
  <2>1. w * w \in Nat /\ w * Price.MemoryGas \in Nat
    BY <1>1
  <2>2. \A a \in Nat : a \div Price.QuadCoeffDiv \in Nat
    BY <1>1
  <2>3. (w * w) \div Price.QuadCoeffDiv \in Nat
    BY <2>1, <2>2
  <2>. QED
    BY <2>1, <2>3 DEF Fee
<1>3. ASSUME NEW w \in 0 .. Root - 1, NEW v \in 0 .. Root - 1, w <= v
      PROVE  Fee(w) <= Fee(v)
  <2>1. w * Price.MemoryGas <= v * Price.MemoryGas /\ w * w <= v * v
    BY <1>1, <1>3, ProductMonotone
  <2>2. \A a, c \in Nat : a <= c => a \div Price.QuadCoeffDiv <= c \div Price.QuadCoeffDiv
    BY <1>1, QuotientMonotone
  <2>3. w * w \in Nat /\ v * v \in Nat
    BY <1>2
  <2>4. (w * w) \div Price.QuadCoeffDiv <= (v * v) \div Price.QuadCoeffDiv
    BY <2>1, <2>2, <2>3
  <2>. QED
    BY <1>2, <2>1, <2>4 DEF Fee
<1>4. Fee(Root - 1) = MaxFee /\ Root - 1 \in 0 .. Root - 1
  BY WrapPositive DEF Fee, MaxFee
<1>5. Fee(words) \in 0 .. MaxFee
  BY <1>2, <1>3, <1>4, Constants
<1>6. words * words < Wrap
  <2>1. words * words <= (Root - 1) * (Root - 1)
    BY ProductMonotone, WrapPositive
  <2>2. (Root - 1) * (Root - 1) < Root * Root
    BY WrapPositive
  <2>3. words * words \in Nat /\ (Root - 1) * (Root - 1) \in Nat /\ Root * Root \in Nat
    BY WrapPositive
  <2>. QED
    BY <2>1, <2>2, <2>3 DEF Wrap
<1>7. (words * words) % Wrap = words * words
  BY <1>2, <1>6, WrapPositive
<1>8. MaxFee < Wrap
  BY <1>1, Constants, WrapPositive
<1>9. Fee(words) % Wrap = Fee(words)
  BY <1>5, <1>8, Constants, WrapPositive
<1>10. TotalFee(words) = Fee(words)
  BY <1>7, <1>9 DEF TotalFee, Fee
<1>. QED
  BY <1>3, <1>5, <1>10

\* What has been paid for the memory there is.
MemoryPaid == mem \in 0 .. Highest /\ lastGasCost = TotalFee(toWordSize(mem))

\* The cost of growing the memory: a difference of two fees, or a failure.
LEMMA MemoryGasCost ==
    ASSUME MemoryPaid, NEW size \in Nat
    PROVE  /\ memoryGasCost(size) \in (0 .. MaxFee) \cup {Fails}
           /\ memoryGasCost(size) # Fails => size <= Highest
<1>1. MaxFee < Wrap /\ MaxFee \in Nat
  <2>1. /\ Price.CallNewAccountGas \in Nat /\ Price.CallValueTransferGas \in Nat
        /\ Price.ColdAccountAccessCost \in Nat \ {0}
    BY Prices DEF PriceNames
  <2>. QED
    BY <2>1, Constants, WrapPositive
<1>2. CASE size > Highest
  BY <1>2 DEF memoryGasCost
<1>3. CASE size <= mem
  BY <1>1, <1>3, WrapPositive DEF memoryGasCost, MemoryPaid
<1>4. CASE size <= Highest /\ size > mem
  <2>1. mem \in Nat /\ mem <= Highest
    BY WrapPositive DEF MemoryPaid
  <2>2. toWordSize(mem) \in 0 .. Root - 1 /\ toWordSize(size) \in 0 .. Root - 1 /\ toWordSize(mem) <= toWordSize(size)
    BY <1>4, <2>1, Words, WrapPositive
  <2>3. TotalFee(toWordSize(mem)) \in 0 .. MaxFee /\ TotalFee(toWordSize(size)) \in 0 .. MaxFee
        /\ TotalFee(toWordSize(mem)) <= TotalFee(toWordSize(size))
    BY <2>2, FeeOfWords
  <2>4. TotalFee(toWordSize(size)) - lastGasCost \in 0 .. MaxFee
    BY <1>1, <2>3 DEF MemoryPaid
  <2>5. (TotalFee(toWordSize(size)) - lastGasCost) % Wrap = TotalFee(toWordSize(size)) - lastGasCost
    BY <1>1, <2>4, WrapPositive
  <2>6. memoryGasCost(size) = TotalFee(toWordSize(size)) - lastGasCost
    BY <1>4, <2>1, <2>5, WrapPositive DEF memoryGasCost
  <2>. QED
    BY <1>1, <1>4, <2>4, <2>6
<1>. QED
  BY <1>2, <1>3, <1>4, WrapPositive DEF MemoryPaid

\* The surcharge of an address.
LEMMA ColdCost ==
    ASSUME NEW addr
    PROVE  coldCost(addr) \in 0 .. Price.ColdAccountAccessCost
<1>1. Price.ColdAccountAccessCost \in Nat /\ Price.WarmStorageReadCost \in Nat
  BY Prices DEF PriceNames
<1>. QED
  BY <1>1, GasAssumption DEF coldCost

\* The value a call transfers is paid for.
Transfer(kind, args) ==
    IF kind \in {"gasCallEIP2929", "gasCallCodeEIP2929"} /\ args[2] # 0 THEN Price.CallValueTransferGas ELSE 0

\* A base that is no failure contains the price of a transfer and pays for the memory.
LEMMA CallBase ==
    ASSUME MemoryPaid, NEW kind, NEW args, NEW size \in Nat, callBase(kind, args, size) # Fails
    PROVE  /\ callBase(kind, args, size) \in Nat /\ callBase(kind, args, size) <= MaxBase
           /\ Transfer(kind, args) \in Nat /\ Transfer(kind, args) <= callBase(kind, args, size)
           /\ size <= Highest
<1>. DEFINE new == IF /\ kind \in {"gasCallEIP2929", "gasCallCodeEIP2929"} /\ args[2] # 0
                      /\ kind = "gasCallEIP2929" /\ args[1] = Nobody
                   THEN Price.CallNewAccountGas ELSE 0
<1>1. Price.CallNewAccountGas \in Nat /\ Price.CallValueTransferGas \in Nat
  BY Prices DEF PriceNames
<1>2. new \in 0 .. Price.CallNewAccountGas /\ Transfer(kind, args) \in 0 .. Price.CallValueTransferGas
  BY <1>1 DEF Transfer
<1>3. callBase(kind, args, size) = SafeAdd(new + Transfer(kind, args), memoryGasCost(size))
  BY DEF callBase, Transfer
<1>4. memoryGasCost(size) \in Nat /\ (memoryGasCost(size) # Fails => memoryGasCost(size) <= MaxFee /\ size <= Highest)
  BY MemoryGasCost, Constants, WrapPositive
<1>. HIDE DEF new
<1>5. SafeAdd(new + Transfer(kind, args), memoryGasCost(size)) < Wrap
  <2>1. new + Transfer(kind, args) \in Nat
    BY <1>1, <1>2
  <2>2. SafeAdd(new + Transfer(kind, args), memoryGasCost(size)) \in 0 .. Wrap
    BY <1>4, <2>1, SafeAddLemma
  <2>. QED
    BY <1>3, <2>2, WrapPositive
<1>6. callBase(kind, args, size) = new + Transfer(kind, args) + memoryGasCost(size) /\ memoryGasCost(size) < Wrap
  <2>1. new + Transfer(kind, args) \in Nat
    BY <1>1, <1>2
  <2>2. SafeAdd(new + Transfer(kind, args), memoryGasCost(size)) = new + Transfer(kind, args) + memoryGasCost(size)
    BY <1>4, <1>5, <2>1, SafeAddLemma
  <2>. QED
    BY <1>3, <1>4, <1>5, <2>1, <2>2, WrapPositive
<1>. QED
  BY <1>1, <1>2, <1>4, <1>6, Constants, WrapPositive

\* callGas keeps one part in CallShare of the rest, which may have wrapped.
LEMMA CallGas ==
    ASSUME NEW available \in Int, NEW base \in Nat, NEW requested \in Nat
    PROVE  LET rest == (available - base) % Wrap
           IN  /\ rest \in 0 .. Wrap - 1 /\ rest \div CallShare \in 0 .. rest
               /\ callGas(available, base, requested) \in 0 .. rest - rest \div CallShare
<1>. DEFINE rest == (available - base) % Wrap
<1>1. rest \in 0 .. Wrap - 1
  BY WrapPositive
<1>. HIDE DEF rest
<1>2. rest \div CallShare \in 0 .. rest
  BY <1>1, Quotient, WrapPositive
<1>3. callGas(available, base, requested) \in {rest - rest \div CallShare, requested}
      /\ callGas(available, base, requested) <= rest - rest \div CallShare
  BY <1>1, <1>2 DEF callGas, rest
<1>4. callGas(available, base, requested) \in 0 .. rest - rest \div CallShare
  BY <1>1, <1>2, <1>3
<1>. QED
  BY <1>1, <1>2, <1>4 DEF rest

\* What a call costs contains what its callee is given: the sum does not wrap,
\* even when the caller has less than the base and what it could give does.
LEMMA CallCost ==
    ASSUME MemoryPaid, NEW kind, NEW args, args[0] \in Nat, NEW size \in Nat, NEW budget \in 0 .. Wrap - 1,
           makeCallVariantGasCallEIP2929(kind, args, size, budget) <= budget
    PROVE  /\ size <= Highest /\ calleeGas(kind, args, size, budget) \in Nat /\ Transfer(kind, args) \in Nat
           /\ makeCallVariantGasCallEIP2929(kind, args, size, budget) \in Nat
           /\ calleeGas(kind, args, size, budget) + Transfer(kind, args)
              <= makeCallVariantGasCallEIP2929(kind, args, size, budget)
<1>. DEFINE base == callBase(kind, args, size)
            callee == calleeGas(kind, args, size, budget)
            cold == coldCost(args[1])
            total == SafeAdd(base, callee)
            rest == (budget - cold - base) % Wrap
            cost == makeCallVariantGasCallEIP2929(kind, args, size, budget)
<1>1. budget >= cold /\ base # Fails /\ total # Fails /\ cost = (total + cold) % Wrap
  <2>1. cost = IF budget < cold \/ base = Fails \/ total = Fails THEN Fails ELSE (total + cold) % Wrap
    BY DEF makeCallVariantGasCallEIP2929
  <2>2. cold \in Nat
    BY ColdCost, Prices DEF PriceNames
  <2>. HIDE DEF cold, base, total
  <2>3. cost # Fails
    BY WrapPositive
  <2>. QED
    BY <2>1, <2>2, <2>3
<1>2. base \in 0 .. MaxBase /\ size <= Highest /\ Transfer(kind, args) \in 0 .. base
  BY <1>1, CallBase, Constants
<1>3. cold \in 0 .. Price.ColdAccountAccessCost /\ Price.ColdAccountAccessCost \in Nat
  BY ColdCost, Prices DEF PriceNames
<1>4. callee = callGas(budget - cold, base, args[0])
  BY DEF calleeGas
<1>. HIDE DEF base, callee, cold, cost
<1>5. rest \in 0 .. Wrap - 1 /\ rest \div CallShare \in 0 .. rest /\ callee \in 0 .. rest - rest \div CallShare
  <2>1. budget - cold \in Int /\ base \in Nat
    BY <1>2, <1>3, Constants, WrapPositive
  <2>. QED
    BY <1>4, <2>1, CallGas
<1>. HIDE DEF rest
<1>6. /\ callee \in Nat /\ base \in Nat /\ budget \in Nat /\ cold \in Nat /\ rest \in Nat
      /\ base < Wrap /\ rest \div CallShare \in Nat
  BY <1>2, <1>3, <1>5, Constants, WrapPositive
<1>7. total = base + callee /\ total < Wrap
  <2>1. total \in 0 .. Wrap
    BY <1>6, SafeAddLemma
  <2>2. total < Wrap
    BY <1>1, <2>1, WrapPositive
  <2>. QED
    BY <1>6, <2>2, SafeAddLemma
<1>8. total + cold < Wrap
  <2>1. CASE budget - cold >= base
    <3>1. rest = budget - cold - base
      BY <1>6, <2>1, WrapPositive DEF rest
    <3>. QED
      BY <1>5, <1>6, <1>7, <3>1, WrapPositive
  <2>2. CASE budget - cold < base
    <3>1. rest = budget - cold - base + Wrap
      <4>1. budget - cold - base \in Int /\ budget - cold - base < 0 /\ budget - cold - base + Wrap >= 0
        BY <1>1, <1>6, <2>2, WrapPositive
      <4>2. \A x \in Int : x < 0 /\ x + Wrap >= 0 => x % Wrap = x + Wrap
        BY WrapPositive
      <4>. QED
        BY <4>1, <4>2 DEF rest
    <3>2. rest >= Wrap - MaxBase
      BY <1>1, <1>2, <1>6, <3>1, Constants, WrapPositive
    <3>3. (Wrap - MaxBase) \div CallShare <= rest \div CallShare
      <4>1. Wrap - MaxBase \in Int /\ rest \in Int
        BY <1>6, Constants, WrapPositive
      <4>. QED
        BY <3>2, <4>1, QuotientMonotone, WrapPositive
    <3>4. budget < rest \div CallShare
      <4>1. budget < MaxBase + Price.ColdAccountAccessCost
        BY <1>2, <1>3, <1>6, <2>2, Constants
      <4>2. (Wrap - MaxBase) \div CallShare \in Int
        BY Constants, Quotient, WrapPositive
      <4>. QED
        BY <1>3, <1>6, <3>3, <4>1, <4>2, Constants
    <3>. QED
      BY <1>5, <1>6, <1>7, <3>1, <3>4, WrapPositive
  <2>. QED
    BY <1>6, <2>1, <2>2
<1>9. cost = base + callee + cold
  <2>1. total + cold \in 0 .. Wrap - 1
    BY <1>6, <1>7, <1>8, WrapPositive
  <2>2. (total + cold) % Wrap = total + cold
    BY <2>1, WrapPositive
  <2>. QED
    BY <1>1, <1>6, <1>7, <2>2
<1>10. /\ size <= Highest /\ callee \in Nat /\ Transfer(kind, args) \in Nat /\ cost \in Nat
       /\ callee + Transfer(kind, args) <= cost
  BY <1>2, <1>6, <1>9, Constants
<1>. QED
  BY <1>10 DEF callee, cost

\* The dynamic gas, function by function.
LEMMA DynamicGasOf ==
    ASSUME NEW kind, NEW args, NEW size, NEW budget
    PROVE  LET cost == dynamicGas(kind, args, size, budget)
           IN  /\ kind = "none" => cost = 0
               /\ kind \in Growing => cost = memoryGasCost(size)
               /\ kind \in Copying => cost = memoryCopierGas(size, args[2])
               /\ kind = "gasExtCodeCopyEIP2929" => cost = SafeAdd(memoryCopierGas(size, args[3]), coldCost(args[0]))
               /\ kind = "gasKeccak256" => cost = gasKeccak256(size, args[1])
               /\ kind = "gasExpEIP158" => cost = gasExpEIP158(args[1])
               /\ kind = "gasCreateEip3860" => cost = gasCreateEip3860(size, args[2], Price.InitCodeWordGas)
               /\ kind = "gasCreate2Eip3860" =>
                     cost = gasCreateEip3860(size, args[2], Price.InitCodeWordGas + Price.Keccak256WordGas)
               /\ kind = "gasEip2929AccountCheck" => cost = coldCost(args[0])
               /\ kind = "gasSLoadEIP2929" => cost = gasSLoadEIP2929
               /\ kind = "gasSStoreEIP3529" => cost = gasSStoreEIP3529(budget, args[1])
               /\ kind = "gasSelfdestructEIP3529" => cost = gasSelfdestructEIP3529(args[0])
               /\ kind \in CallKinds => cost = makeCallVariantGasCallEIP2929(kind, args, size, budget)
               /\ kind \in Logs => cost = makeGasLog(Topics(kind), size, args[1])
<1>1. kind = "none" => dynamicGas(kind, args, size, budget) = 0
  BY DEF dynamicGas, CallKinds
<1>2. kind \in Growing => dynamicGas(kind, args, size, budget) = memoryGasCost(size)
  BY DEF dynamicGas, CallKinds, Growing
<1>3. kind \in Copying => dynamicGas(kind, args, size, budget) = memoryCopierGas(size, args[2])
  BY DEF dynamicGas, CallKinds, Copying
<1>4. kind = "gasExtCodeCopyEIP2929" =>
        dynamicGas(kind, args, size, budget) = SafeAdd(memoryCopierGas(size, args[3]), coldCost(args[0]))
  BY DEF dynamicGas, CallKinds
<1>5. kind = "gasKeccak256" => dynamicGas(kind, args, size, budget) = gasKeccak256(size, args[1])
  BY DEF dynamicGas, CallKinds
<1>6. kind = "gasExpEIP158" => dynamicGas(kind, args, size, budget) = gasExpEIP158(args[1])
  BY DEF dynamicGas, CallKinds
<1>7. kind = "gasCreateEip3860" =>
        dynamicGas(kind, args, size, budget) = gasCreateEip3860(size, args[2], Price.InitCodeWordGas)
  BY DEF dynamicGas, CallKinds
<1>8. kind = "gasCreate2Eip3860" =>
        dynamicGas(kind, args, size, budget)
          = gasCreateEip3860(size, args[2], Price.InitCodeWordGas + Price.Keccak256WordGas)
  BY DEF dynamicGas, CallKinds
<1>9. kind = "gasEip2929AccountCheck" => dynamicGas(kind, args, size, budget) = coldCost(args[0])
  BY DEF dynamicGas, CallKinds
<1>10. kind = "gasSLoadEIP2929" => dynamicGas(kind, args, size, budget) = gasSLoadEIP2929
  BY DEF dynamicGas, CallKinds
<1>11. kind = "gasSStoreEIP3529" => dynamicGas(kind, args, size, budget) = gasSStoreEIP3529(budget, args[1])
  BY DEF dynamicGas, CallKinds
<1>12. kind = "gasSelfdestructEIP3529" => dynamicGas(kind, args, size, budget) = gasSelfdestructEIP3529(args[0])
  BY DEF dynamicGas, CallKinds
<1>13. kind \in CallKinds =>
        dynamicGas(kind, args, size, budget) = makeCallVariantGasCallEIP2929(kind, args, size, budget)
  BY DEF dynamicGas, CallKinds
<1>14. kind \in Logs => dynamicGas(kind, args, size, budget) = makeGasLog(Topics(kind), size, args[1])
  BY DEF dynamicGas, CallKinds, Logs
<1>. QED
  BY <1>1, <1>2, <1>3, <1>4, <1>5, <1>6, <1>7, <1>8, <1>9, <1>10, <1>11, <1>12, <1>13, <1>14

\* The operands looked at, function by function.
LEMMA UsesOf ==
    ASSUME NEW kind
    PROVE  /\ kind \in Copying \cup Creating => 2 \in Uses(kind)
           /\ kind = "gasExtCodeCopyEIP2929" => 0 \in Uses(kind) /\ 3 \in Uses(kind)
           /\ kind \in Logs \cup {"gasKeccak256", "gasExpEIP158", "gasSStoreEIP3529"} => 1 \in Uses(kind)
           /\ kind \in {"gasEip2929AccountCheck", "gasSelfdestructEIP3529"} => 0 \in Uses(kind)
           /\ kind \in CallKinds => 0 \in Uses(kind) /\ 1 \in Uses(kind)
           /\ kind \in {"gasCallEIP2929", "gasCallCodeEIP2929"} => 2 \in Uses(kind)
BY DEF Uses, Copying, Creating, Logs, CallKinds

\* What an instruction costs that the contract can pay.
Paid(kind, size, budget, cost) ==
    /\ cost \in Nat
    /\ kind \in ForMemory => size <= Highest
    /\ kind \in Charging => cost > 0
    /\ kind = "gasSStoreEIP3529" => budget > Price.SstoreSentryGas

\* An instruction that can be paid has a cost that pays for the memory it grows to,
\* and one that is always charged is not free.
LEMMA DynamicGas ==
    ASSUME MemoryPaid, NEW kind \in Kinds, NEW args, \A n \in Uses(kind) : args[n] \in Nat, NEW size \in Nat,
           NEW budget \in 0 .. Wrap - 1, dynamicGas(kind, args, size, budget) <= budget
    PROVE  Paid(kind, size, budget, dynamicGas(kind, args, size, budget))
<1>. DEFINE cost == dynamicGas(kind, args, size, budget)
            grow == memoryGasCost(size)
<1>1. grow \in Nat /\ (grow < Wrap => size <= Highest)
  BY MemoryGasCost, Constants, WrapPositive
<1>2. budget \in Nat /\ budget < Wrap
  BY WrapPositive
<1>3. \A a, b \in Nat : SafeAdd(a, b) \in Nat /\ (SafeAdd(a, b) <= budget => SafeAdd(a, b) = a + b /\ a <= budget)
  <2>1. ASSUME NEW a \in Nat, NEW b \in Nat
        PROVE  SafeAdd(a, b) \in Nat /\ (SafeAdd(a, b) <= budget => SafeAdd(a, b) = a + b /\ a <= budget)
    <3>1. SafeAdd(a, b) \in 0 .. Wrap /\ (SafeAdd(a, b) < Wrap => SafeAdd(a, b) = a + b)
      BY SafeAddLemma
    <3>. QED
      BY <1>2, <3>1, WrapPositive
  <2>. QED
    BY <2>1
<1>4. \A n, price \in Nat : WordGas(n, price) \in Nat
  <2>1. ASSUME NEW n \in Nat, NEW price \in Nat PROVE WordGas(n, price) \in Nat
    <3>1. toWordSize(n) \in Nat
      BY Words
    <3>2. SafeMul(toWordSize(n), price) \in 0 .. Wrap
      BY <3>1, SafeMulLemma
    <3>. QED
      BY <3>2, WrapPositive DEF WordGas
  <2>. QED
    BY <2>1
<1>5. \A p \in PriceNames : Price[p] \in Nat /\ Price[p] > 0
  BY Prices
<1>6. \A addr : coldCost(addr) \in Nat
  BY ColdCost, Prices DEF PriceNames
<1>7. \A n \in Nat : toWordSize(n) \in Nat
  BY Words
<1>. HIDE DEF grow
<1>8. CASE kind = "none" \/ kind \in {"gasEip2929AccountCheck", "gasSelfdestructEIP3529"}
  <2>1. cost = 0 \/ cost = coldCost(args[0]) \/ cost = gasSelfdestructEIP3529(args[0])
    BY <1>8, DynamicGasOf
  <2>2. gasSelfdestructEIP3529(args[0]) \in Nat
    BY <1>5 DEF gasSelfdestructEIP3529, PriceNames
  <2>3. cost \in Nat
    BY <1>6, <2>1, <2>2
  <2>4. kind \notin ForMemory \cup Charging
    BY <1>8 DEF ForMemory, Charging, Growing, Copying, Creating, Logs, CallKinds
  <2>. QED
    BY <1>8, <2>3, <2>4 DEF Paid
<1>9. CASE kind \in Growing
  <2>1. cost = grow
    BY <1>9, DynamicGasOf DEF grow
  <2>2. kind \notin Charging
    BY <1>9 DEF Charging, Growing, Logs
  <2>. QED
    BY <1>1, <1>2, <1>9, <2>1, <2>2, WrapPositive DEF Paid, Growing
<1>10. CASE kind \in Copying \cup {"gasExtCodeCopyEIP2929", "gasKeccak256"}
  <2>1. PICK n \in Nat, price \in Nat, more \in Nat :
          cost = SafeAdd(grow, WordGas(n, price)) \/ cost = SafeAdd(SafeAdd(grow, WordGas(n, price)), more)
    <3>1. CASE kind \in Copying
      <4>1. cost = SafeAdd(grow, WordGas(args[2], Price.CopyGas)) /\ args[2] \in Nat /\ Price.CopyGas \in Nat
        BY <1>5, <3>1, DynamicGasOf, UsesOf DEF memoryCopierGas, PriceNames, grow
      <4>. QED
        BY <4>1
    <3>2. CASE kind = "gasExtCodeCopyEIP2929"
      <4>1. /\ cost = SafeAdd(SafeAdd(grow, WordGas(args[3], Price.CopyGas)), coldCost(args[0]))
            /\ args[3] \in Nat /\ Price.CopyGas \in Nat /\ coldCost(args[0]) \in Nat
        BY <1>5, <1>6, <3>2, DynamicGasOf, UsesOf DEF memoryCopierGas, PriceNames, grow
      <4>. QED
        BY <4>1
    <3>3. CASE kind = "gasKeccak256"
      <4>1. /\ cost = SafeAdd(grow, WordGas(args[1], Price.Keccak256WordGas))
            /\ args[1] \in Nat /\ Price.Keccak256WordGas \in Nat
        BY <1>5, <3>3, DynamicGasOf, UsesOf DEF gasKeccak256, PriceNames, grow
      <4>. QED
        BY <4>1
    <3>. QED
      BY <1>10, <3>1, <3>2, <3>3
  <2>2. /\ WordGas(n, price) \in Nat
        /\ SafeAdd(grow, WordGas(n, price)) \in Nat
        /\ SafeAdd(grow, WordGas(n, price)) <= budget => grow <= budget
        /\ SafeAdd(SafeAdd(grow, WordGas(n, price)), more) \in Nat
        /\ SafeAdd(SafeAdd(grow, WordGas(n, price)), more) <= budget => SafeAdd(grow, WordGas(n, price)) <= budget
    <3>1. WordGas(n, price) \in Nat
      BY <1>4
    <3>2. SafeAdd(grow, WordGas(n, price)) \in Nat
          /\ (SafeAdd(grow, WordGas(n, price)) <= budget => grow <= budget)
      BY <1>1, <1>3, <3>1
    <3>3. SafeAdd(SafeAdd(grow, WordGas(n, price)), more) \in Nat
          /\ (SafeAdd(SafeAdd(grow, WordGas(n, price)), more) <= budget => SafeAdd(grow, WordGas(n, price)) <= budget)
      BY <1>3, <3>2
    <3>. QED
      BY <3>1, <3>2, <3>3
  <2>3. cost <= budget
    BY DEF cost
  <2>4. cost \in Nat /\ grow <= budget
    BY <2>1, <2>2, <2>3
  <2>5. kind \notin Charging /\ kind # "gasSStoreEIP3529"
    BY <1>10 DEF Charging, Copying, Logs
  <2>. QED
    BY <1>1, <1>2, <2>4, <2>5, WrapPositive DEF Paid
<1>11. CASE kind = "gasExpEIP158"
  <2>1. cost = SafeAdd(args[1] * Price.ExpByte, Price.ExpGas) /\ args[1] \in Nat
    BY <1>11, DynamicGasOf, UsesOf DEF gasExpEIP158
  <2>2. args[1] * Price.ExpByte \in Nat /\ Price.ExpGas \in Nat /\ Price.ExpGas > 0
    BY <1>5, <2>1 DEF PriceNames
  <2>3. cost = args[1] * Price.ExpByte + Price.ExpGas
    BY <1>3, <2>1, <2>2
  <2>4. cost \in Nat /\ cost > 0
    BY <2>2, <2>3
  <2>5. kind \notin ForMemory
    BY <1>11 DEF ForMemory, Growing, Copying, Creating, Logs, CallKinds
  <2>. QED
    BY <1>11, <2>4, <2>5 DEF Paid
<1>12. CASE kind \in Creating
  <2>1. PICK code \in Nat, price \in Nat : cost = gasCreateEip3860(size, code, price)
    <3>1. args[2] \in Nat /\ Price.InitCodeWordGas \in Nat /\ Price.InitCodeWordGas + Price.Keccak256WordGas \in Nat
      BY <1>5, <1>12, UsesOf DEF PriceNames
    <3>2. \/ cost = gasCreateEip3860(size, args[2], Price.InitCodeWordGas)
          \/ cost = gasCreateEip3860(size, args[2], Price.InitCodeWordGas + Price.Keccak256WordGas)
      BY <1>12, DynamicGasOf DEF Creating
    <3>. QED
      BY <3>1, <3>2
  <2>2. cost # Fails
    BY <1>2, WrapPositive
  <2>3. cost = SafeAdd(grow, price * toWordSize(code))
    BY <2>1, <2>2 DEF gasCreateEip3860, grow
  <2>4. price * toWordSize(code) \in Nat
    BY <1>7
  <2>5. cost \in Nat /\ grow <= budget
    BY <1>1, <1>3, <2>3, <2>4
  <2>6. kind \notin Charging /\ kind # "gasSStoreEIP3529"
    BY <1>12 DEF Charging, Creating, Logs
  <2>. QED
    BY <1>1, <1>2, <2>5, <2>6, WrapPositive DEF Paid
<1>13. CASE kind = "gasSLoadEIP2929"
  <2>1. cost \in {Price.WarmStorageReadCost, Price.ColdSloadCost}
    BY <1>13, DynamicGasOf DEF gasSLoadEIP2929
  <2>2. kind \notin ForMemory
    BY <1>13 DEF ForMemory, Growing, Copying, Creating, Logs, CallKinds
  <2>. QED
    BY <1>5, <1>13, <2>1, <2>2 DEF Paid, PriceNames
<1>14. CASE kind = "gasSStoreEIP3529"
  <2>1. cost = gasSStoreEIP3529(budget, args[1])
    BY <1>14, DynamicGasOf
  <2>2. budget > Price.SstoreSentryGas
    BY <1>2, <1>5, <2>1, WrapPositive DEF gasSStoreEIP3529, PriceNames
  <2>3. PICK cold \in Nat : cost \in {cold + Price.WarmStorageReadCost, cold + Price.SstoreSetGas,
                                     cold + (Price.SstoreResetGas - Price.ColdSloadCost)}
    BY <1>5, <2>1, <2>2 DEF gasSStoreEIP3529, PriceNames
  <2>4. Price.SstoreResetGas - Price.ColdSloadCost \in Nat /\ Price.SstoreResetGas - Price.ColdSloadCost > 0
        /\ Price.SstoreSetGas > 0 /\ Price.SstoreSetGas \in Nat
        /\ Price.WarmStorageReadCost > 0 /\ Price.WarmStorageReadCost \in Nat
    BY <1>5, GasAssumption DEF PriceNames
  <2>5. kind \notin ForMemory
    BY <1>14 DEF ForMemory, Growing, Copying, Creating, Logs, CallKinds
  <2>. QED
    BY <1>14, <2>2, <2>3, <2>4, <2>5 DEF Paid
<1>15. CASE kind \in CallKinds
  <2>1. cost = makeCallVariantGasCallEIP2929(kind, args, size, budget)
    BY <1>15, DynamicGasOf
  <2>2. args[0] \in Nat
    BY <1>15, UsesOf
  <2>3. kind \notin Charging /\ kind # "gasSStoreEIP3529"
    BY <1>15 DEF Charging, CallKinds, Logs
  <2>4. makeCallVariantGasCallEIP2929(kind, args, size, budget) <= budget
    BY <2>1
  <2>5. size <= Highest /\ makeCallVariantGasCallEIP2929(kind, args, size, budget) \in Nat
    BY <2>2, <2>4, CallCost
  <2>. QED
    BY <2>1, <2>3, <2>5 DEF Paid
<1>16. CASE kind \in Logs
  <2>1. PICK n \in Nat : cost = makeGasLog(n, size, args[1])
    <3>1. cost = makeGasLog(Topics(kind), size, args[1])
      BY <1>16, DynamicGasOf
    <3>2. Topics(kind) \in Nat
      <4>1. /\ makeGasLogs[0 + 1] = "makeGasLog0" /\ makeGasLogs[1 + 1] = "makeGasLog1"
            /\ makeGasLogs[2 + 1] = "makeGasLog2" /\ makeGasLogs[3 + 1] = "makeGasLog3"
            /\ makeGasLogs[4 + 1] = "makeGasLog4"
        BY DEF makeGasLogs
      <4>2. \E n \in 0 .. 4 : kind = makeGasLogs[n + 1]
        BY <1>16, <4>1 DEF Logs
      <4>3. Topics(kind) \in 0 .. 4
        BY <4>2, Zenon DEF Topics
      <4>. QED
        BY <4>3
    <3>. QED
      BY <3>1, <3>2
  <2>2. args[1] \in Nat
    BY <1>16, UsesOf
  <2>. DEFINE topics == Price.LogGas + n * Price.LogTopicGas
              data == SafeMul(Uint64WithOverflow(args[1]), Price.LogDataGas)
  <2>3. topics \in Nat /\ topics > 0
    <3>1. n * Price.LogTopicGas \in Nat /\ Price.LogGas \in Nat /\ Price.LogGas > 0
      BY <1>5 DEF PriceNames
    <3>. QED
      BY <3>1
  <2>4. data \in Nat
    <3>1. Uint64WithOverflow(args[1]) \in Nat /\ Price.LogDataGas \in Nat
      BY <1>5, <2>2, WrapPositive DEF Uint64WithOverflow, PriceNames
    <3>2. data \in 0 .. Wrap
      BY <3>1, SafeMulLemma
    <3>. QED
      BY <3>2, WrapPositive
  <2>5. cost = SafeAdd(SafeAdd(grow, topics), data)
    BY <2>1 DEF makeGasLog, grow
  <2>. HIDE DEF cost, topics, data
  <2>6. cost <= budget
    BY DEF cost
  <2>7. SafeAdd(grow, topics) \in Nat
    BY <1>1, <1>3, <2>3
  <2>8. cost = SafeAdd(grow, topics) + data /\ SafeAdd(grow, topics) <= budget
    BY <1>3, <2>4, <2>5, <2>6, <2>7
  <2>9. SafeAdd(grow, topics) = grow + topics /\ grow <= budget
    BY <1>1, <1>3, <2>3, <2>8
  <2>10. cost \in Nat /\ cost > 0
    BY <1>1, <2>3, <2>4, <2>8, <2>9
  <2>11. kind # "gasSStoreEIP3529"
    BY <1>16 DEF Logs
  <2>. QED
    BY <1>1, <1>2, <2>9, <2>10, <2>11, WrapPositive DEF Paid, cost
<1>. QED
  BY <1>8, <1>9, <1>10, <1>11, <1>12, <1>13, <1>14, <1>15, <1>16 DEF Kinds, ForMemory, Charging

-----------------------------------------------------------------------------
(* 3. The iteration.                                                         *)

JumpRows == ComputeOps \cup EnvironmentOps \cup MachineOps \cup PushOps \cup DupOps \cup SwapOps \cup CallOps
            \cup {Ops({"UNDEFINED"}, Plain(0, 0, 0))}

\* For every code, the entry of jump_table.go covers what the function of
\* instructions.go does.
LEMMA InstructionsCovered ==
    ASSUME NEW op \in DOMAIN JumpTable
    PROVE  Covered(JumpTable[op], execute[op])
<1>1. JumpTable = Table(JumpRows)
  BY DEF JumpTable, JumpRows
<1>2. op \in Keys(JumpRows)
  BY <1>1, TableLemma
<1>3. PICK r \in JumpRows : op \in r.keys /\ JumpTable[op] = r.says
  BY <1>1, <1>2, TableLemma
<1>4. op \in r.keys
  BY <1>3
<1>5. Covered(r.says, execute[op])
  <2>1. CASE r \in ComputeOps
    BY <1>4, <2>1, ComputeOpsCovered
  <2>2. CASE r \in EnvironmentOps
    BY <1>4, <2>2, EnvironmentOpsCovered
  <2>3. CASE r \in MachineOps
    BY <1>4, <2>3, MachineOpsCovered
  <2>4. CASE r \in PushOps
    BY <1>4, <2>4, PushOpsCovered
  <2>5. CASE r \in DupOps
    BY <1>4, <2>5, DupOpsCovered
  <2>6. CASE r \in SwapOps
    BY <1>4, <2>6, SwapOpsCovered
  <2>7. CASE r \in CallOps
    BY <1>4, <2>7, CallOpsCovered
  <2>8. CASE r = Ops({"UNDEFINED"}, Plain(0, 0, 0))
    <3>1. op \in {"UNDEFINED"} \X {0} /\ r.says = Plain(0, 0, 0)
      BY <1>4, <2>8 DEF Ops, Row
    <3>2. op \in Keys(EffectRows)
      BY <3>1, EffectKeys, EndEffectsKeys
    <3>3. execute[op] = Does(0, 0, {}, "never", "fail")
      BY <3>1, <3>2, EffectOf
    <3>. QED
      BY <3>1, <3>3, Declared, StackAssumption
         DEF Covered, StackCovered, MemoryCovered, GasCovered, Op, Plain, minStack, maxStack, Does, Kinds, CallKinds,
              GoesOn
  <2>. QED
    BY <1>3, <2>1, <2>2, <2>3, <2>4, <2>5, <2>6, <2>7, <2>8 DEF JumpRows
<1>. QED
  BY <1>3, <1>5

\* The greatest of two numbers and zero.
LEMMA LargestOf ==
    ASSUME NEW a \in Nat, NEW b \in Nat
    PROVE  LET most == Largest({a, b} \cup {0})
           IN  most \in {a, b, 0} /\ most >= a /\ most >= b
<1>. DEFINE S == {a, b} \cup {0}
<1>1. \E x \in S : \A y \in S : y <= x
  OBVIOUS
<1>. HIDE DEF S
<1>2. Largest(S) \in S /\ \A y \in S : y <= Largest(S)
  BY <1>1, Zenon DEF Largest
<1>. QED
  BY <1>2 DEF S

\* The end that is declared of a piece of memory is no less than what is used
\* of it, unless it overflows.
LEMMA DeclaredEnd ==
    ASSUME NEW off \in Nat, NEW len \in Nat
    PROVE  /\ calcMemSize64(off, len) \in 0 .. Wrap
           /\ (IF len % Wrap = 0 THEN 0 ELSE (off % Wrap) + (len % Wrap)) \in Nat
           /\ calcMemSize64(off, len) # Fails =>
                 (IF len % Wrap = 0 THEN 0 ELSE (off % Wrap) + (len % Wrap)) <= calcMemSize64(off, len)
<1>1. off % Wrap \in Nat /\ len % Wrap \in Nat
  BY WrapPositive
<1>2. CASE len >= Wrap
  BY <1>1, <1>2, WrapPositive DEF calcMemSize64
<1>3. CASE len = 0
  BY <1>1, <1>3, WrapPositive DEF calcMemSize64
<1>4. CASE len < Wrap /\ len # 0
  <2>1. calcMemSize64(off, len) = SafeAdd(Uint64WithOverflow(off), len) /\ len % Wrap = len
    BY <1>4, WrapPositive DEF calcMemSize64
  <2>2. CASE off >= Wrap
    BY <1>1, <1>4, <2>1, <2>2, WrapPositive DEF Uint64WithOverflow, SafeAdd
  <2>3. CASE off < Wrap
    BY <1>1, <1>4, <2>1, <2>3, WrapPositive DEF Uint64WithOverflow, SafeAdd
  <2>. QED
    BY <2>2, <2>3, WrapPositive
<1>. QED
  BY <1>2, <1>3, <1>4, WrapPositive

\* The same of a span.
LEMMA SpanReach ==
    ASSUME NEW args, NEW s, args[s[1]] \in Nat, args[s[2]] \in Nat
    PROVE  LET end == calcMemSize64(args[s[1]], args[s[2]])
           IN  end \in Nat /\ Reaches(s, args) \in Nat /\ (end # Fails => Reaches(s, args) <= end)
<1>. DEFINE end == calcMemSize64(args[s[1]], args[s[2]])
<1>1. end \in 0 .. Wrap
  BY DeclaredEnd
<1>2. Reaches(s, args) \in Nat /\ (end # Fails => Reaches(s, args) <= end)
  BY DeclaredEnd DEF Reaches
<1>3. end \in Nat
  <2>. HIDE DEF end
  <2>. QED
    BY <1>1, WrapPositive
<1>. QED
  BY <1>2, <1>3

\* What is known of an iteration when it starts.
IterationFacts(i) ==
    /\ StackCovered(i.entry, i.effect) /\ GasCovered(i.entry, i.effect)
    /\ i.size \in 0 .. Wrap /\ i.reach \in Nat
    /\ i.size < Wrap => i.reach <= i.size
    /\ i.size # 0 => i.entry.dynamicGas \in ForMemory
    /\ \A n \in Uses(i.entry.dynamicGas) : i.args[n] \in Nat
    /\ Touched(i.entry.dynamicGas, i.args) \subseteq {Self, Nobody}

\* The ends of the pieces of memory that are declared.
DeclaredEnds(mems, args) == {calcMemSize64(args[s[1]], args[s[2]]) : s \in DeclaredSpans[mems]} \cup {0}

\* The memory an instruction declares holds each of the declared ends.
LEMMA MemorySize ==
    ASSUME NEW mems, NEW args \in [Places -> Nat], NEW a \in Nat, NEW b \in Nat,
           DeclaredEnds(mems, args) = {a, b} \cup {0}
    PROVE  /\ memorySize(mems, args) \in 0 .. Wrap
           /\ memorySize(mems, args) < Wrap =>
                 a # Fails /\ b # Fails /\ a <= memorySize(mems, args) /\ b <= memorySize(mems, args)
<1>. DEFINE ends == {a, b} \cup {0}
            size == SafeMul(toWordSize(Largest(ends)), WordBytes)
<1>1. memorySize(mems, args) = IF Fails \in ends THEN Fails ELSE size
  BY DEF memorySize, DeclaredEnds
<1>2. Largest(ends) \in Nat /\ Largest(ends) >= a /\ Largest(ends) >= b
  BY LargestOf
<1>. DEFINE words == toWordSize(Largest(ends))
<1>3. words \in Nat /\ Largest(ends) <= words * WordBytes
  BY <1>2, Words
<1>4. size \in 0 .. Wrap /\ (size < Wrap => size = words * WordBytes)
  BY <1>3, SafeMulLemma, WrapPositive
<1>5. Fails \notin ends <=> a # Fails /\ b # Fails
  BY WrapPositive
<1>6. ASSUME memorySize(mems, args) < Wrap
      PROVE  a # Fails /\ b # Fails /\ a <= memorySize(mems, args) /\ b <= memorySize(mems, args)
  <2>. HIDE DEF ends, size, words
  <2>1. memorySize(mems, args) = size /\ Fails \notin ends
    BY <1>1, <1>6, WrapPositive
  <2>2. words * WordBytes \in Nat
    BY <1>3, WrapPositive
  <2>. QED
    BY <1>2, <1>3, <1>4, <1>5, <1>6, <2>1, <2>2, WrapPositive
<1>7. memorySize(mems, args) \in 0 .. Wrap
  <2>. HIDE DEF ends, size
  <2>. QED
    BY <1>1, <1>4, WrapPositive
<1>. QED
  BY <1>6, <1>7

\* The facts of an iteration, from those of its entry and its operands.
LEMMA IterationLemma ==
    ASSUME NEW op \in DOMAIN JumpTable, NEW args \in Operands[op]
    PROVE  IterationFacts(Iteration(op, args))
<1>. DEFINE e == JumpTable[op]
            x == execute[op]
            spans == execute[op].spans
            i == Iteration(op, args)
            kind == JumpTable[op].dynamicGas
<1>1. Covered(e, x)
  BY InstructionsCovered
<1>2. args \in [Places -> Nat] /\ Touched(kind, args) \subseteq {Self, Nobody}
  BY InterpreterAssumption
<1>3. /\ i.entry = e /\ i.effect = x /\ i.size = memorySize(e.memorySize, args)
      /\ i.reach = Largest({Reaches(s, args) : s \in spans} \cup {0})
      /\ i.args = [n \in DOMAIN args \ {s[1] : s \in spans} |-> args[n]]
  BY DEF Iteration
<1>. HIDE DEF i
<1>4. spans = DeclaredSpans[e.memorySize] /\ (spans # {} => kind \in ForMemory)
      /\ \A s \in spans : s[1] \notin Uses(kind)
  BY <1>1 DEF Covered, MemoryCovered
<1>5. \/ spans = {} /\ i.size = 0 /\ i.reach = 0
      \/ spans # {} /\ i.size \in 0 .. Wrap /\ i.reach \in Nat /\ (i.size < Wrap => i.reach <= i.size)
  <2>1. CASE spans = {}
    <3>1. {calcMemSize64(args[s[1]], args[s[2]]) : s \in DeclaredSpans[e.memorySize]} \cup {0} = {0}
          /\ {Reaches(s, args) : s \in spans} \cup {0} = {0}
      BY <1>4, <2>1
    <3>2. Largest({0}) = 0
      BY DEF Largest
    <3>3. memorySize(e.memorySize, args) = IF Fails \in {0} THEN Fails ELSE SafeMul(toWordSize(0), WordBytes)
      BY <3>1, <3>2 DEF memorySize
    <3>4. toWordSize(0) = 0
      BY WrapPositive DEF toWordSize
    <3>. QED
      BY <1>3, <2>1, <3>1, <3>2, <3>3, <3>4, WrapPositive DEF SafeMul
  <2>2. ASSUME NEW s \in Places \X Places, NEW t \in Places \X Places, spans = {s, t}
        PROVE  i.size \in 0 .. Wrap /\ i.reach \in Nat /\ (i.size < Wrap => i.reach <= i.size)
    <3>. DEFINE a == calcMemSize64(args[s[1]], args[s[2]])
                b == calcMemSize64(args[t[1]], args[t[2]])
                c == Reaches(s, args)
                d == Reaches(t, args)
    <3>1. args[s[1]] \in Nat /\ args[s[2]] \in Nat /\ args[t[1]] \in Nat /\ args[t[2]] \in Nat
      BY <1>2
    <3>2. a \in Nat /\ c \in Nat /\ (a # Fails => c <= a)
      BY <3>1, SpanReach
    <3>3. b \in Nat /\ d \in Nat /\ (b # Fails => d <= b)
      BY <3>1, SpanReach
    <3>4. {calcMemSize64(args[u[1]], args[u[2]]) : u \in DeclaredSpans[e.memorySize]} = {a, b}
          /\ {Reaches(u, args) : u \in spans} = {c, d}
      BY <1>4, <2>2
    <3>. HIDE DEF a, b, c, d
    <3>5. i.size \in 0 .. Wrap /\ (i.size < Wrap => a # Fails /\ b # Fails /\ a <= i.size /\ b <= i.size)
      <4>1. DeclaredEnds(e.memorySize, args) = {a, b} \cup {0}
        BY <3>4 DEF DeclaredEnds
      <4>. QED
        BY <1>2, <1>3, <3>2, <3>3, <4>1, MemorySize
    <3>6. i.reach \in {c, d, 0}
      <4>1. i.reach = Largest({c, d} \cup {0})
        BY <1>3, <3>4
      <4>2. Largest({c, d} \cup {0}) \in {c, d, 0}
        BY <3>2, <3>3, LargestOf
      <4>. QED
        BY <4>1, <4>2
    <3>. QED
      BY <3>2, <3>3, <3>5, <3>6
  <2>3. \/ spans = {}
        \/ \E o \in 0 .. 6, l \in (0 .. 6) \cup {WordLen, ByteLen} : spans = {<<o, l>>}
        \/ \E o, l, p, m \in 0 .. 6 : spans = {<<o, l>>, <<p, m>>}
    BY <1>1 DEF Covered, MemoryCovered
  <2>4. spans = {} \/ \E s, t \in Places \X Places : spans = {s, t}
    <3>1. ASSUME NEW o \in 0 .. 6, NEW l \in (0 .. 6) \cup {WordLen, ByteLen}, spans = {<<o, l>>}
          PROVE  \E s, t \in Places \X Places : spans = {s, t}
      <4>1. <<o, l>> \in Places \X Places /\ spans = {<<o, l>>, <<o, l>>}
        BY <3>1 DEF Places
      <4>. QED
        BY <4>1
    <3>2. ASSUME NEW o \in 0 .. 6, NEW l \in 0 .. 6, NEW p \in 0 .. 6, NEW m \in 0 .. 6, spans = {<<o, l>>, <<p, m>>}
          PROVE  \E s, t \in Places \X Places : spans = {s, t}
      <4>1. <<o, l>> \in Places \X Places /\ <<p, m>> \in Places \X Places
        BY DEF Places
      <4>. QED
        BY <3>2, <4>1
    <3>. QED
      BY <2>3, <3>1, <3>2
  <2>. QED
    BY <2>1, <2>2, <2>4
<1>6. ASSUME NEW n \in Uses(kind) PROVE i.args[n] = args[n] /\ args[n] \in Nat
  <2>1. n \in 0 .. 6
    BY DEF Uses
  <2>2. n \in DOMAIN args \ {s[1] : s \in spans}
    BY <1>2, <1>4, <2>1 DEF Places
  <2>. QED
    BY <1>2, <1>3, <2>2
<1>7. Touched(kind, i.args) = Touched(kind, args)
  <2>1. kind \in CallKinds => i.args[1] = args[1]
    BY <1>6, UsesOf
  <2>2. kind \in {"gasExtCodeCopyEIP2929", "gasEip2929AccountCheck", "gasSelfdestructEIP3529"} => i.args[0] = args[0]
    BY <1>6, UsesOf
  <2>. QED
    BY <2>1, <2>2 DEF Touched
<1>. QED
  BY <1>1, <1>2, <1>3, <1>4, <1>5, <1>6, <1>7, WrapPositive DEF IterationFacts, Covered, i

-----------------------------------------------------------------------------
(* 4. The invariant.                                                         *)

\* The inductive invariant.
IInv ==
    /\ gas \in 0 .. Wrap - 1 /\ MemoryPaid
    /\ accessed \subseteq {Self, Nobody} /\ slotAccessed \in BOOLEAN /\ slot \in [original : 0 .. 1, current : 0 .. 1]
    /\ refund \in Nat /\ stack \in 0 .. StackLimit /\ returnData \in {0, WordBytes}
    /\ status \in Ends \cup {"running"} /\ readOnly \in BOOLEAN /\ abort \in BOOLEAN

\* The invariant holds when a frame starts: nothing is paid for an empty memory.
LEMMA InitIInv == Init => IInv
<1>. SUFFICES ASSUME Init PROVE IInv
  OBVIOUS
<1>1. gas \in 0 .. Wrap - 1 /\ slot \in [original : 0 .. 1, current : 0 .. 1]
  BY InterpreterAssumption DEF Init
<1>2. MemoryPaid
  <2>1. toWordSize(0) = 0
    BY WrapPositive DEF toWordSize
  <2>2. 0 \in 0 .. Root - 1
    BY WrapPositive
  <2>3. Price.MemoryGas \in Nat /\ Price.QuadCoeffDiv \in Nat \ {0}
    BY Prices DEF PriceNames
  <2>4. Fee(0) = 0
    BY <2>3 DEF Fee
  <2>. QED
    BY <2>1, <2>2, <2>4, FeeOfWords, WrapPositive DEF Init, MemoryPaid
<1>. QED
  <2>1. accessed \subseteq {Self, Nobody} /\ slotAccessed \in BOOLEAN /\ refund \in Nat
    BY DEF Init
  <2>2. stack \in 0 .. StackLimit /\ returnData \in {0, WordBytes}
    BY StackAssumption DEF Init
  <2>4. readOnly \in BOOLEAN /\ abort \in BOOLEAN
    BY DEF Init
  <2>3. status \in Ends \cup {"running"}
    BY DEF Init
  <2>. QED
    BY <1>1, <1>2, <2>1, <2>2, <2>3, <2>4 DEF IInv

\* It has the types in it: the highest memory and its fee are uint64s.
LEMMA IInvTypeOK == IInv => TypeOK
<1>. SUFFICES ASSUME IInv PROVE TypeOK
  OBVIOUS
<1>1. mem \in Nat /\ mem <= Highest
  BY WrapPositive DEF IInv, MemoryPaid
<1>2. Highest < Wrap
  <2>1. WordBytes * (Root - 1) <= Root * (Root - 1)
    BY GasAssumption, ProductMonotone
  <2>2. Root * (Root - 1) = Root * Root - Root /\ Root * Root \in Nat
    BY WrapPositive
  <2>3. WordBytes * (Root - 1) \in Nat
    BY WrapPositive
  <2>. QED
    BY <2>1, <2>2, <2>3, WrapPositive DEF Highest, Wrap
<1>3. mem \in 0 .. Wrap - 1
  BY <1>1, <1>2, WrapPositive
<1>4. lastGasCost \in 0 .. Wrap - 1
  <2>1. toWordSize(mem) \in 0 .. Root - 1
    BY <1>1, Words, WrapPositive
  <2>2. lastGasCost \in 0 .. MaxFee
    BY <2>1, FeeOfWords DEF IInv, MemoryPaid
  <2>3. /\ Price.CallNewAccountGas \in Nat /\ Price.CallValueTransferGas \in Nat
        /\ Price.ColdAccountAccessCost \in Nat \ {0}
    BY Prices DEF PriceNames
  <2>4. MaxFee < Wrap /\ MaxFee \in Nat
    BY <2>3, Constants, WrapPositive
  <2>. QED
    BY <2>2, <2>4, WrapPositive
<1>. QED
  <2>1. stack \in 0 .. StackLimit + 1
    BY StackAssumption DEF IInv
  <2>. QED
    BY <1>3, <1>4, <2>1 DEF IInv, TypeOK

\* They hold of every iteration.
LEMMA FactsOf ==
    ASSUME NEW i \in Iterations
    PROVE  IterationFacts(i)
BY IterationLemma DEF Iterations

\* The instruction can be paid.
Affordable(i) == left(i) >= 0 /\ dynamicCost(i) <= left(i)

\* What the validation and the gas of an iteration have established.
LEMMA Cost ==
    ASSUME IInv, NEW i \in Iterations, Affordable(i)
    PROVE  /\ left(i) \in 0 .. Wrap - 1 /\ i.entry.constantGas \in Nat /\ left(i) = gas - i.entry.constantGas
           /\ i.size \in Nat /\ i.size < Wrap /\ i.size <= Highest /\ i.reach \in Nat /\ i.reach <= i.size
           /\ dynamicCost(i) = dynamicGas(i.entry.dynamicGas, i.args, i.size, left(i))
           /\ Paid(i.entry.dynamicGas, i.size, left(i), dynamicCost(i))
<1>1. IterationFacts(i)
  BY FactsOf
<1>2. i.entry.constantGas \in Nat /\ i.entry.dynamicGas \in Kinds
  BY <1>1 DEF IterationFacts, GasCovered
<1>3. left(i) \in 0 .. Wrap - 1 /\ left(i) = gas - i.entry.constantGas
  BY <1>2, WrapPositive DEF left, IInv, Affordable
<1>4. i.size # Fails /\ dynamicCost(i) = dynamicGas(i.entry.dynamicGas, i.args, i.size, left(i))
  BY <1>3, WrapPositive DEF dynamicCost, Affordable
<1>5. i.size \in 0 .. Wrap /\ i.reach \in Nat /\ (i.size < Wrap => i.reach <= i.size)
  BY <1>1 DEF IterationFacts
<1>6. Paid(i.entry.dynamicGas, i.size, left(i), dynamicCost(i))
  <2>1. \A n \in Uses(i.entry.dynamicGas) : i.args[n] \in Nat
    BY <1>1 DEF IterationFacts
  <2>2. dynamicGas(i.entry.dynamicGas, i.args, i.size, left(i)) <= left(i) /\ i.size \in Nat /\ MemoryPaid
    BY <1>4, <1>5, WrapPositive DEF Affordable, IInv
  <2>. QED
    BY <1>2, <1>3, <1>4, <2>1, <2>2, DynamicGas
<1>7. i.size <= Highest
  BY <1>1, <1>6, WrapPositive DEF IterationFacts, Paid
<1>. QED
  BY <1>2, <1>3, <1>4, <1>5, <1>6, <1>7, WrapPositive

\* What a callee is given was part of the cost, with more than the stipend.
LEMMA CallEndowment ==
    ASSUME IInv, NEW i \in Iterations, Affordable(i), i.effect.then = "call"
    PROVE  Endowment(i, dynamicCost(i)) \in Nat /\ Endowment(i, dynamicCost(i)) <= dynamicCost(i)
<1>. DEFINE kind == i.entry.dynamicGas
            callee == calleeGas(kind, i.args, i.size, left(i))
<1>1. IterationFacts(i) /\ kind \in CallKinds
  BY FactsOf DEF IterationFacts, GasCovered
<1>2. dynamicCost(i) = makeCallVariantGasCallEIP2929(kind, i.args, i.size, left(i))
  BY <1>1, Cost, DynamicGasOf
<1>3. i.args[0] \in Nat
  BY <1>1, UsesOf DEF IterationFacts
<1>4. callee \in Nat /\ Transfer(kind, i.args) \in Nat /\ dynamicCost(i) \in Nat
      /\ callee + Transfer(kind, i.args) <= dynamicCost(i)
  <2>1. left(i) \in 0 .. Wrap - 1 /\ i.size \in Nat /\ dynamicCost(i) <= left(i) /\ MemoryPaid
    BY Cost DEF IInv, Affordable
  <2>. QED
    BY <1>2, <1>3, <2>1, CallCost
<1>5. /\ Price.CallStipend \in Nat /\ Price.CallValueTransferGas \in Nat
      /\ Price.CallStipend < Price.CallValueTransferGas
  BY Prices, GasAssumption DEF PriceNames
<1>6. Endowment(i, dynamicCost(i))
      = callee + (IF kind \in {"gasCallEIP2929", "gasCallCodeEIP2929"} /\ i.args[2] # 0 THEN Price.CallStipend ELSE 0)
  BY DEF Endowment
<1>. HIDE DEF callee
<1>. QED
  BY <1>4, <1>5, <1>6 DEF Transfer

\* The greater of two numbers.
LEMMA LargerOf ==
    ASSUME NEW a \in Nat, NEW b \in Nat
    PROVE  Largest({a, b}) = IF a >= b THEN a ELSE b
<1>. DEFINE most == IF a >= b THEN a ELSE b
<1>1. most \in {a, b} /\ \A y \in {a, b} : y <= most
  OBVIOUS
<1>2. \A x \in {a, b} : (\A y \in {a, b} : y <= x) => x = most
  OBVIOUS
<1>. HIDE DEF most
<1>. QED
  BY <1>1, <1>2 DEF Largest, most

\* The refund counter is never negative: what panics has been sorted out.
LEMMA Refunds ==
    ASSUME IInv, NEW i \in Iterations, Affordable(i), ~SubRefundPanics(i)
    PROVE  refund + (IF Stores(i) THEN sstoreRefund(i.args[1]) ELSE 0) \in Nat
<1>1. CASE ~Stores(i)
  BY <1>1 DEF IInv
<1>2. CASE Stores(i)
  <2>1. left(i) > Price.SstoreSentryGas
    BY <1>2, Cost DEF Paid, Stores
  <2>2. slot.current = i.args[1] \/ slot.original = 0 \/ slot.current # 0
        \/ ~(refund < Price.SstoreClearsScheduleRefund)
    BY <1>2, <2>1 DEF SubRefundPanics, Sentry
  <2>3. /\ Price.SstoreClearsScheduleRefund \in Nat /\ Price.SstoreSetGas \in Nat /\ Price.SstoreResetGas \in Nat
        /\ Price.ColdSloadCost \in Nat /\ Price.WarmStorageReadCost \in Nat
    BY Prices DEF PriceNames
  <2>4. Price.SstoreSetGas - Price.WarmStorageReadCost \in Nat
        /\ (Price.SstoreResetGas - Price.ColdSloadCost) - Price.WarmStorageReadCost \in Nat
    BY <2>3, GasAssumption
  <2>5. /\ sstoreRefund(i.args[1]) \in Int
        /\ \/ sstoreRefund(i.args[1]) >= 0
           \/ /\ slot.current # i.args[1] /\ slot.original # 0 /\ slot.current = 0
              /\ sstoreRefund(i.args[1]) >= 0 - Price.SstoreClearsScheduleRefund
    BY <2>3, <2>4 DEF sstoreRefund
  <2>. QED
    BY <1>2, <2>2, <2>3, <2>5 DEF IInv
<1>. QED
  BY <1>1, <1>2

\* Paying keeps the gas a uint64 and the fee in step with the memory, which then
\* holds what the instruction uses.
LEMMA PayStep ==
    ASSUME IInv, NEW i \in Iterations, Affordable(i), ~SubRefundPanics(i), NEW spent \in Int,
           spent <= left(i) - dynamicCost(i), 0 - spent <= dynamicCost(i), Pay(i, dynamicCost(i), spent)
    PROVE  /\ gas' \in 0 .. Wrap - 1 /\ gas' = left(i) - dynamicCost(i) - spent
           /\ MemoryPaid' /\ i.reach <= mem'
           /\ accessed' \subseteq {Self, Nobody} /\ slotAccessed' \in BOOLEAN
           /\ slot' \in [original : 0 .. 1, current : 0 .. 1]
           /\ refund' \in Nat /\ readOnly' \in BOOLEAN /\ abort' \in BOOLEAN
<1>1. /\ left(i) \in 0 .. Wrap - 1 /\ i.size \in Nat /\ i.size <= Highest /\ i.reach \in Nat /\ i.reach <= i.size
      /\ dynamicCost(i) \in Nat
  BY Cost DEF Paid
<1>2. gas' = left(i) - dynamicCost(i) - spent
  BY DEF Pay
<1>3. gas' \in 0 .. Wrap - 1
  BY <1>1, <1>2, WrapPositive DEF Affordable
<1>4. mem \in Nat /\ mem <= Highest /\ lastGasCost = TotalFee(toWordSize(mem))
  BY WrapPositive DEF IInv, MemoryPaid
<1>5. mem' = IF mem >= i.size THEN mem ELSE i.size
  BY <1>1, <1>4, LargerOf DEF Pay
<1>6. lastGasCost' = IF i.size > mem THEN TotalFee(toWordSize(i.size)) ELSE lastGasCost
  BY DEF Pay
<1>7. mem' \in 0 .. Highest /\ i.reach <= mem'
  BY <1>1, <1>4, <1>5, WrapPositive
<1>8. lastGasCost' = TotalFee(toWordSize(mem'))
  <2>1. CASE i.size > mem
    <3>1. mem' = i.size
      BY <1>1, <1>4, <1>5, <2>1
    <3>. QED
      BY <1>6, <2>1, <3>1
  <2>2. CASE ~(i.size > mem)
    <3>1. mem' = mem
      BY <1>1, <1>4, <1>5, <2>2
    <3>. QED
      BY <1>4, <1>6, <2>2, <3>1
  <2>. QED
    BY <2>1, <2>2
<1>9. MemoryPaid'
  <2>1. TotalFee(toWordSize(mem))' = TotalFee(toWordSize(mem'))
    BY DEF TotalFee, toWordSize, Wrap
  <2>. QED
    BY <1>7, <1>8, <2>1 DEF MemoryPaid, Highest
<1>10. accessed' \subseteq {Self, Nobody}
  BY FactsOf DEF IInv, Pay, IterationFacts
<1>11. slotAccessed' \in BOOLEAN /\ slot' \in [original : 0 .. 1, current : 0 .. 1]
  BY DEF IInv, Pay
<1>12. refund' \in Nat
  BY Refunds DEF Pay
<1>13. readOnly' \in BOOLEAN /\ abort' \in BOOLEAN
  BY DEF IInv, Pay
<1>. QED
  BY <1>2, <1>3, <1>7, <1>9, <1>10, <1>11, <1>12, <1>13

\* A frame whose stack fits stays within its bounds.
LEMMA BecomesStep ==
    ASSUME IInv, NEW i \in Iterations, Fits(i), NEW how, i.reach <= mem', i.reach \in Nat, mem' \in Nat,
           Becomes(i, how)
    PROVE  status' = how /\ stack' \in 0 .. StackLimit
<1>1. StackCovered(i.entry, i.effect)
  BY FactsOf DEF IterationFacts
<1>2. stack \in Nat /\ stack <= StackLimit /\ stack >= i.entry.minStack /\ stack <= i.entry.maxStack
  BY StackAssumption DEF IInv, Fits
<1>3. i.effect.touches <= stack /\ stack + i.effect.net >= 0 /\ stack + i.effect.net <= StackLimit
      /\ stack + i.effect.net \in Int /\ i.effect.touches \in Nat
  BY <1>1, <1>2, StackAssumption DEF StackCovered
<1>4. ~StackFault(i) /\ ~(i.reach > mem')
  BY <1>2, <1>3, StackAssumption DEF StackFault
<1>. QED
  <2>1. status' = how
    BY <1>4, Zenon DEF Becomes
  <2>2. stack' = stack + i.effect.net
    BY DEF Becomes
  <2>3. stack' \in 0 .. StackLimit
    BY <1>3, <2>2, StackAssumption
  <2>. QED
    BY <2>1, <2>3

\* A step that executes an instruction keeps the invariant, and leaves less gas
\* when the frame goes on.
Executed == IInv' /\ (status' = "running" => gas' < gas)

\* An iteration that pays and completes.
LEMMA Completes ==
    ASSUME IInv, NEW i \in Iterations, Fits(i), Affordable(i), ~SubRefundPanics(i),
           NEW spent \in Int, spent <= left(i) - dynamicCost(i), 0 - spent <= dynamicCost(i),
           spent < 0 => i.effect.then = "call",
           Pay(i, dynamicCost(i), spent), NEW how, Becomes(i, how), how \in Ends \cup {"running"},
           how = "running" => i.effect.then \in GoesOn, returnData' \in {0, WordBytes}
    PROVE  Executed
<1>1. /\ gas' \in 0 .. Wrap - 1 /\ gas' = left(i) - dynamicCost(i) - spent
      /\ MemoryPaid' /\ i.reach <= mem'
      /\ accessed' \subseteq {Self, Nobody} /\ slotAccessed' \in BOOLEAN
      /\ slot' \in [original : 0 .. 1, current : 0 .. 1]
      /\ refund' \in Nat /\ readOnly' \in BOOLEAN /\ abort' \in BOOLEAN
  BY PayStep
<1>2. i.reach \in Nat /\ mem' \in Nat
  <2>1. mem' \in 0 .. Highest'
    BY <1>1 DEF MemoryPaid
  <2>. QED
    BY <2>1, Cost, WrapPositive DEF Highest
<1>3. status' = how /\ stack' \in 0 .. StackLimit
  BY <1>1, <1>2, BecomesStep
<1>4. IInv'
  <2>1. gas' \in 0 .. (Wrap - 1)'
    BY <1>1 DEF Wrap
  <2>. QED
    BY <1>1, <1>3, <2>1 DEF IInv, Ends
<1>5. ASSUME status' = "running" PROVE gas' < gas
  <2>1. i.effect.then \in GoesOn
    BY <1>3, <1>5
  <2>2. GasCovered(i.entry, i.effect)
    BY FactsOf DEF IterationFacts
  <2>3. left(i) = gas - i.entry.constantGas /\ i.entry.constantGas \in Nat /\ dynamicCost(i) \in Nat
        /\ (i.entry.dynamicGas \in Charging => dynamicCost(i) > 0) /\ gas \in Nat
    BY Cost, WrapPositive DEF Paid, IInv
  <2>4. i.entry.constantGas > 0 \/ (dynamicCost(i) > 0 /\ spent >= 0)
    <3>1. CASE i.effect.then = "call"
      <4>1. i.entry.dynamicGas \in CallKinds
        BY <2>2, <3>1 DEF GasCovered
      <4>2. i.entry.dynamicGas \notin Charging
        BY <4>1 DEF CallKinds, Charging, Logs
      <4>. QED
        BY <2>1, <2>2, <4>2 DEF GasCovered
    <3>2. CASE i.effect.then # "call"
      BY <2>1, <2>2, <2>3, <3>2 DEF GasCovered
    <3>. QED
      BY <3>1, <3>2
  <2>. QED
    BY <1>1, <2>3, <2>4
<1>. QED
  BY <1>4, <1>5 DEF Executed

\* A frame that ends changes nothing else.
LEMMA EndStep ==
    ASSUME IInv, NEW how \in Ends, End(how)
    PROVE  Executed
BY WrapPositive DEF IInv, End, substate, Executed, Ends, MemoryPaid, TotalFee, toWordSize, Highest, Wrap

\* Each way an instruction may execute: out of gas, write protection, completion,
\* a jump, a copy of return data, and a call with what its callee gives back.
LEMMA ExecuteStep ==
    ASSUME IInv, NEW i \in Iterations, Fits(i), ~SubRefundPanics(i), Execute(i, dynamicCost(i))
    PROVE  Executed
<1>. DEFINE cost == dynamicCost(i)
<1>1. CASE OutOfGas(i, cost) \/ WriteProtection(i)
  BY <1>1, EndStep DEF OutOfGas, WriteProtection, Ends
<1>2. ASSUME Affordable(i), Continue(i, cost) PROVE Executed
  <2>1. i.effect.then \in {"next", "stop", "revert", "fail"}
    BY <1>2 DEF Continue, Outcome
  <2>2. Outcome[i.effect.then] \in Ends \cup {"running"}
        /\ (Outcome[i.effect.then] = "running" => i.effect.then \in GoesOn)
    <3>1. /\ Outcome["next"] = "running" /\ Outcome["stop"] = "stopped"
          /\ Outcome["revert"] = "reverted" /\ Outcome["fail"] = "failed"
      BY DEF Outcome
    <3>. QED
      BY <2>1, <3>1 DEF Ends, GoesOn
  <2>3. cost \in Nat /\ 0 <= left(i) - cost /\ 0 - 0 <= cost
    BY <1>2, Cost, WrapPositive DEF Affordable, Paid
  <2>4. returnData' \in {0, WordBytes}
    BY <1>2 DEF Continue, IInv
  <2>5. Pay(i, cost, 0) /\ Becomes(i, Outcome[i.effect.then])
    BY <1>2 DEF Continue
  <2>. QED
    BY <1>2, <2>2, <2>3, <2>4, <2>5, Completes
<1>3. ASSUME Affordable(i), Jump(i, cost) PROVE Executed
  <2>1. PICK how \in {"cut", "running", "failed"} : Becomes(i, how)
    BY <1>3 DEF Jump
  <2>2. cost \in Nat /\ 0 <= left(i) - cost /\ 0 - 0 <= cost
    BY <1>3, Cost, WrapPositive DEF Affordable, Paid
  <2>3. returnData' \in {0, WordBytes} /\ Pay(i, cost, 0) /\ i.effect.then \in GoesOn
    BY <1>3 DEF Jump, IInv, GoesOn
  <2>4. how \in Ends \cup {"running"}
    BY DEF Ends
  <2>. QED
    BY <1>3, <2>1, <2>2, <2>3, <2>4, Completes
<1>4. ASSUME Affordable(i), ReturnDataCopy(i, cost) PROVE Executed
  <2>1. PICK how \in {"running", "failed"} : Becomes(i, how)
    BY <1>4 DEF ReturnDataCopy
  <2>2. cost \in Nat /\ 0 <= left(i) - cost /\ 0 - 0 <= cost
    BY <1>4, Cost, WrapPositive DEF Affordable, Paid
  <2>3. returnData' \in {0, WordBytes} /\ Pay(i, cost, 0) /\ i.effect.then \in GoesOn
    BY <1>4 DEF ReturnDataCopy, IInv, GoesOn
  <2>4. how \in Ends \cup {"running"}
    BY DEF Ends
  <2>. QED
    BY <1>4, <2>1, <2>2, <2>3, <2>4, Completes
<1>5. ASSUME Affordable(i), Call(i, cost) PROVE Executed
  <2>. DEFINE given == Endowment(i, cost)
              spent(back) == (IF i.effect.then = "call" THEN 0 ELSE given) - back
  <2>1. PICK back \in 0 .. given : Pay(i, cost, spent(back))
    BY <1>5 DEF Call
  <2>2. cost \in Nat /\ left(i) - cost \in Nat
    BY <1>5, Cost, WrapPositive DEF Affordable, Paid
  <2>3. /\ given \in Nat
        /\ i.effect.then = "call" => given <= cost
        /\ i.effect.then # "call" => given <= left(i) - cost
    <3>1. CASE i.effect.then = "call"
      BY <1>5, <3>1, CallEndowment
    <3>2. CASE i.effect.then = "create"
      <4>1. given = (left(i) - cost) - (left(i) - cost) \div 6
        BY <3>2 DEF Endowment
      <4>2. (left(i) - cost) \div 6 \in 0 .. left(i) - cost
        BY <2>2
      <4>. QED
        BY <2>2, <3>2, <4>1, <4>2
    <3>3. CASE i.effect.then = "create2"
      <4>1. given = (left(i) - cost) - (left(i) - cost) \div CallShare
        BY <3>3 DEF Endowment
      <4>2. (left(i) - cost) \div CallShare \in 0 .. left(i) - cost
        BY <2>2, Quotient, WrapPositive
      <4>. QED
        BY <2>2, <3>3, <4>1, <4>2
    <3>. QED
      BY <1>5, <3>1, <3>2, <3>3 DEF Call
  <2>. HIDE DEF given, cost
  <2>4. /\ spent(back) \in Int /\ spent(back) <= left(i) - cost /\ 0 - spent(back) <= cost
        /\ spent(back) < 0 => i.effect.then = "call"
    <3>1. CASE i.effect.then = "call"
      BY <2>2, <2>3, <3>1
    <3>2. CASE i.effect.then # "call"
      BY <2>2, <2>3, <3>2
    <3>. QED
      BY <3>1, <3>2
  <2>5. i.effect.then \in GoesOn /\ returnData' \in {0, WordBytes} /\ Becomes(i, "running")
    BY <1>5 DEF Call, GoesOn
  <2>. QED
    BY <1>5, <2>1, <2>4, <2>5, Completes DEF cost
<1>6. Execute(i, cost) => \/ OutOfGas(i, cost) \/ WriteProtection(i)
                          \/ /\ Affordable(i)
                             /\ Continue(i, cost) \/ Jump(i, cost) \/ ReturnDataCopy(i, cost) \/ Call(i, cost)
  BY DEF Execute, Affordable
<1>. QED
  BY <1>1, <1>2, <1>3, <1>4, <1>5, <1>6

\* An iteration of the loop.
LEMMA IterateStep ==
    ASSUME IInv, Iterate
    PROVE  Executed
<1>1. PICK i \in Iterations :
        \/ BadStack(i)
        \/ Fits(i) /\ (NotInList(i) \/ SubRefundPanics(i)) /\ Panic(i)
        \/ Fits(i) /\ ~NotInList(i) /\ ~SubRefundPanics(i) /\ Execute(i, dynamicCost(i))
  BY DEF Iterate
<1>2. CASE BadStack(i)
  BY <1>2, EndStep DEF BadStack, Ends
<1>3. CASE Panic(i)
  BY <1>3, EndStep DEF Panic, Ends
<1>4. CASE Fits(i) /\ ~SubRefundPanics(i) /\ Execute(i, dynamicCost(i))
  BY <1>4, ExecuteStep
<1>. QED
  BY <1>1, <1>2, <1>3, <1>4

\* Every step keeps the invariant.
LEMMA Inductive == IInv /\ [Next]_vars => IInv'
<1>. SUFFICES ASSUME IInv, [Next]_vars PROVE IInv'
  OBVIOUS
<1>1. CASE Iterate
  BY <1>1, IterateStep DEF Executed
<1>2. CASE Cancel
  BY <1>2 DEF Cancel, IInv, substate, Ends, MemoryPaid, TotalFee, toWordSize, Highest, Wrap
<1>3. CASE UNCHANGED vars
  BY <1>3 DEF vars, IInv, Ends, MemoryPaid, TotalFee, toWordSize, Highest, Wrap
<1>. QED
  BY <1>1, <1>2, <1>3 DEF Next

\* The invariant holds throughout.
THEOREM Invariance == Spec => []IInv
<1>. QED
  BY InitIInv, Inductive, PTL DEF Spec

\* No uint64 of the interpreter underflows, neither the gas nor the refund counter:
\* TypeOK, for all values of the constants.
THEOREM TypeCorrectness == Spec => []TypeOK
<1>. QED
  BY Invariance, IInvTypeOK, PTL

\* minStack and maxStack suffice: no instruction that passes the validation of
\* interpreter.go:171 pops from an empty stack or pushes beyond the limit.
THEOREM StackIsSafe == Spec => []StackSafe
<1>1. IInv => StackSafe
  <2>1. IInv => status # "stack fault"
    BY DEF IInv, Ends
  <2>2. IInv => stack <= StackLimit
    BY StackAssumption DEF IInv
  <2>. QED
    BY <2>1, <2>2 DEF StackSafe
<1>. QED
  BY <1>1, Invariance, PTL

\* The memorySize functions and the gas cover what the instructions read and write,
\* for operands of any size: no slice of the memory is out of range.
THEOREM MemoryIsSafe == Spec => []MemorySafe
<1>1. IInv => MemorySafe
  BY DEF IInv, MemorySafe, Ends
<1>. QED
  BY <1>1, Invariance, PTL

\* An iteration that goes on leaves less gas, whatever its callee gives back.
THEOREM GasRunsOut == Spec => GasDecreases
<1>1. IInv /\ [Next]_vars => [status' = "running" /\ abort' = abort => gas' < gas]_vars
  <2>. SUFFICES ASSUME IInv, [Next]_vars, status' = "running", abort' = abort PROVE gas' < gas \/ UNCHANGED vars
    OBVIOUS
  <2>1. CASE Iterate
    BY <2>1, IterateStep DEF Executed
  <2>2. CASE Cancel
    BY <2>2 DEF Cancel, IInv
  <2>. QED
    BY <2>1, <2>2 DEF Next
<1>. QED
  BY <1>1, Invariance, PTL DEF Spec, GasDecreases
=============================================================================
