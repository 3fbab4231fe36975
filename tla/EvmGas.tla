------------------------------- MODULE EvmGas -------------------------------
(***************************************************************************)
(* The dynamic gas of an instruction: vm/ethvm/gas_table.go, gas.go,       *)
(* common.go, memory_table.go and operations_acl.go.                       *)
(*                                                                         *)
(* Gas is a uint64.  A function that returns an error and one that returns *)
(* more than the contract has end in the same ErrOutOfGas, so an error is  *)
(* written here as the cost Fails, more than any uint64.                   *)
(***************************************************************************)
EXTENDS EvmOps

CONSTANTS Root,         \* 2^32: a uint64 is less than Root * Root
          WordBytes,    \* 32, the bytes of a memory word
          CallShare,    \* 64: a caller keeps one part in CallShare
          MaxCodeSize,  \* params.MaxCodeSize
          Self,         \* the contract's address
          Nobody        \* an address without an account: StateDB.Empty

ASSUME GasAssumption ==
    /\ Root \in Nat \ {0} /\ WordBytes \in 1 .. Root /\ CallShare \in Nat \ {0} /\ MaxCodeSize \in Nat
    /\ Self \in Nat /\ Nobody \in Nat /\ Self # Nobody
    /\ Price.WarmStorageReadCost <= Price.ColdAccountAccessCost
    /\ Price.ColdSloadCost + Price.WarmStorageReadCost <= Price.SstoreResetGas
    /\ Price.WarmStorageReadCost <= Price.SstoreSetGas
    /\ Price.CallStipend < Price.CallValueTransferGas

VARIABLES gas,            \* Contract.Gas
          mem,            \* len(Memory.store)
          lastGasCost,    \* Memory.lastGasCost
          accessed,       \* addresses of the access list
          slotAccessed,   \* the contract's slot is in the access list
          slot,           \* the slot in StateDB: committed and current value
          refund          \* StateDB.GetRefund()

Wrap == Root * Root
Fails == Wrap
SafeAdd(a, b) == IF a + b >= Wrap THEN Fails ELSE a + b
SafeMul(a, b) == IF a * b >= Wrap THEN Fails ELSE a * b
Uint64WithOverflow(v) == IF v >= Wrap THEN Fails ELSE v
toWordSize(size) == (size + WordBytes - 1) \div WordBytes

\* The base of a call is at most MaxBase: memory is paid up to Root - 1 words.
\* It is small beside what a caller of Wrap gas would have to keep.
MaxBase == (Root - 1) * Price.MemoryGas + ((Root - 1) * (Root - 1)) \div Price.QuadCoeffDiv
           + Price.CallNewAccountGas + Price.CallValueTransferGas
ASSUME BaseAssumption == MaxBase + Price.ColdAccountAccessCost <= (Wrap - MaxBase) \div CallShare

Largest(S) == CHOOSE x \in S : \A y \in S : y <= x

(* The memory an instruction declares it needs, in whole words.              *)
UncheckedEnd(off, len) == IF len = 0 THEN 0 ELSE (off + len) % Wrap
calcMemSize64(off, len) == IF len >= Wrap THEN Fails ELSE IF len = 0 THEN 0 ELSE SafeAdd(Uint64WithOverflow(off), len)
memorySize(mems, args) ==
    LET ends == {calcMemSize64(args[s[1]], args[s[2]]) : s \in DeclaredSpans[mems]} \cup {0}
    IN  IF Fails \in ends THEN Fails ELSE SafeMul(toWordSize(Largest(ends)), WordBytes)

(* 0x1FFFFFFFE0 is 32 * (2^32 - 1): squares of more words do not fit.        *)
Highest == WordBytes * (Root - 1)
TotalFee(words) == (words * Price.MemoryGas + ((words * words) % Wrap) \div Price.QuadCoeffDiv) % Wrap
memoryGasCost(size) ==
    IF size > Highest THEN Fails
    ELSE IF size > mem THEN (TotalFee(toWordSize(size)) - lastGasCost) % Wrap ELSE 0

WordGas(n, price) == IF n >= Wrap THEN Fails ELSE SafeMul(toWordSize(n), price)
memoryCopierGas(size, n) == SafeAdd(memoryGasCost(size), WordGas(n, Price.CopyGas))
gasKeccak256(size, n) == SafeAdd(memoryGasCost(size), WordGas(n, Price.Keccak256WordGas))
makeGasLog(n, size, data) ==
    SafeAdd(SafeAdd(memoryGasCost(size), Price.LogGas + n * Price.LogTopicGas),
            SafeMul(Uint64WithOverflow(data), Price.LogDataGas))
gasCreateEip3860(size, code, price) ==
    IF code > 2 * MaxCodeSize THEN Fails ELSE SafeAdd(memoryGasCost(size), price * toWordSize(code))
gasExpEIP158(bytes) == SafeAdd(bytes * Price.ExpByte, Price.ExpGas)

(* EIP-2929: the first use of an address or of a slot costs more.            *)
coldCost(addr) == IF addr \in accessed THEN 0 ELSE Price.ColdAccountAccessCost - Price.WarmStorageReadCost
gasSLoadEIP2929 == IF slotAccessed THEN Price.WarmStorageReadCost ELSE Price.ColdSloadCost
\* The contract has funds to pass on.
gasSelfdestructEIP3529(addr) ==
    (IF addr \in accessed THEN 0 ELSE Price.ColdAccountAccessCost)
    + (IF addr = Nobody THEN Price.CreateBySelfdestructGas ELSE 0)

gasSStoreEIP3529(left, value) ==
    LET cold == IF slotAccessed THEN 0 ELSE Price.ColdSloadCost
    IN  IF left <= Price.SstoreSentryGas THEN Fails
        ELSE IF slot.current = value \/ slot.original # slot.current THEN cold + Price.WarmStorageReadCost
        ELSE IF slot.original = 0 THEN cold + Price.SstoreSetGas
        ELSE cold + (Price.SstoreResetGas - Price.ColdSloadCost)

\* What SSTORE adds to the refund counter.
sstoreRefund(value) ==
    LET dirty == slot.original # slot.current
        clear(cond) == IF cond THEN Price.SstoreClearsScheduleRefund ELSE 0
    IN  IF slot.current = value THEN 0
        ELSE clear(value = 0 /\ slot.original # 0) - clear(dirty /\ slot.original # 0 /\ slot.current = 0)
             + (IF dirty /\ slot.original = value
                THEN (IF value = 0 THEN Price.SstoreSetGas
                      ELSE Price.SstoreResetGas - Price.ColdSloadCost) - Price.WarmStorageReadCost
                ELSE 0)

(* The gas of a callee.  available - base is not checked: when the caller    *)
(* has less than base it wraps, and the sum is more than the caller has.     *)
callGas(available, base, requested) ==
    LET left == (available - base) % Wrap
        share == left - left \div CallShare
    IN  IF requested >= Wrap \/ share < requested THEN share ELSE requested

\* gasCall and gasCallCode; gasDelegateCall and gasStaticCall have no value.
FreeCallCode(kind, args, size) ==
    SafeAdd(IF kind = "gasCallEIP2929" /\ args[2] # 0 THEN Price.CallValueTransferGas ELSE 0, memoryGasCost(size))
callBase(kind, args, size) ==
    LET transfers == kind \in {"gasCallEIP2929", "gasCallCodeEIP2929"} /\ args[2] # 0
    IN  SafeAdd((IF transfers /\ kind = "gasCallEIP2929" /\ args[1] = Nobody THEN Price.CallNewAccountGas ELSE 0)
                + (IF transfers THEN Price.CallValueTransferGas ELSE 0),
                memoryGasCost(size))

\* vm.callGasTemp and the cost of a call, when left is what the contract has.
calleeGas(kind, args, size, left) == callGas(left - coldCost(args[1]), callBase(kind, args, size), args[0])
makeCallVariantGasCallEIP2929(kind, args, size, left) ==
    LET base == callBase(kind, args, size)
        total == SafeAdd(base, calleeGas(kind, args, size, left))
    IN  IF left < coldCost(args[1]) \/ base = Fails \/ total = Fails THEN Fails
        ELSE (total + coldCost(args[1])) % Wrap

Topics(kind) == CHOOSE n \in 0 .. 4 : kind = makeGasLogs[n + 1]
CallKinds == {"gasCallEIP2929", "gasCallCodeEIP2929", "gasDelegateCallEIP2929", "gasStaticCallEIP2929"}
dynamicGas(kind, args, size, left) ==
    CASE kind = "none" -> 0
      [] kind \in {"gasMLoad", "gasMStore", "gasMStore8", "gasReturn", "gasRevert"} -> memoryGasCost(size)
      [] kind \in {"gasCallDataCopy", "gasCodeCopy", "gasReturnDataCopy"} -> memoryCopierGas(size, args[2])
      [] kind = "gasExtCodeCopyEIP2929" -> SafeAdd(memoryCopierGas(size, args[3]), coldCost(args[0]))
      [] kind = "gasKeccak256" -> gasKeccak256(size, args[1])
      [] kind = "gasExpEIP158" -> gasExpEIP158(args[1])
      [] kind = "gasCreateEip3860" -> gasCreateEip3860(size, args[2], Price.InitCodeWordGas)
      [] kind = "gasCreate2Eip3860" -> gasCreateEip3860(size, args[2], Price.InitCodeWordGas + Price.Keccak256WordGas)
      [] kind = "gasEip2929AccountCheck" -> coldCost(args[0])
      [] kind = "gasSLoadEIP2929" -> gasSLoadEIP2929
      [] kind = "gasSStoreEIP3529" -> gasSStoreEIP3529(left, args[1])
      [] kind = "gasSelfdestructEIP3529" -> gasSelfdestructEIP3529(args[0])
      [] kind \in CallKinds -> makeCallVariantGasCallEIP2929(kind, args, size, left)
      [] OTHER -> makeGasLog(Topics(kind), size, args[1])

\* The address whose use the cost records in the access list.
Touched(kind, args) ==
    CASE kind \in CallKinds -> {args[1]}
      [] kind \in {"gasExtCodeCopyEIP2929", "gasEip2929AccountCheck", "gasSelfdestructEIP3529"} -> {args[0]}
      [] kind = "gasSLoadEIP2929" \/ kind = "gasSStoreEIP3529" -> {Self}
      [] OTHER -> {}
=============================================================================
