---------------------------- MODULE Interpreter ----------------------------
(***************************************************************************)
(* The loop of VMInterpreter.Run (vm/ethvm/interpreter.go) over one frame, *)
(* for any code.  Each iteration validates the stack and charges gas by    *)
(* the table of EvmOps, grows the memory, and executes the instruction.    *)
(* The code is not followed: any entry of the table may be next, with any  *)
(* of the Operands.  A call or a creation is one step, in which the callee *)
(* uses some of the gas it is given.                                       *)
(*                                                                         *)
(* The stack is its length, the memory its size.  An access outside either *)
(* would panic; it is kept here as a status that the properties exclude.   *)
(***************************************************************************)
EXTENDS EvmGas

CONSTANTS InitialGas,   \* gas of the frame
          InitialSlots, \* the contract's slot when the frame starts
          Operands      \* [op -> what the stack may hold when op executes]

\* Operands may be of any size; where an address is used there are two.
Places == (0 .. 6) \cup {WordLen, ByteLen}
ASSUME InterpreterAssumption ==
    /\ InitialGas \subseteq 0 .. Wrap - 1
    /\ InitialSlots \subseteq [original : 0 .. 1, current : 0 .. 1]
    /\ \A op \in DOMAIN JumpTable : \A args \in Operands[op] :
          /\ args \in [Places -> Nat] /\ args[WordLen] = WordBytes /\ args[ByteLen] = 1
          /\ Touched(JumpTable[op].dynamicGas, args) \subseteq {Self, Nobody}

VARIABLES status,       \* running, or how the frame ended
          stack,        \* Stack.len()
          returnData,   \* len(interpreter.returnData)
          readOnly,     \* interpreter.readOnly
          abort         \* vm.abort, set by another goroutine

vars == <<gas, mem, lastGasCost, accessed, slotAccessed, slot, refund, status, stack, returnData, readOnly, abort>>
substate == <<accessed, slotAccessed, refund>>

\* What may be executed next: an entry, its effect and the operands.  The
\* memory the entry declares and the end of what the effect uses depend on
\* the operands alone.  Operations that are alike are one choice.
Reaches(s, args) == IF args[s[2]] % Wrap = 0 THEN 0 ELSE (args[s[1]] % Wrap) + (args[s[2]] % Wrap)
Iteration(op, args) ==
    LET spans == execute[op].spans
    IN  [entry |-> JumpTable[op], effect |-> execute[op],
         size |-> memorySize(JumpTable[op].memorySize, args),
         reach |-> Largest({Reaches(s, args) : s \in spans} \cup {0}),
         args |-> [n \in DOMAIN args \ {s[1] : s \in spans} |-> args[n]]]
Iterations == UNION {{Iteration(op, args) : args \in Operands[op]} : op \in DOMAIN JumpTable}

\* PrepareAccessList is commented out (process_transition.go:349): a contract
\* called by a transaction is not in the access list, one that is called by a
\* contract is.
Init ==
    /\ gas \in InitialGas /\ mem = 0 /\ lastGasCost = 0
    /\ accessed \in {{}, {Self}} /\ slotAccessed = FALSE /\ slot \in InitialSlots /\ refund = 0
    /\ status = "running" /\ stack = 0 /\ returnData = 0 /\ readOnly \in BOOLEAN /\ abort = FALSE

End(how) == status' = how /\ UNCHANGED <<gas, mem, lastGasCost, substate, slot, stack, returnData, readOnly, abort>>

Running == status = "running"
Fits(i) == stack >= i.entry.minStack /\ stack <= i.entry.maxStack
left(i) == gas - i.entry.constantGas
dynamicCost(i) == IF i.size = Fails THEN Fails ELSE dynamicGas(i.entry.dynamicGas, i.args, i.size, left(i))

Stores(i) == i.entry.dynamicGas = "gasSStoreEIP3529"
Sentry(i) == Stores(i) /\ left(i) > Price.SstoreSentryGas
NotInList(i) == Sentry(i) /\ ~slotAccessed /\ Self \notin accessed
UncheckedRefund(i) == FALSE
SubRefundPanics(i) ==
    /\ Sentry(i) /\ slot.current # i.args[1]
    /\ slot.original # 0 /\ slot.current = 0 /\ refund < Price.SstoreClearsScheduleRefund

Forbidden(i) ==
    readOnly /\ (i.effect.guarded = "always" \/ (i.effect.guarded = "value" /\ i.args[2] # 0))

-----------------------------------------------------------------------------
(* How an iteration ends a frame before the instruction changes anything.    *)
(* What a failed frame did is reverted, and its gas is gone.                 *)

BadStack(i) == ~Fits(i) /\ End("failed")
OutOfGas(i, cost) == (left(i) < 0 \/ cost > left(i)) /\ End("failed")

\* gasSStoreEIP3529 panics at an address that is not in the access list, and
\* SubRefund at a counter that would be negative.
Panic(i) == End(IF NotInList(i) THEN "not in the access list" ELSE "negative refund")

WriteProtection(i) == Forbidden(i) /\ End("failed")

-----------------------------------------------------------------------------
(* The gas is paid, the memory grown, and the instruction executes.          *)

\* Charges i, and what is spent beside by a callee.
Pay(i, cost, spent) ==
    LET kind == i.entry.dynamicGas
    IN  /\ gas' = left(i) - cost - spent
        /\ mem' = Largest({mem, i.size})
        /\ lastGasCost' = IF i.size > mem THEN TotalFee(toWordSize(i.size)) ELSE lastGasCost
        /\ accessed' = accessed \cup Touched(kind, i.args)
        /\ slotAccessed' = (slotAccessed \/ kind \in {"gasSLoadEIP2929", "gasSStoreEIP3529"})
        /\ refund' = refund + (IF Stores(i) THEN sstoreRefund(i.args[1]) ELSE 0)
        /\ UNCHANGED <<slot, readOnly, abort>>

\* The frame is over, or goes on, unless the instruction went out of bounds.
StackFault(i) == i.effect.touches > stack \/ stack + i.effect.net > StackLimit
Becomes(i, how) ==
    /\ status' = IF StackFault(i) THEN "stack fault" ELSE IF i.reach > mem' THEN "memory fault" ELSE how
    /\ stack' = stack + i.effect.net

Outcome == [next |-> "running", stop |-> "stopped", revert |-> "reverted", fail |-> "failed"]
Continue(i, cost) ==
    /\ i.effect.then \in DOMAIN Outcome
    /\ Pay(i, cost, 0)
    /\ Becomes(i, Outcome[i.effect.then])
    /\ UNCHANGED returnData

\* Any position may be a jump destination or not.  A set abort flag ends the
\* frame as if it had stopped.
Jump(i, cost) ==
    /\ i.effect.then = "jump" /\ Pay(i, cost, 0)
    /\ IF abort THEN Becomes(i, "cut") ELSE \E how \in {"running", "failed"} : Becomes(i, how)
    /\ UNCHANGED returnData

ReturnDataCopy(i, cost) ==
    /\ i.effect.then = "returnData" /\ Pay(i, cost, 0)
    /\ Becomes(i, IF i.args[1] + i.args[2] > returnData THEN "failed" ELSE "running")
    /\ UNCHANGED returnData

\* What a callee is given.  CREATE keeps a sixth of the gas that is left,
\* CREATE2 one part in CallShare; the gas of a call is part of its cost.
Endowment(i, cost) ==
    CASE i.effect.then = "create" -> left(i) - cost - (left(i) - cost) \div 6
      [] i.effect.then = "create2" -> left(i) - cost - (left(i) - cost) \div CallShare
      [] OTHER -> calleeGas(i.entry.dynamicGas, i.args, i.size, left(i))
                  + (IF i.entry.dynamicGas \in {"gasCallEIP2929", "gasCallCodeEIP2929"} /\ i.args[2] # 0
                     THEN Price.CallStipend ELSE 0)

Call(i, cost) ==
    /\ i.effect.then \in {"call", "create", "create2"}
    /\ \E back \in 0 .. Endowment(i, cost) :
          Pay(i, cost, (IF i.effect.then = "call" THEN 0 ELSE Endowment(i, cost)) - back)
    /\ returnData' \in {0, WordBytes}
    /\ Becomes(i, "running")

\* The cost is not asked for where the code ends before it computes it.
Execute(i, cost) ==
    \/ OutOfGas(i, cost)
    \/ /\ left(i) >= 0 /\ cost <= left(i)
       /\ \/ WriteProtection(i)
          \/ ~Forbidden(i) /\ (Continue(i, cost) \/ Jump(i, cost) \/ ReturnDataCopy(i, cost) \/ Call(i, cost))

Iterate ==
    /\ Running
    /\ \E i \in Iterations :
          \/ BadStack(i)
          \/ Fits(i) /\ (NotInList(i) \/ SubRefundPanics(i)) /\ Panic(i)
          \/ Fits(i) /\ ~NotInList(i) /\ ~SubRefundPanics(i) /\ Execute(i, dynamicCost(i))

\* ETHVM.Cancel, at any time.
Cancel == Running /\ ~abort /\ abort' = TRUE
          /\ UNCHANGED <<gas, mem, lastGasCost, substate, slot, status, stack, returnData, readOnly>>

Next == Iterate \/ Cancel
Spec == Init /\ [][Next]_vars /\ WF_vars(Iterate)

-----------------------------------------------------------------------------
Ends == {"stopped", "reverted", "failed", "cut", "not in the access list", "negative refund"}

\* Every variable has its type: in particular no uint64 underflows, neither
\* gas nor the refund counter.
TypeOK ==
    /\ gas \in 0 .. Wrap - 1 /\ mem \in 0 .. Wrap - 1 /\ lastGasCost \in 0 .. Wrap - 1
    /\ accessed \subseteq {Self, Nobody} /\ slotAccessed \in BOOLEAN /\ slot \in [original : 0 .. 1, current : 0 .. 1]
    /\ refund \in Nat /\ stack \in 0 .. StackLimit + 1 /\ returnData \in {0, WordBytes}
    /\ status \in Ends \cup {"running", "stack fault", "memory fault"}
    /\ readOnly \in BOOLEAN /\ abort \in BOOLEAN

\* The minStack and maxStack of jump_table.go suffice for what the functions
\* of instructions.go do: no instruction that passes the validation of
\* interpreter.go:171 pops from an empty stack or pushes beyond the limit.
StackSafe == status # "stack fault" /\ stack <= StackLimit

\* The memorySize functions and the gas of an entry cover what its instruction
\* reads and writes, for operands of any size: Memory.Set never panics with
\* "invalid memory: store empty" (memory.go:26), and no slice is out of range.
MemorySafe == status # "memory fault"

\* An iteration that goes on leaves the contract less gas than it had, also
\* when its callee gives back all it got with the stipend: code without end
\* runs out of gas.
GasDecreases == [][status' = "running" /\ abort' = abort => gas' < gas]_vars

\* The loop ends, whatever the code.
Halts == <>~Running

\* "impossible case: address was not present in access list during sstore op"
\* (operations_acl.go:34).
SstoreAddressPresent == status # "not in the access list"
=============================================================================
