----------------------------- MODULE CallFrames -----------------------------
(***************************************************************************)
(* The call frames of one transaction: Call, CallCode, DelegateCall,       *)
(* StaticCall, create of vm/ethvm/ethvm.go and the begin and end of        *)
(* VMInterpreter.Run, for contracts that do anything.                      *)
(*                                                                         *)
(* A frame changes three things: the write and read set of the             *)
(* transaction, its logs, and the StateDB, of which alone a failing frame  *)
(* restores its snapshot.  Interpreter treats a callee as one step; here   *)
(* the code between calls is abstract and costs one unit of gas a step,    *)
(* which Interpreter!GasDecreases allows.                                  *)
(***************************************************************************)
EXTENDS RWSet, Sequences

CONSTANTS CreatAccountKey, SetCodeKey, Slot,
          User,             \* the sender of the transaction
          Contracts,        \* accounts with code
          Precompile, Fresh, \* no account there; Fresh is where CREATE2 creates
          Funds,            \* [account -> balance]
          CallCreateDepth,  \* params.CallCreateDepth
          Gas               \* of the transaction, beyond the intrinsic gas

Account == DOMAIN Funds
ASSUME FramesAssumption ==
    /\ {User, Precompile, Fresh} \cup Contracts = Account /\ Funds \in [Account -> Nat]
    /\ BalanceKey \notin {SubBalanceKey, NonceKey, CreatAccountKey, SetCodeKey, Slot}
    /\ CallCreateDepth \in Nat /\ Gas \in Nat

VARIABLES frames,       \* the frames that run; the first stands for the transaction
          writeSet, reads, logs,    \* TxContext; of the read set, its entries
          db,           \* StateDB: balances, the accounts that exist, those that are dead
          readOnly,     \* VMInterpreter.readOnly
          hasData,      \* the transaction has data: NewVM chose an interpreter
          stage         \* ready, running, done or panic

vars == <<frames, writeSet, reads, logs, db, readOnly, hasData, stage>>
effects == <<writeSet, reads, logs, db>>

(* Costs of a step, of a call, of the value it carries and of code, with the *)
(* order they have in gas_table.go.                                          *)
StepCost == 1
CallCost(value) == IF value > 0 THEN 3 ELSE 1
StipendForAll(value) == 2
Stipend(value) == IF value > 0 THEN 1 ELSE 0

top == frames[Len(frames)]
Depth == Len(frames) - 1                    \* vm.depth
Exist(a) == a \in db.exist

\* Of the code at a: StaticCall asks the StateDB only.
StoredCode(a) == a \in Contracts
Code(a) == StoredCode(a) \/ Has(writeSet, a, SetCodeKey)

\* CanTransfer, or the balance in the write set; not what is already debited.
CanPay(a, value) ==
    (IF Has(writeSet, a, BalanceKey) THEN ValueOf(writeSet, a, BalanceKey) ELSE db.balance[a]) >= value

-----------------------------------------------------------------------------
(* Init is what TransitionDb has when it calls Call or Create.               *)

Frame(self, asked, given, creates) ==
    [self |-> self, gas |-> given, creates |-> creates, snapshot |-> db,
     asked |-> asked, set |-> asked /\ ~readOnly,
     before |-> [cache |-> writeSet.cache, logs |-> logs, db |-> db]]

Init ==
    /\ writeSet = NewSet /\ reads = {<<User, BalanceKey>>} /\ logs = 0 /\ readOnly = FALSE
    /\ db = [balance |-> Funds, exist |-> Account \ {Precompile, Fresh}, dead |-> {}]
    /\ frames = <<Frame(User, FALSE, Gas, {})>>
    /\ hasData \in BOOLEAN /\ stage = "ready"

\* The caller has `rest' and goes on; a transaction has made its only call.
Continue(rest) ==
    /\ frames' = [frames EXCEPT ![Len(frames)].gas = rest]
    /\ stage' = (IF Len(frames) = 1 THEN "done" ELSE "running")
    /\ UNCHANGED <<readOnly, hasData>>

Refused(rest, given) == Continue(rest + given) /\ UNCHANGED effects
NeverTooDeep == FALSE
TooDeep == Depth > CallCreateDepth

\* VMInterpreter.Run begins f, or there is no interpreter and it panics.
Run(f, rest) ==
    IF hasData
    THEN /\ frames' = Append([frames EXCEPT ![Len(frames)].gas = rest], f)
         /\ readOnly' = (readOnly \/ f.asked) /\ stage' = "running" /\ UNCHANGED hasData
    ELSE stage' = "panic" /\ UNCHANGED <<frames, readOnly, hasData>>

\* A precompiled contract succeeds, fails, or has not the gas.
RunPrecompiled(rest, given, done, undone) ==
    \/ \E left \in 0 .. given : Continue(rest + left) /\ done
    \/ Continue(rest) /\ undone

-----------------------------------------------------------------------------
(* The four calls.                                                           *)

\* What Call does before any code runs.
Transferred(addr, value) ==
    LET from == top.self
        created == IF Exist(addr) THEN writeSet ELSE WriteUpdate(writeSet, addr, CreatAccountKey, 0, 0)
        paid == WriteUpdate(created, from, SubBalanceKey, value, 0)
    IN  IF value = 0 THEN created ELSE WriteUpdate(paid, addr, BalanceKey, value, db.balance[addr])

OnlyPayerRead(addr, value) == reads \cup {<<top.self, BalanceKey>>}
ReadBy(addr, value) ==
    reads \cup {<<top.self, BalanceKey>>} \cup (IF value > 0 THEN {<<addr, BalanceKey>>} ELSE {})

Call(addr, value, given, rest) ==
    LET absent == ~Exist(addr) /\ addr # Precompile /\ value = 0
        moves == /\ writeSet' = Transferred(addr, value) /\ reads' = ReadBy(addr, value) /\ UNCHANGED <<logs, db>>
    IN  IF TooDeep \/ (value > 0 /\ ~CanPay(top.self, value)) THEN Refused(rest, given)
        ELSE IF absent
        THEN Continue(rest + given) /\ reads' = reads \cup {<<top.self, BalanceKey>>} /\ UNCHANGED <<writeSet, logs, db>>
        ELSE IF addr = Precompile THEN RunPrecompiled(rest, given, moves, moves)
        ELSE /\ moves
             /\ IF Code(addr) THEN Run(Frame(addr, FALSE, given, {}), rest) ELSE Continue(rest + given)

\* CallCode and DelegateCall run the code of addr for the caller.
CallCode(addr, value, given, rest) ==
    /\ UNCHANGED effects
    /\ IF TooDeep \/ ~CanPay(top.self, value) THEN Continue(rest + given)
       ELSE IF addr = Precompile THEN RunPrecompiled(rest, given, TRUE, TRUE)
       ELSE IF Code(addr) THEN Run(Frame(top.self, FALSE, given, {}), rest) ELSE Continue(rest + given)
DelegateCall(addr, given, rest) == CallCode(addr, 0, given, rest)

\* Adding a balance of zero makes the account exist.
Touched(addr) == [db EXCEPT !.exist = @ \cup {addr}]
StaticCall(addr, given, rest) ==
    /\ UNCHANGED <<writeSet, reads, logs>>
    /\ IF TooDeep THEN Continue(rest + given) /\ UNCHANGED db
       ELSE IF addr = Precompile THEN RunPrecompiled(rest, given, db' = Touched(addr), UNCHANGED db)
       ELSE IF StoredCode(addr) THEN db' = Touched(addr) /\ Run(Frame(addr, TRUE, given, {}), rest)
       ELSE db' = Touched(addr) /\ Continue(rest + given)

\* Create passes the caller's address on, Create2 one of its own.  The nonce
\* is taken whatever comes of it.  An account with a nonce or code in the
\* StateDB is a collision, which costs all the gas.
Create(addr, taken, value, given, rest) ==
    LET from == top.self
        counted == WriteUpdate(writeSet, from, NonceKey, 0, 0)
        made == WriteUpdate(counted, addr, CreatAccountKey, 0, 0)
        paid == WriteUpdate(made, from, SubBalanceKey, value, 0)
    IN  IF TooDeep \/ ~CanPay(from, value) THEN Refused(rest, given)
        ELSE /\ reads' = reads \cup {<<from, NonceKey>>} /\ UNCHANGED <<logs, db>>
             /\ IF taken THEN writeSet' = counted /\ Continue(rest)
                ELSE /\ writeSet' = IF value > 0 THEN WriteUpdate(paid, addr, BalanceKey, value, db.balance[addr]) ELSE made
                     /\ Run(Frame(addr, FALSE, given, {addr}), rest)

Begin ==
    /\ stage = "ready"
    /\ \E value \in 0 .. 1 :
          \/ \E addr \in Account \ {User} : Call(addr, value, Gas, 0)
          \/ \E taken \in BOOLEAN : Create(User, taken, value, Gas, 0)

-----------------------------------------------------------------------------
(* What a running frame may do (instructions.go).                            *)

Running == stage = "running"

\* How Run ends and what its caller makes of it.  A creation stores the code
\* if it can pay for it; if it cannot, its error reverts nothing.
Leave(how) ==
    LET f == top
        stored == how = "ok" /\ f.creates # {} /\ f.gas >= StepCost
        back == CASE how = "failed" -> 0 [] stored -> f.gas - StepCost [] OTHER -> f.gas
    IN  /\ frames' = LET callers == SubSeq(frames, 1, Len(frames) - 1)
                     IN  [callers EXCEPT ![Len(callers)].gas = @ + back]
        /\ readOnly' = (readOnly /\ ~f.set)
        /\ writeSet' = IF stored THEN WriteUpdate(writeSet, f.self, SetCodeKey, 0, 0) ELSE writeSet
        /\ stage' = IF Len(frames) = 2 THEN "done" ELSE "running"
        /\ UNCHANGED hasData

Return ==
    \/ Leave("ok") /\ UNCHANGED <<reads, logs, db>>
    \/ \E how \in {"reverted", "failed"} : Leave(how) /\ db' = top.snapshot /\ UNCHANGED <<reads, logs>>

\* ErrWriteProtection, like any error, ends the frame.
Unguarded(value) == TRUE
Allowed(value) == ~readOnly \/ value = 0
Protected == ~readOnly

Spend(cost) == top.gas >= cost /\ Continue(top.gas - cost)
Store ==
    /\ Protected /\ Spend(StepCost)
    /\ writeSet' = WriteUpdate(writeSet, top.self, Slot, 0, 0) /\ UNCHANGED <<reads, logs, db>>
MakeLog == Protected /\ Spend(StepCost) /\ logs' = logs + 1 /\ UNCHANGED <<writeSet, reads, db>>

\* SELFDESTRUCT changes the StateDB itself.  Suicide empties the account.
Selfdestruct ==
    /\ Protected /\ Leave("ok") /\ UNCHANGED <<reads, logs>>
    /\ \E heir \in Account \ {Precompile} :
          db' = [balance |-> [[db.balance EXCEPT ![heir] = @ + db.balance[top.self]] EXCEPT ![top.self] = 0],
                 exist |-> db.exist \cup {heir}, dead |-> db.dead \cup {top.self}]

\* A call with what remains of the gas, after its cost, divided.
Calls ==
    \E value \in 0 .. 1, addr \in Account \ {User} :
        LET left == top.gas - CallCost(value)
        IN  /\ left >= 0
            /\ \E given \in {left - left \div 2} :
                  LET rest == left - given
                      all == given + Stipend(value)
                  IN  \/ Allowed(value) /\ Call(addr, value, all, rest)
                      \/ CallCode(addr, value, all, rest)
                      \/ value = 0 /\ DelegateCall(addr, given, rest)
                      \/ value = 0 /\ StaticCall(addr, given, rest)
                      \/ Protected /\ addr = Fresh /\ \E at \in {Fresh, top.self} : Create(at, StoredCode(at), value, given, rest)

Execute == Running /\ (Store \/ MakeLog \/ Selfdestruct \/ Calls \/ Return)
Next == Begin \/ Execute
Spec == Init /\ [][Next]_vars /\ WF_vars(Next)

-----------------------------------------------------------------------------
\* Every variable has its type.  Run executes at most one frame more than
\* CallCreateDepth.
TypeOK ==
    /\ Depth \in 0 .. CallCreateDepth + 1
    /\ \A i \in DOMAIN frames : frames[i].gas \in 0 .. Gas + Stipend(1)
    /\ logs \in Nat /\ reads \subseteq Account \X {BalanceKey, NonceKey} /\ DOMAIN writeSet.cache \subseteq Account
    /\ db.exist \subseteq Account /\ db.dead \subseteq Account /\ \A a \in Account : db.balance[a] \in Nat
    /\ readOnly \in BOOLEAN /\ hasData \in BOOLEAN /\ stage \in {"ready", "running", "done", "panic"}

\* StaticCall runs code "while disallowing any modifications to the state":
\* since it began, the write set, the logs and the StateDB are as they were,
\* but for accounts that exist now, and for precompiled contracts, which Call
\* creates even there.
StaticChangesNothing ==
    \A i \in DOMAIN frames : frames[i].asked =>
        LET b == frames[i].before
        IN  /\ Entries(writeSet.cache) = Entries(b.cache) \cup (Entries(writeSet.cache) \cap {<<Precompile, CreatAccountKey>>})
            /\ logs = b.logs /\ db.balance = b.db.balance /\ db.dead = b.db.dead

\* A balance in the write set was computed from one that was read, so the
\* read set must say so: conflict detection sees the two transactions that
\* credit one account by nothing else.  Created accounts are seen by the key
\* of the creation.
CreditsRestOnReads ==
    \A a \in Account : Has(writeSet, a, BalanceKey) /\ ~Has(writeSet, a, CreatAccountKey) => <<a, BalanceKey>> \in reads

\* No call, however nested and however it ends, leaves the transaction with
\* more gas than before: a callee gives back at most what it was given, and
\* the stipend is paid for.
TotalGas(fs) ==
    LET sum[n \in 0 .. Len(fs)] == IF n = 0 THEN 0 ELSE sum[n - 1] + fs[n].gas IN sum[Len(fs)]
GasNeverMade == [][stage # "ready" => TotalGas(frames') <= TotalGas(frames)]_vars

\* Call "reverses the state in case of an execution error" (ethvm.go:505):
\* a frame that lost its gas to an error left nothing in the write set.
FailedFrameLeavesNothing ==
    [][Running /\ top.creates = {} /\ top.gas > 0 /\ Leave("failed") => Entries(writeSet'.cache) = Entries(top.before.cache)]_vars

\* "Fail if we're trying to transfer more than the available balance"
\* (ethvm.go:512): what an account pays is never more than it has.
NeverOverdrawn ==
    \A a \in Account : Has(writeSet, a, SubBalanceKey) =>
        ValueOf(writeSet, a, SubBalanceKey) <=
            (IF Has(writeSet, a, BalanceKey) THEN ValueOf(writeSet, a, BalanceKey) ELSE Funds[a])
=============================================================================
