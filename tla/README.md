# A TLA+ model of DesignVM

DesignVM executes the transactions of a block in parallel. It cuts the block
into levels, runs the transactions of a level in one goroutine each against a
copy of the state, collects what each of them read and wrote, commits those that
do not conflict and executes the others again. The virtual machine below it is
derived from go-ethereum's and keeps its changes in read and write sets instead
of the state.

This directory models that program: TLA+ modules translated from the Go source,
TLC configurations that check them on small instances, and proofs of theorems
for every instance. `PROJECT.json` says which lines of the
source each definition stands for.

## Inventory

| Component | State | Operations | Interacts with | What is hard | What makes it correct |
|---|---|---|---|---|---|
| `MarkCache` (`transcut/transactionMark.go`) | marks of accounts, levels of items, highest level | `FillingTransCut` / `SetMarkCache`, `GetMaxLevel`, `GetLevelItemWithMark` | filled and read by `ExecBenchTxs` | three quantities that must stay in step; the mark of a recipient is always stored as 0; a nil `To` | no transaction lost or reordered, no level out of range or empty, level 0 free of sharing |
| `ReadSet`, `WriteSet` (`vm/ethvm/ethvm.go`) | account -> key -> value, two counters | `UpdateCache`, `GetAddressAndKey` | written by the transition and the VM, read by conflict detection and `Less` | balances are summed, counters kept beside the maps, maps shared by reference | the counters count the entries |
| `CacheSet` (`process/cacheSet.go`) | records of a level and their order | `SetCache`, `Len`/`Less`/`Swap` under `sort.Sort` | filled from the results | arrival order; a comparison that is not an order | one order, independent of arrival |
| `ExecBenchTxs` (`process/process.go`) | levels, result channel, shared copy, gas pool, used gas | fill, start a level, join, detect, next level | everything below | goroutines sharing a copy and the variable `gp`; channels that block when empty | terminates, complete results, serial equivalence of what is committed in place |
| `DetectConflicts`, `RelExecTx`, `UpdateWrittenCacheToDataBase` | `wCache.Written`, results, conflicting hashes, the state | merge, commit, execute again | transition, `StateDB` | failed transactions, shared maps, second execution on the real state, accounts that are created | agrees with committing the results one by one |
| `ProcessTransition` (`process/process_transition.go`) | gas, initial gas | `TransitionDb`, `ReTransitionDb`, `buyGas`, `refundGas` | VM, sets, gas pool | half of the checks read a state other goroutines change; uint64 wrap | consensus clauses 1-6 listed above `TransitionDb` |
| `ExecTxsInOrder` and its commit | state, written pool | serial execution | the same transition | failed transactions keep the nonce | the reference for the parallel executor |
| `PreExecution` | context, abort flag | run, timeout, cancel | VM loop | timer against completion | an answer is a complete execution |
| `ExecPool` (`process/execpool.go`) | task queue, results | run, add, wait, drain | transition | a receive that starts after every send | one result per item, nobody working when it returns |
| `ETHVM` call frames | depth, snapshots, sets, readOnly | `Call`, `CallCode`, `DelegateCall`, `StaticCall`, `Create`, `Create2` | interpreter, sets, `StateDB` | a revert restores the state and not the sets | a static call changes nothing, gas is never made |
| interpreter, instructions, gas tables, memory, stack | per frame | run loop, 140 opcodes | sets, gas, access list | limits declared by hand in one file and relied on in another; uint64 arithmetic | no access out of range, every iteration costs gas, every frame ends |
| audit of WebAssembly code (`vm/ethvm/ewasm_linker.go`) | a queue in memory, tasks and two numbers in a database | `GenAuditTask`, `auditLoop`, `processAuditTask`, `Shutdown` | the node's databases | the process may end between any two writes; audits overtake each other | an acknowledged task is kept and audited |
| WebAssembly interpreter and host functions | termination type, frame | `call`, `create`, `finish`, `revert` | call frames | termination type left from an inner frame | one outcome per frame |
| precompiles, parameters, encodings, logger | none | - | - | - | not modelled |

`PROJECT.json` lists the same components with their sources, and under
`hazards` the lines where each hard behaviour bites.

## Modules

| Module | Models | State |
|---|---|---|
| `MarkOps` | the marking rule of `SetMarkCache` as operators on values | - |
| `MarkCache` | filling a block: one action per outcome of `SetMarkCache`, for a transfer and for a creation | `marks` = `fromAndToMark`, `items` = `Items`, `maxLevel`, `block` (history), `panicked` |
| `RWSet` | `ReadSet` and `WriteSet`: nested maps with their two counters | - |
| `CacheOrder` | `Less`, the sort and `SetCache` as operators | - |
| `TransferTx` | a plain transfer: its amounts and what they come to | - |
| `ExecBench` | `ExecBenchTxs` on a block of plain transfers, with its goroutines | see below |
| `AtomicBlock` | the abstract executor: a level takes effect in one step | balances and nonces, what is still to be executed |
| `LevelCommit` | the end of a level for arbitrary read and write sets: `SetCache`, sort, `DetectConflicts`, the commit, `RelExecTx`; beside it the serial commit | maps and state objects by name, as Go shares them |
| `EvmOps` | `jump_table.go` and, separately, what `instructions.go` does to stack and memory | - |
| `EvmGas` | `gas_table.go`, `gas.go`, `memory_table.go`, `operations_acl.go` with the width of uint64 | gas, memory, access list, slot, refund |
| `Interpreter` | the loop of `VMInterpreter.Run` over any code | the above, and the stack's length, `returnData`, `readOnly`, `abort` |
| `CallFrames` | the frames of one transaction over contracts that do anything | frames, the two sets, logs, `StateDB`, `readOnly` |
| `ExecPool` | `FillUpPoolWithTask` and its goroutines | the two channels, the items each goroutine has left |
| `AuditQueue` | `GenAuditTask`, `auditLoop`, `processAuditTask`, across lives of the process | the database, the channel, the calls and the audits under way |
| `MC...` | constants, symmetry and inputs for TLC | - |
| `MarkCacheProofs`, `ExecPoolProofs`, `AuditQueueProofs`, `CallFramesProofs`, `LevelCommitProofs`, `ExecBenchProofs`, `InterpreterProofs` | the theorems about the module of that name | - |
| `FoldTheorems` | what the folds of the community modules compute, for the proofs | - |

`ExecBench` composes `MarkOps`, `RWSet`, `CacheOrder` and `TransferTx`;
`LevelCommit` uses `RWSet` and `CacheOrder`, `CallFrames` uses `RWSet`, and
`Interpreter` stands on `EvmOps` and `EvmGas`. `Interpreter` treats a callee as
one step that gives back part of its gas; `CallFrames` treats the code between
two calls as steps of one unit of gas. `Interpreter`'s `GasDecreases` and
`CallFrames`'s `GasNeverMade` are what each assumes of the other.

### How `ExecBench` follows the code

The main goroutine goes through the phases *fill, level, running, detect, redo,
reCall, reCommit, done*; *stuck* is a channel receive that never returns and
*crashed* a panic.

- `Fill` is the loop over `FillingTransCut`; `StartLevel` the head of the level
  loop with `statedb.Copy()`; `Join` is `wg.Wait`, the loop that drains
  `resChan` and the sort; `Detect` is `DetectConflicts` with
  `UpdateWrittenCacheToDataBase`; `ReBuyGas`, `ReCall`, `ReCommit` are one round
  of `RelExecTx`; `NextLevel` is the end of the body.
- Each transaction of the level is a goroutine with a `pc`. An action ends where
  the goroutine touches something shared: the captured variable `gp`
  (`MakePool`, `PassPool`), the shared copy (`SetBalance`, `Have`,
  `CanTransfer`, `Call`, `Credit`, `Refund`, `PayTip`), a gas pool (`LoadGas`,
  `SubGas`, `LoadPool`, `AddGas`) or `usedGas` and the channel (`Send`).
- `gp` is assigned and read by the goroutines without a lock: `gpVar` names the
  pool it points to. A pool is one word read, compared and written back; whether
  the write uses the value compared or a value read again is left to the build, so
  `SubGas` and `AddGas` choose.
- `db` is the `StateDB`, `cp` the copy of the level: balance and nonce of each
  account. `GasPool` and `StateDB` are libraries outside the repository; their
  methods are modelled by how the code uses them.
- A transaction is known by its position in the block, and its position is also
  its hash, which `Less` compares last.

The scope is a block of transfers between existing accounts without code. Fee cap,
tip cap and gas price are one number. What a transaction that runs contract code
leaves behind enters through its read and write sets in `LevelCommit`.

### The abstract executor

`AtomicBlock` has no goroutines, sets, records or pools: a level takes effect in
one step `Level`, and the transactions in conflict take effect again, one at a
time, in `Fund` and `Settle`. `AtomicLevels` says that `ExecBench` implements it,
with `todo`, `redo` and `busy` computed from `ExecBench`'s phase, plan and
conflicts; TLC checks it as a property of the run `ExecBenchWide`, and `LevelsAreAtomic` proves
it for every block.

It says what the code does, and not more. The transactions that take effect in a
level change disjoint sets of balances, each by what it pays and is paid. But
the balance it is added to is not always that of the state: `buyGas` sets the
sender's balance in the copy all goroutines share, so another transaction may see
that value (`Seen`). A transaction that shares no account with the rest of its
level always takes effect. One that cannot pay its value, which takes a cheaper one of
its sender in the level (`Starved`), may leave a nonce, the debit of its gas (`Owed`), or
nothing: a failed record without a nonce is merged with all it wrote
(`cacheSet.go:209-233`). One that is executed again pays its value twice: `ReTransitionDb` adds it to the debit and
`ETHVM.Call` adds it again.

Blocks with tips are outside: the coinbase's balance is written without having
been recorded as read, so two tips of a level end as one.

### How `LevelCommit` follows the code

A transaction is the way it uses each account (`Uses`): sender, payee, payer of
value from a contract, reader or writer of a slot, creator, created. Maps have
names because `wCache.Written` takes over the map of a result's write set
(`cacheSet.go:215`) instead of a copy, and state objects have names because
`CreateAccount` replaces the object that was fetched before (`process.go:519`).
`Sort` takes one record to its place at a time (`Turn`), as the insertion sort
does; `Fetch` is the loop of goroutines that fetch the objects, `CommitAccount`
one round of the loop that receives them, in any order. `Redo` may leave any result
or end in a consensus error, after which `RelExecTx` writes to a receipt that is
nil: *crashed*.

`AgreesWithSerial` and `BalancesAddUp` except, by name, the accounts where the
parallel commit and the serial one differ:

- an account a failed transaction wrote: `DetectConflicts` keeps more than the
  nonce (`cacheSet.go:222`), see the finding of `LevelCommitFailed`;
- an account that was created: its balance and nonce go to the object that
  `CreateAccount` has replaced, and its code is not stored (`process.go:519, 532`);
- an account two transactions debit, or one debits and one credits: the debit has
  a key of its own, of which the merged map keeps the last (`ethvm.go:557`).

The conflict test misses a pair only in the last case, when the debited account
is a contract's and not a sender's.

### How `Interpreter` follows the code

The instruction table is written twice. `JumpTable` is what `jump_table.go`
declares of an opcode (a pair of name and number, so that PUSH1 to PUSH32 are 32 of
them): items popped and pushed, constant gas, the functions for
dynamic gas and memory size. `execute` is what the function in `instructions.go`
does: items it touches, pieces of memory it uses, whether it checks `readOnly`,
how the loop goes on. An iteration checks the first and performs the second, and
the status records an access the checks have let through. The code is not
followed: any opcode may be next, with operands that are small, at the limit of a
uint64 or beyond it.

A panic of the process is a status of its own: *not in the access list*
(`operations_acl.go:34`) and *negative refund* (`StateDB.SubRefund`). Both occur.
The second is reached because the gas of SSTORE looks at the `StateDB`, which
`opSstore` no longer writes: clearing a slot the block has already cleared
subtracts a refund that was never added. `abort` may be set at any step.

### How `CallFrames` follows the code

`Begin` chooses the transaction: a call or a creation, with or without data.
`NewVM` makes an interpreter only for a transaction with data (`ethvm.go:417`),
so one without data that calls code ends in *panic*; so does every call to code
under `PreExecution`, which never sets the data. A frame stores, logs, selfdestructs,
calls in one of the six ways, or returns in one of three: *returned*, *reverted*,
*failed*. What a failing frame restores is the snapshot of the `StateDB`; the
sets and the logs stay. `before` is what they were, for the properties.

### How `ExecPool` follows the code

The caller adds one slice of the items for each goroutine, closes the queue,
waits, and then receives. The queue has as many places as there are items; with
fewer items than goroutines a task waits for a goroutine to take one, which is
`AddTask` being disabled. Without any item the queue has no place at all: the
second disjunct of `AddTask` hands the task over. Nothing in the repository calls
`FillUpPoolWithTask`.

### How `AuditQueue` follows the code

`record`, `num`, `pre` and `status` are in the database, everything else in
memory. `Enter` to `Send` are `GenAuditTask`: the number is read, the task
stored, the number stored and sent, with the mutex held from the first to the
last. `MakeQueue` is the beginning of `auditLoop`, its two reads and
the `make` (`ewasm_linker.go:417-420`) in one step: a call that counts its number
after the reads and sends before the `make` blocks in the code with its number left out
of the queue, and in the model with its number in it; it does not return, and the
properties speak of calls that have. `Reload` puts one task into the
queue again, `Dispatch` is one round of the loop that follows, `SaveStatus` and
`SavePre` the two writes of `processAuditTask`. `Crash` may come between any two
steps, and keeps the database; a failed write after `Shutdown` is a panic and ends
in the same state, so that writes are disabled once `open` is false and `Crash`
stands for what happens. A send before the channel exists is a send on nil:
*blocked*, with the mutex held.

`Finding` is the comparison of the stored code with the sentinel's output; the
sentinel itself, the signature check and the number of the block are left out.
The constant `FinalOf` stands for the lookup of the code a result is stored under
(lines 376-380). It follows a second key when the first value is 31 bytes long, while the
comment at line 191 describes one level more for every code; a result is the one under
whatever that lookup yields.


## Runs

| Run | Instance | Shows |
|---|---|---|
| `MarkCache` | all blocks of up to 5 transfers and creations over 4 accounts | levels are complete, in block order, visitable and justified, level 0 shares nothing |
| `ExecBench` | seven blocks, every interleaving | fresh reads, complete results, right gas and nonces, a frozen state while goroutines run, and an end |
| `ExecBenchWide` | five blocks without tips, one with three transactions in a level | `ExecBench` implements `AtomicBlock` |
| `LevelCommit` | three transactions with every combination of 19 results, arriving in any order | one order; the parallel commit agrees with the serial one outside the cases named |
| `LevelCommitFailed` | two failed transactions | violated: more than the nonce is committed |
| `Interpreter` | every instruction, with every operand that matters, in any order | stack and memory are safe, gas falls, every frame ends |
| `InterpreterSstore` | the same | violated: SSTORE panics on an address that is not in the access list |
| `CallFrames` | frames of all kinds, nested to the limit | static calls change nothing, credits rest on reads, gas is never made |
| `CallFramesRevert` | the same | violated: a failed frame leaves its writes in the write set |
| `CallFramesOverdrawn` | the same | violated: an account pays twice from one balance |
| `ExecPool` | 3 goroutines, 0 to 5 items | every item once, nobody working when results are read, and an end |
| `AuditQueue` | 2 deployments, 2 lives of the process, a stop at any point | an acknowledged task stays, and what is lost is what is listed below |

### Bounds and why they are enough

- `MarkCache`: the marks of at most two accounts take part in one step; four
  accounts and five transactions give repeated senders, repeated recipients, a
  transfer to oneself, a reset mark that is used again, and three levels. The
  accounts are interchangeable, hence the symmetry set. `MaxTxs` bounds the
  block. The theorems are for all accounts and lengths.
- `ExecBench`: the blocks of `MCExecBench` are chosen one per situation: disjoint
  transfers, one recipient for all, one sender with different amounts, one where
  the transaction that fails is checked first, a credit and a debit of one
  account, an account changed by an earlier level, and a transfer to the
  coinbase. At most two goroutines run at once; that is what a lost update or a
  wrong pool needs. `ExecBenchWide` has three at once (`Debt`). The amounts are
  small and keep the relations of the code's: `Bonus` (100000000 in the code)
  exceeds the gas limit, so a transfer ends with more gas than it bought and
  `gasUsed()` wraps at `Wrap` (64 here, 2^64 there).
- `LevelCommit`: a conflict, a merge and a clash of `Less` are between two
  records; the third is the one a merged map is lent to. Two accounts, one that
  sends and one that is used in all other ways. `MaxArrivals` is how many results
  are received: one more than the level has, so that a hash may come twice. The
  sort is an insertion sort up to 12 records, as `sort.Sort` is.
- `Interpreter`: a uint64 has 10 bits (`Root`^2), a word 4 bytes, the stack 9
  places. That lets every instruction execute at both ends of the stack but `DUP10`
  to `DUP16` and `SWAP9` to `SWAP16`, which never pass the validation in the run; the
  theorem `StackIsSafe` covers them. Operands are 0, small, the largest uint64, and no uint64. Prices are
  at most 4 in the order of the real ones. Gas starts at 4 and at 14, which covers
  each of the checks failing and passing.
- `CallFrames`: two nested frames under the first (`CallCreateDepth` 2), so that a
  frame has both a caller and a callee; 6 units of gas; one contract that can pay
  once, one precompile, one account that does not exist. Calls may be reentrant.
- `ExecPool`: fewer items than goroutines, as many, a remainder, and none.
- `AuditQueue`: `Slack` is how many calls the queue has room for besides what it
  is filled with again, 100 in the code and 2 here. There are two calls, so the
  refill always finds room; with more calls than `Slack` while the loop refills it
  would wait for room nobody makes. One of the codes passes the sentinel, the other
  does not. `MaxLives` bounds the restarts.
- Deadlock checking is off in every run: each of the programs modelled stops when
  the block, the frame or the pool is done, some stop in a state named *stuck* or
  *blocked*, and the liveness properties say which may.

### Fairness

- `ExecBench`, `ExecPool`: weak fairness of the main goroutine and of each
  goroutine. The Go scheduler runs every goroutine that can run; a step that
  can be taken stays possible, since the result channel has room for every result.
- `LevelCommit`, `Interpreter`, `CallFrames`: one goroutine, weak fairness of its
  step. In `Interpreter` only of `Iterate`: that somebody sets `abort` is not
  assumed.
- `AuditQueue`: weak fairness of the loop, of each call and each audit; strong
  fairness of taking the mutex, which Go's `sync.Mutex` hands to a waiter that has
  waited for a millisecond. Nothing is assumed of the node: it need not call,
  crash, start again or learn of a transaction.

### What the properties say

**The executor.** `CommittedReadsAreFresh`: of the transactions of a level
committed in place none read what an earlier one wrote. The coinbase's balance is
written for the tip without being read, so this does not speak of it.
`ReportedUnlessErred`: a result for every transaction that did not end in an
error and none for one that did; `RelExecTx` relies on the second half.
`FrozenWhileRunning`: no step changes the real state or the results while a
goroutine has not answered. `GasCountedOnce`, `NonceCountsTransactions`:
execution again counts nothing twice. `Terminates`: every block of the run ends in
*done*, never *stuck* or *crashed*. `AtomicLevels` is the refinement above.

**The commit of a level.** `ArrivalIndependent` holds unless two records clash
under `Less`. `EachOnce` and `ReadsAreSerializable` are the soundness of
`DetectConflicts`; `ConflictSetsUntouched` that sharing maps does no harm to a
transaction that will be executed again; `AgreesWithSerial` and
`BalancesAddUp` say that the accounts are stored as the serial executor would store
them. `LogsAreAdded` says less of the logs: those of a transaction with a write set reach the state, and
each is added at most once more for every transaction executed again. The serial
executor adds them once; the commit repeats them, because `wCache.Logs` is not emptied
before the next one (`process.go:553-557`).
`CommitReturns` excludes the level without any write, which does block.

**The interpreter.** `StackSafe` and `MemorySafe` compare what one file declares
with what another does; `GasDecreases` and `Halts` say that no code runs for ever,
stipends included, whether or not `abort` is set.

**The call frames.** `StaticChangesNothing` holds but for two exceptions it names:
accounts come to exist, and a `CALL` of a precompile creates the account even in a
static frame. `CreditsRestOnReads` is what makes the conflict test see two credits
of one account. `GasNeverMade` is about all frames together.

**The pool.** `EachItemOnce`, `QuietWhenDraining`, and `Returns` for at least one
item; without items the receive loop waits for ever.

**The audit.** `AcknowledgedIsStored`: numbers are not given twice, over crashes
too. `NothingElseLost` lists what may become of a task: audited, unknown
transaction, pending, or *left out*. The last is real: `Reload` goes from the number
audited last up to, and not including, the last number, so the last task of a life
is never put into the queue again, and tasks overtaken by a later audit, which
run on goroutines of their own, are skipped (`ewasm_linker.go:407, 422`).
`Audited`: otherwise there is a result, unless the call comes before `auditLoop`
has made its channel.

### Findings

Four places where a comment of the code and the code disagree, each with a run
that ends in a violation: `LevelCommitFailed`, `InterpreterSstore`,
`CallFramesRevert`, `CallFramesOverdrawn`. `PROJECT.json` has the lines.

Other behaviours met while modelling, which are part of the models as they are and
contradict no statement of the repository:

- a creation panics in `SetMarkCache` (`transactionMark.go:89`), so a block with one
  never reaches the executor;
- a block without transactions makes `ExecBenchTxs` wait for ever, and so does the
  commit of a level in which every execution ended in an error (`process.go:509`);
- a transfer that is executed again is debited its value twice
  (`process_transition.go:433` and `ethvm.go:557`);
- two tips of one level end as one (`process_transition.go:371`);
- a transaction that fails before its nonce is counted is charged its gas limit
  without the refund, unless another one of its sender overwrites the debit
  (`cacheSet.go:209-233`);
- `BALANCE`, `EXTCODESIZE` and the like read the `StateDB` only, and neither they
  nor the reads of code are entered into the read set, so the conflict test does
  not see them;
- `CumulativeGasUsed` of a receipt is read without the atomic add that follows
  (`process.go:330`): receipts of one level may have each other's;
- a failed frame's logs are not taken back;
- `opCreate` pushes the new address although storing the code ran out of gas, and
  `Create` passes the caller's address as that of the contract (`ethvm.go:975`);
- clearing a slot the block has cleared before panics in `SubRefund`;
- the logs of transactions committed in place are added again with each transaction
  executed again (`process.go:553-557`).

One more comment disagrees with its code: `cacheSet.go:289-292` says that `Less` puts
smaller write sets first and, among equal ones, larger read sets. It does the
reverse of both (lines 307-310). `LevelCommit` has the order of the code. No property
depends on its direction: `ArrivalIndependent` asks only that the order be the same
whatever the order of arrival.

## Proofs

Seven modules prove 35 of the properties the runs check, for every value of the
constants. Each follows the same scheme: an inductive invariant made of named
conjuncts, one lemma per action (or group of actions that move alike) that it is
preserved, a theorem that it always holds, and one theorem per property that
follows from it. The assumptions are the ones the modules state by name; what they
ask of the constants is what the code does or what keeps names apart.

### The scheduler (`MarkCacheProofs`)

From `NoMarkAssumption` and `ScheduleAssumption` (the values that stand for "no
mark" and "nil" are not marks and accounts, the bound is a natural number):
`TypeCorrect`, `LevelsVisitable`, `ScheduleComplete`, `BlockOrderKept`,
`LevelsSeparate` and `LevelsNeeded` are all the invariants the run `MarkCache`
checks, and `MarksNeverAhead` is a bound on the marks no run needs.

None of them is inductive alone. `Inv` adds four facts:

- `TailEmpty`: levels above `maxLevel` hold nothing. Without it the item appended
  at `maxLevel` could land behind a later level.
- `ItemsInBlock`: items are positions of the block, so a new one is larger than
  all others; order preservation rests on it.
- `EmptyBlock`: before the first transaction `maxLevel` is 0.
- `MarkedAreTouched`: an account has a mark exactly if some transaction of the
  block names it. It is what ties marks to sharing: an account without a mark is
  new to level 0, and a mark that raises `maxLevel` comes from an account an
  earlier level has seen.

The argument: `MarkLemma` says what a joint mark is (a natural number, at most
one above `maxLevel`, and positive only if sender or recipient has a mark);
`PaddedLemma` and `PlacedLemma` say what appending to a padded sequence of levels
does, as the relation `Extends` whose parts later steps expand. `BlockLemma` and
`MarksLemma` treat the parts that only look at the block and the marks.
`TransferInv` goes through the conjuncts for one transfer; `CreationInv` is short,
because a creation leaves the items alone and sets `panicked`.

### The pool (`ExecPoolProofs`)

From `PoolAssumption` (at least one goroutine): `PoolTypeCorrect`,
`ResultsComplete`, `PoolQuiet`, for any number of goroutines and items. `PoolInv`
accounts for every item. The queue holds the slices `taken + 1` to `added`
(`QueueIsSlices`), so the items below `Bound(taken)` and no others are with a
goroutine or in the results (`Accounted`), none in two places (`OnceOnly`).
`BoundLemma` is the arithmetic of the slices: each begins where the one before
ends, and the last takes the remainder, also when there are fewer items than
goroutines and all slices but the last are empty. When all goroutines have returned,
`taken` is `Count`, nothing is with a goroutine, and the results are the items.

### The audit (`AuditQueueProofs`)

From `AuditAssumption` (finitely many transactions, a queue capacity, at least one
life): `AuditTypeCorrect`, `AcknowledgedStays`, `LossesAreNamed`. `AuditInv` says
that the mutex is held from *numbered* to *counted* (`MutexHeld`), what the number
of a call is worth at each of its steps (`NumberOfCall`), that an audit is of the
task its key names (`AuditsOfTasks`), and how far `Reload` has come (`LoopOrder`).
A number that was given is never given again, because the holder's number is one
above the stored one and nobody else is between reading and storing; a crash between
`Store` and `Count` leaves a task above the number, which was not acknowledged.
`NumberBounded` counts the calls: it bounds the numbers by the calls there can be,
so that the keys of the model suffice. `NothingElseLost` is a conjunct of `AuditInv`:
it is inductive once the others hold.

### The call frames (`CallFramesProofs`)

From `FramesAssumption`: `FramesTypeCorrect`, `StaticCallsAreStatic`,
`CreditsAreRead`, `GasIsNeverMade`, for any depth limit, any amount of gas, any
contracts and funds. The six calls and the creations move the frames alike:
`Moved` says that a step continues the top frame with less gas or runs one callee with
what the caller gave up, and `EffectsGo` what may have happened to sets and state.
Each action is shown to keep to these, and `MovedKeeps` that they keep `CallInv`;
only the return of a frame is treated on its own (`LeaveKeeps`).

- `Budgets`: the frames share the gas of the transaction. Each has a budget out of
  which the budget of its callee comes, so no frame can exceed the whole.
- `StaticMarks`: the interpreter is read-only exactly when one frame made it so, and
  every frame of a static call is above that one. It is what makes `readOnly = false`
  on return right: the frame that resets it is the one that set it.
- `StillSince`, `SnapshotsStill`: since a static call began neither the sets nor
  the state have changed, and the snapshots of the frames above hold what it began
  with, so that a revert among them is no change either.

`GasIsNeverMade` is about a sum over the frames. The induction theorems of the
library take an operator, which the provers cannot instantiate; the sum is handled
with an induction over sets instead (`Induction`: a set of numbers with 0 and closed
under successor has all of them), by which the function `TotalGas` chooses exists and
two stacks that differ at their end have sums that differ as their ends do.

### The end of a level (`LevelCommitProofs`)

From `LevelCommitAssumption` (distinct keys, a finite set of accounts, and at most 12
records, for which `sort.Sort` is an insertion sort) and `ResultsAssumption`:
`LevelTypeCorrect`, `NoneIsDropped`, `ConflictsKeepTheirSets`, `SortedWhateverArrives`,
`LogsReachTheState`, `SlotsReadAreCurrent`, `CommitsLikeSerial`, `BalancesAreSums`: all
the invariants the run checks. The first five follow from `LevelInv`, which consists of

- `Listed` and `Sorting`: `order` lists each transaction received once, whatever
  comes twice, and is sorted as far as the sort has come, provided no two of its
  records clash under `Less`. `TurnLemma` says what one turn of the sort moves;
  that `Less` orders records that do not clash is `LessOrders`.
- `Judged`: the transactions looked at are split into the accepted and the
  conflicting ones; with `Listed` this is `EachOnce`.
- `Lent`: only maps of accepted transactions have been lent to `wCache.Written`,
  under their own names. A merge writes into a map that was lent, so a transaction
  that is in conflict finds its own maps as it left them.
- `Logged`: where the logs of each transaction are, at each stage. `Counted`, proved on
  top of it, bounds how often they have been added by what is left to execute again.
- `MapsGood`, `ObjectsGood`: the types of what names refer to.

The last three compare the state with a replay of the accepted transactions in order.
That is said in the run of the committed level only, where it is not inductive.
`CommitInv` says it of every state from the first turn of `DetectConflicts` on:

- `Merges`: for an account no accepted transaction failed on or created, each key of
  the merged map was written by an accepted one; an object updated once with that map
  has the nonce and the storage the replay leaves; it has the balance too, unless
  the account is debited and another transaction pays it; and with one debit at most
  the balance is the sum of the payments.
- `Replays`: what each accepted transaction read of a slot, the replay of those before
  it leaves there.
- `Updating`: an account's object is untouched until it is its turn, and is
  then the merged map's. `fetched` holds the objects of the state, each account's its
  own, so updating one account changes no other; that needs the names of the
  objects, since `CreateAccount` gives an account another one half way.

The step that matters is accepting a transaction (`AcceptCommits`). `AcceptMerges` says
that it merges what the transaction wrote to an account into that account's map and into
no other, however maps are shared: a map in `wCache.Written` belongs to an accepted
transaction and the account it is entered for (`Lent`). `UpdatesMerge` then shows that
updating with two maps in turn is updating with the merged one, for nonce and
storage always and for the balance if not both maps change it in different ways.
`PaymentsMerge` needs that the balance is not in the map yet, which is what
`HasConflict` has just excluded: whoever pays or is paid has read it. The
replay and the sum are folds (`SerialFold`, `PaidFold`), to which one transaction
more adds one step (`SerialAppend`, `PaidAdds`).

### The executor (`ExecBenchProofs`)

From `KeysAssumption` (the three keys differ) and `TransferAssumption` (amounts are
natural numbers in the relations the code's constants have, a block is a sequence of
at most 12 transfers, so that `sort.Sort` is an insertion sort), for all accounts, all
amounts, all blocks and every interleaving: `TypeCorrectness`, `CommitsAreFresh`,
`ResultsAreComplete`, `GasIsCounted`, `NoncesCount`, and the older `JoinWaits` and `StateIsFrozen`,
which need no assumption.

The invariant `IInv` has three parts. `Machine` gives the types of what is shared.
`Executions` (`GoodExec`) says what a goroutine has collected: read and write sets
whose counters count their entries, reads that are balances only, a write of the
sender's account once the gas is bought; one that ended in an error has empty sets.
`Block` says where the transactions are:

- `Planned`: the plan is that of the whole block, every transaction in exactly one
  level, and the loop variable is in it.
- `Past`, `Present`, `Ahead`: what is behind the loop variable has finished with a
  result or an error, what is ahead has not begun, and the level at work is where the
  phase puts it: answered in the channel, in the sorted records, or among the results
  or the conflicts.
- `Lists`: no transaction that ended in an error has a result or is in conflict, and
  no committed one read what one before it wrote (`Fresh`).
- `Sets`: `RelExecTx`, which takes the first conflict and the last result, finds both.

None of the properties is inductive by itself. `ReportedUnlessErred` speaks of the end
of the block and needs all of `Block`, since a transaction could be lost wherever it
passes from one list to the next. `CommittedReadsAreFresh` needs that what the merge
enters into `Written` is at least what a committed transaction wrote to balances,
and that nothing but balances is read.

`GoroutineKeeps` goes through the steps of a goroutine; `FillLemma`, `OrderLemma` and
`DetectLemma` say what filling the plan, collecting and sorting the records, and
`DetectConflicts` leave behind; one lemma per action of the main goroutine
(`KeptBy...`) combines them.

`GasIsCounted` adds a sum over the finished transactions to `IInv`. Only `Send`
counts, it is the last step of a goroutine, and no other step changes the gas of a
finished transaction; that a remainder may be taken before or after adding is
`AddRemainder`.

`NoncesCount` has the hypothesis `Left * Price > 0`: the refund is not nothing. It rests
on two transactions of one sender never being committed in place together, for then both
write the same nonce and count as one. What keeps them apart is the refund of the first,
which writes the balance the second has read. Without a refund they are not kept
apart: with a gas price of 0 the block of A to B, A to A and again A to B ends with a
nonce of 2. The invariant `Sound` holds while nothing has failed. `Sending` says that the
copy has the nonces of the state and that a goroutine writes no nonce but its sender's, one
more than that; `OfLevel` and `Waiting` that what is listed belongs to the level, is
listed once, and has no result yet; `Counts` that a nonce is the number of results.

`LevelsAreAtomic` is the refinement of `AtomicBlock`, failures included. Its hypotheses:
no tips (`Price = BaseFee`), a refund that is not nothing (`Left * Price > 0`; `Left` is
at least 10^8 less the intrinsic gas in the code), and `Supply`: the gas limit of the
block covers its transactions, and the limit with all the gas that is put back fits a
machine word. Without the first part of `Supply` a transaction fails for lack of gas
whatever it shares with others, which `AtomicBlock` does not allow; without the second
`AddGas` panics. The constants of the run `ExecBenchWide` meet all three. The proof adds
`AInv` to `IInv`:

- `Stocked`: whatever pool a goroutine was handed and in whatever order loads and stores
  of its gas fall, lost updates included, no pool that is in use has less than the limit
  minus what all who have paid took, nor more than the limit and what all who have
  finished put back. So no goroutine is ever refused gas.
- `Copied`: the copy has the nonces of the state, and each balance of it is that of the
  state or one that `buyGas` gave the account in this level.
- `Staged`: what each goroutine has read and written, at each program counter (`Stage`).
  At the end of one that did not fail its write set is the whole effect of its
  transaction, added to a balance it may have seen (`Whole`); a failed one has its nonce
  counted (`Late`) or only its gas charged (`Charged`), and then another transaction of
  its sender left it too little (`Short`).
- `Unbegun`, `Queued`, `Redone`: what is ahead has not begun, the lists of a level hold
  its transactions once, and a transaction executed again charges its value twice.

`RecordLemma` turns the last stage into what a record tells of its transaction.
`LevelUpTo` is the invariant of the fold in `DetectConflicts`: the committed transactions
that succeeded touch disjoint accounts, each has its whole effect in `Written`, every
entry of `Written` is somebody's, and whoever is in conflict shares an account with a
committed one. `CommitLevel` is the step that matters. A transaction that is committed has
read none of the balances in `Written`, so it neither writes an account that has one nor
replaces its entries by a nonce (`Untouched`). `AccountSettles` reads off what the commit
leaves of each account, `DetectIsLevel` that this is the step `Level` of `AtomicBlock`,
`ReBuyGasIsFund` and `ReCommitIsSettle` the other two, and the remaining actions are not
seen.

### The interpreter (`InterpreterProofs`)

`TypeCorrectness`, `StackIsSafe`, `MemoryIsSafe` and `GasRunsOut` hold for any stack
limit, operands of any size and any width of the integers, from these assumptions on
the constants:

- `StackAssumption`, `PriceAssumption`, `GasAssumption`: the limit is a natural number;
  every price used is at least 1; a few pairs of prices are in the order of the code's
  (a cold access costs no less than a warm one, the prices of SSTORE no less than
  the accesses taken off them, a transfer more than the stipend, 9000 and 2300);
  a word has at most 2^32 bytes. `gas.go` and `params/protocol_params.go` meet them.
- `BaseAssumption`: what a call costs before its callee is given anything is small
  beside the part a caller with 2^64 gas would keep. In the code it is about 2^55
  against 2^58. Without it the subtraction in `callGas` could wrap and, with what is
  added to it without a check (`operations_acl.go:176`), pass for a small cost.
- `InterpreterAssumption`: operands are natural numbers, and where one is an address it
  is the contract's or that of nobody.

The proof has four parts.

- *The tables.* `Covered` says of one entry of `jump_table.go` and one function of
  `instructions.go` that `minStack` and `maxStack` leave room for the pops and pushes,
  that each piece of memory the function uses is among those `memorySize` takes the end
  of, that an entry with memory has a dynamic gas that pays for it, and that an
  instruction after which the loop goes on costs something. `InstructionsCovered` shows it
  for every instruction, group by group.
- *The gas.* `memoryGasCost` takes the difference of two fees modulo 2^64.
  `FeeOfWords` shows that below its limit on the size (`Highest`) no product in a fee
  wraps and that the fee grows with the memory, so the difference is what the growth costs.
  `CallCost` is about the gas of a call. When the caller has less than the base,
  `available - base` wraps to nearly 2^64; one part in 64 of it is kept back, and that is
  more than the caller has and the surcharge together, so the cost does not wrap a second
  time and exceeds what the caller has. In every call that can be paid, the cost is the
  sum of base, callee's gas and surcharge. `DynamicGas` goes through all the functions.
- *The iteration.* `IterationLemma` carries this over to operands of any size: the memory an iteration reaches is
  within the size its entry declares, unless it ends out of gas first.
- *The invariant.* `IInv` adds to the types that the memory has been paid for
  (`MemoryPaid`: its size is at most `Highest` and `lastGasCost` is its fee), without
  which the next fee could be less than the last, and that the frame is not in one of the
  two faults. `ExecuteStep` has one step for each way an iteration goes on. A call
  returns at most what it was given and the stipend, which the price of the transfer
  exceeds: this is `GasRunsOut`.

The faults are statuses of the model, so `StackIsSafe` and `MemoryIsSafe` follow from
`IInv` at once; what they say is in `Covered`, where the two files are compared.
The instructions of the loop are a table (`Row`, `Ops`, `Numbered`) so that the
provers can look up one instruction: `TableLemma` says that an entry is what one of the
rows with its key says.

### Folds (`FoldTheorems`)

The plan, the records, their order, what `DetectConflicts` does and the sum of the
gas are folds of the community modules, which are defined by recursion over sets. The
library's induction theorems have an operator as a parameter, which the provers
cannot instantiate. `FoldTheorems` has the operators as constants of a module, and is
used through `INSTANCE` with those of the model: `FoldExists` and `FoldUnique` show that
there is exactly one such recursive function, `FoldSteps` that it takes one element
after the other, `FoldInduction` is the induction along a sequence, `FoldAdd` that an
operator that commutes may fold in any element last, and `FoldSame` that a
fold depends only on what it maps.

### Only model-checked

- Everything under fairness (`Returns`, `Terminates`, `Interpreter`'s `Halts`, `CommitReturns`,
  `Audited`) is beyond the prover.

## Not modelled

- **The timer of `PreExecution`.** It never sets `TxData`, so `NewVM` makes no
  interpreter and no loop looks at `abort`; what is left, a transfer or a panic, is
  in `ExecBench` and `CallFrames`.
- **Tips in the abstract executor**, for the reason above; `ExecBench` itself has them.
- **Where a jump goes, and what arithmetic computes.** `Interpreter` lets any
  instruction follow any other, which includes every program and makes jump
  destination analysis irrelevant to the properties.
- **Precompiled contracts, hashing, encodings, the tracer, parameters and request
  defaults**: functions of their input, without state.
- **`GetHashFn`**: a cache, filled from an external chain of headers, that lives as
  long as one block context.
- **Host functions of the WebAssembly interpreter**: they move bytes between the
  memory of an external machine and the call frames; the machine, and with it the
  order in which host functions are called, is not in the repository.
- **`VerifyStatus` and the sentinel** of the audit: a read of what the audit
  stored, and a contract in embedded data.
- **`vm/ewasm`** repeats files of `vm/ethvm` and is imported by nothing.

## Plan

What is left to prove:

1. `AtomicLevels` without the hypothesis on the refund. Then two transactions of a sender
   may both be committed in place and count as one, which `AtomicBlock` has to say.
2. An abstract specification of `LevelCommit` for a whole block, of which `AtomicBlock` would be
   the case of transfers.
