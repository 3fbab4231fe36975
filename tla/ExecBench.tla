----------------------------- MODULE ExecBench -----------------------------
(***************************************************************************)
(* ExecBenchTxs: the optimistic parallel execution of one block of plain   *)
(* value transfers (process/process.go, cacheSet.go, process_transition.go *)
(* and the transfer part of ETHVM.Call).                                   *)
(*                                                                         *)
(* The block is cut into levels.  The transactions of a level run in one   *)
(* goroutine each on ONE shared copy of the state, collecting read and     *)
(* write sets.  The main goroutine joins them, sorts their records,        *)
(* commits in place those that read nothing an earlier one wrote, and      *)
(* executes the others again, one by one, on the real state.               *)
(*                                                                         *)
(* A transaction is known by its position in the block, which also orders  *)
(* the hashes.  Every account exists and has no code.                      *)
(***************************************************************************)
EXTENDS MarkOps, RWSet, CacheOrder, TransferTx

ASSUME KeysAssumption == BalanceKey # SubBalanceKey /\ NonceKey \notin {BalanceKey, SubBalanceKey}

VARIABLES phase,      \* where ExecBenchTxs is
          plan,       \* the MarkCache
          level,      \* the loop variable i
          db,         \* the StateDB: balance and nonce of every account
          cp,         \* statedbCp, the copy the goroutines of a level share
          gpVar,      \* the variable gp of ExecBenchTxs: the pool it points to
          pools,      \* the gas pools; 0 is the one made before the loop
          exec,       \* one record per transaction: the goroutine and its Result
          usedGas,
          arrived,    \* resChan: the transactions whose results were sent
          order,      \* rwSet.Order
          written,    \* wCache.Written
          committed,  \* transactions of this level committed in place, in order
          conflicts,  \* conflictTxHashes, what RelExecTx has yet to do
          results,    \* the results to be returned, <<transaction, retried>>
          retried     \* the write sets of the transactions executed again

mainVars == <<plan, level, db, order, written, committed, conflicts, results, retried>>
vars == <<block, phase, cp, gpVar, pools, exec, usedGas, arrived, mainVars>>

Idle == [pc |-> "start", pool |-> 0, reg |-> 0, rset |-> NewSet, wset |-> NewSet,
         err |-> FALSE, vmErr |-> FALSE, gas |-> 1]

Init ==
    /\ block \in Blocks
    /\ phase = "fill"
    /\ plan = [marks |-> [a \in Account |-> NoMark], items |-> NewItems, maxLevel |-> 0]
    /\ level = 0
    /\ db = [a \in Account |-> [bal |-> Funds, nonce |-> 0]]
    /\ cp = db
    /\ gpVar = 0
    /\ pools = [p \in {0} \cup Txs |-> BlockGas]
    /\ exec = [t \in Txs |-> Idle]
    /\ usedGas = 0
    /\ arrived = <<>> /\ order = <<>> /\ committed = <<>> /\ conflicts = <<>> /\ results = <<>>
    /\ written = NoEntries
    /\ retried = NoEntries
-----------------------------------------------------------------------------
(* The goroutine of transaction t.  Each step ends at an access to          *)
(* something the goroutines share: gp, a pool, the state copy, the channel. *)

Current == {GetLevelItemWithMark(plan.items, level)[i] :
               i \in DOMAIN GetLevelItemWithMark(plan.items, level)}
IsAt(t, pc) == phase = "running" /\ t \in Current /\ exec[t].pc = pc

Goto(t, pc) == exec' = [exec EXCEPT ![t].pc = pc]

\* gp = new(core.GasPool).AddGas(block.GasLimit()): the captured variable.
MakePool(t) ==
    /\ IsAt(t, "start")
    /\ gpVar' = t
    /\ pools' = [pools EXCEPT ![t] = BlockGas]
    /\ Goto(t, "pool")
    /\ UNCHANGED <<block, phase, cp, usedGas, arrived, mainVars>>

\* gp is evaluated again as an argument of ApplyTransactionWithFlag: another
\* goroutine may have assigned it in between.
PassPool(t) ==
    /\ IsAt(t, "pool")
    /\ exec' = [exec EXCEPT ![t] = [@ EXCEPT !.pc = "setBalance", !.pool = gpVar]]
    /\ UNCHANGED <<block, phase, cp, gpVar, pools, usedGas, arrived, mainVars>>

\* buyGas gives the sender twice what it needs, on the shared copy.
SetBalance(t) ==
    /\ IsAt(t, "setBalance")
    /\ cp' = [cp EXCEPT ![From(t)].bal = 2 * Want(t)]
    /\ Goto(t, "have")
    /\ UNCHANGED <<block, phase, gpVar, pools, usedGas, arrived, mainVars>>

\* An error from ApplyMessage: a Result without receipt and with new sets.
Failed(e) == [e EXCEPT !.pc = "send", !.err = TRUE, !.rset = NewSet, !.wset = NewSet, !.gas = 0]

\* buyGas reads the balance back and compares.
Have(t) ==
    LET have == cp[From(t)].bal
    IN  /\ IsAt(t, "have")
        /\ exec' = [exec EXCEPT ![t] =
               IF have < Want(t) THEN Failed(@)
               ELSE [@ EXCEPT !.pc = "loadGas",
                              !.rset = ReadUpdate(exec[t].rset, From(t), BalanceKey, have)]]
        /\ UNCHANGED <<block, phase, cp, gpVar, pools, usedGas, arrived, mainVars>>

\* GasPool.SubGas, the comparison.
LoadGas(t) ==
    LET v == pools[exec[t].pool]
    IN  /\ IsAt(t, "loadGas")
        /\ exec' = [exec EXCEPT ![t] =
               IF v < TxGas THEN Failed(@) ELSE [@ EXCEPT !.pc = "subGas", !.reg = v]]
        /\ UNCHANGED <<block, phase, cp, gpVar, pools, usedGas, arrived, mainVars>>

\* GasPool.SubGas, the subtraction, of the value compared or of one loaded anew;
\* then the gas is charged in the write set.
SubGas(t) ==
    /\ IsAt(t, "subGas")
    /\ \E v \in {exec[t].reg, pools[exec[t].pool]} :
           pools' = [pools EXCEPT ![exec[t].pool] = (v - TxGas) % Wrap]
    /\ exec' = [exec EXCEPT ![t] =
           [@ EXCEPT !.pc = "canTransfer",
                     !.wset = WriteUpdate(exec[t].wset, From(t), SubBalanceKey, TxGas * Price, 0)]]
    /\ UNCHANGED <<block, phase, cp, gpVar, usedGas, arrived, mainVars>>

\* TransitionDb: clause 6; then the balance is recorded as read once more and
\* the nonce incremented.
CanTransfer(t) ==
    LET have == cp[From(t)]
    IN  /\ IsAt(t, "canTransfer")
        /\ exec' = [exec EXCEPT ![t] =
               IF Value(t) > 0 /\ have.bal < Value(t)
               THEN [@ EXCEPT !.pc = "send", !.vmErr = TRUE, !.gas = CallStipend]
               ELSE [@ EXCEPT !.pc = "call",
                              !.rset = ReadUpdate(exec[t].rset, From(t), BalanceKey, have.bal),
                              !.wset = WriteUpdate(exec[t].wset, From(t), NonceKey, have.nonce + 1, 0)]]
        /\ UNCHANGED <<block, phase, cp, gpVar, pools, usedGas, arrived, mainVars>>

\* ETHVM.Call: the value is checked against the copy again.
Call(t) ==
    /\ IsAt(t, "call")
    /\ exec' = [exec EXCEPT ![t] =
           IF Value(t) # 0 /\ cp[From(t)].bal < Value(t)
           THEN [@ EXCEPT !.pc = "refund", !.vmErr = TRUE]
           ELSE [@ EXCEPT !.pc = IF Value(t) > 0 THEN "credit" ELSE "refund",
                          !.rset = ReadUpdate(exec[t].rset, From(t), BalanceKey, Value(t))]]
    /\ UNCHANGED <<block, phase, cp, gpVar, pools, usedGas, arrived, mainVars>>

\* The transfer in ETHVM.Call, as entries of the two sets.
Transfer(set, t, toBalance) ==
    WriteUpdate(WriteUpdate(set, From(t), SubBalanceKey, Value(t), 0),
                To(t), BalanceKey, Value(t), toBalance)

Credit(t) ==
    LET bal == cp[To(t)].bal
    IN  /\ IsAt(t, "credit")
        /\ exec' = [exec EXCEPT ![t] =
               [@ EXCEPT !.pc = "refund",
                         !.rset = ReadUpdate(exec[t].rset, To(t), BalanceKey, bal),
                         !.wset = Transfer(exec[t].wset, t, bal)]]
        /\ UNCHANGED <<block, phase, cp, gpVar, pools, usedGas, arrived, mainVars>>

\* refundGas: the remaining gas is credited to the sender; the refund counter
\* of a transfer is 0.
Refunded(set, t, balance) ==
    IF Left * Price = 0 THEN set
    ELSE WriteUpdate(set, From(t), BalanceKey, Left * Price, balance)
Refund(t) ==
    /\ IsAt(t, "refund")
    /\ exec' = [exec EXCEPT ![t] =
           [@ EXCEPT !.pc = "loadPool", !.wset = Refunded(exec[t].wset, t, cp[From(t)].bal)]]
    /\ UNCHANGED <<block, phase, cp, gpVar, pools, usedGas, arrived, mainVars>>

\* GasPool.AddGas panics when the sum does not fit, which ends the process.
Overflows(v, gas) == v > Wrap - 1 - gas
LoadPool(t) ==
    LET v == pools[exec[t].pool]
    IN  /\ IsAt(t, "loadPool")
        /\ exec' = [exec EXCEPT ![t] = [@ EXCEPT !.pc = "addGas", !.reg = v]]
        /\ phase' = IF Overflows(v, Left) THEN "crashed" ELSE phase
        /\ UNCHANGED <<block, cp, gpVar, pools, usedGas, arrived, mainVars>>
AddGas(t) ==
    /\ IsAt(t, "addGas")
    /\ \E v \in {exec[t].reg, pools[exec[t].pool]} :
           pools' = [pools EXCEPT ![exec[t].pool] = (v + Left) % Wrap]
    /\ Goto(t, IF Tip = 0 THEN "send" ELSE "tip")
    /\ UNCHANGED <<block, phase, cp, gpVar, usedGas, arrived, mainVars>>

\* The coinbase's balance is read from the state and not recorded as read.
Tipped(set, balance) ==
    IF Tip = 0 THEN set ELSE WriteUpdate(set, Coinbase, BalanceKey, Fee, balance)
PayTip(t) ==
    /\ IsAt(t, "tip")
    /\ exec' = [exec EXCEPT ![t] =
           [@ EXCEPT !.pc = "send", !.wset = Tipped(exec[t].wset, cp[Coinbase].bal)]]
    /\ UNCHANGED <<block, phase, cp, gpVar, pools, usedGas, arrived, mainVars>>

\* Variants of Send: the gas limit is counted instead of the gas used; nothing is
\* sent for a transaction that ended in an error.
SendGasLimit(t) ==
    /\ IsAt(t, "send")
    /\ usedGas' = (usedGas + TxGas) % Wrap
    /\ arrived' = Append(arrived, t)
    /\ Goto(t, "done")
    /\ UNCHANGED <<block, phase, cp, gpVar, pools, mainVars>>
SendSuccessOnly(t) ==
    /\ IsAt(t, "send") /\ ~exec[t].err
    /\ usedGas' = (usedGas + exec[t].gas) % Wrap
    /\ arrived' = Append(arrived, t)
    /\ Goto(t, "done")
    /\ UNCHANGED <<block, phase, cp, gpVar, pools, mainVars>>

\* atomic.AddUint64(usedGas, ...), resChan <- res and wg.Done.
Send(t) ==
    /\ IsAt(t, "send")
    /\ usedGas' = (usedGas + exec[t].gas) % Wrap
    /\ arrived' = Append(arrived, t)
    /\ Goto(t, "done")
    /\ UNCHANGED <<block, phase, cp, gpVar, pools, mainVars>>

Goroutine(t) ==
    \/ MakePool(t) \/ PassPool(t)    \/ SetBalance(t) \/ Have(t)   \/ LoadGas(t)
    \/ SubGas(t)   \/ CanTransfer(t) \/ Call(t)       \/ Credit(t) \/ Refund(t)
    \/ LoadPool(t) \/ AddGas(t)      \/ PayTip(t)     \/ Send(t)
-----------------------------------------------------------------------------
(* The main goroutine.                                                      *)

\* FillingTransCut for every transaction of the block, in block order.
Marked(c, t) ==
    LET mark == JointMark(c.marks, From(t), To(t))
        max  == Larger(mark, c.maxLevel)
    IN  [marks    |-> MarkedBoth(c.marks, From(t), To(t), mark),
         items    |-> Placed(c.items, max, t),
         maxLevel |-> max]
Fill ==
    /\ phase = "fill"
    /\ plan' = FoldLeft(Marked, plan, [t \in Txs |-> t])
    /\ phase' = "level"
    /\ UNCHANGED <<block, cp, gpVar, pools, exec, usedGas, arrived, level, db, order, written,
                   committed, conflicts, results, retried>>

\* The head of the level loop: statedb.Copy() and the goroutines, or the end.
StartLevel ==
    /\ phase = "level"
    /\ IF level < GetMaxLevel(plan.maxLevel)
       THEN phase' = "running" /\ cp' = db /\ arrived' = <<>>
       ELSE phase' = "done" /\ UNCHANGED <<cp, arrived>>
    /\ UNCHANGED <<block, gpVar, pools, exec, usedGas, mainVars>>

\* wg.Wait, the loop that empties resChan and the sort.  That loop receives
\* before it compares lengths: with no items it never ends.
RecordOf(t) == [hash |-> t, w |-> exec[t].wset.addressCount, r |-> exec[t].rset.addressCount,
                wkeys |-> exec[t].wset.detailKeyCount, rkeys |-> exec[t].rset.detailKeyCount]

\* Variant of Join: it does not wait for every goroutine of the level.
JoinEarly ==
    /\ phase = "running"
    /\ arrived # <<>>
    /\ LET records == FoldLeft(LAMBDA acc, t : Cached(acc, RecordOf(t)), <<>>, arrived)
       IN  order' = [i \in DOMAIN records |-> Sorted(records)[i].hash]
    /\ phase' = "detect"
    /\ UNCHANGED <<block, cp, gpVar, pools, exec, usedGas, arrived, plan, level, db, written,
                   committed, conflicts, results, retried>>

Join ==
    /\ phase = "running"
    /\ Current # {}
    /\ \A t \in Current : exec[t].pc = "done"
    /\ LET records == FoldLeft(LAMBDA acc, t : Cached(acc, RecordOf(t)), <<>>, arrived)
       IN  order' = [i \in DOMAIN records |-> Sorted(records)[i].hash]
    /\ phase' = "detect"
    /\ UNCHANGED <<block, cp, gpVar, pools, exec, usedGas, arrived, plan, level, db, written,
                   committed, conflicts, results, retried>>

\* Variant of HasConflict: the sender's own entries are not compared.
RecipientConflict(t, w) ==
    \E a \in (DOMAIN exec[t].rset.cache \cap DOMAIN w) \ {From(t)} :
        DOMAIN exec[t].rset.cache[a] \cap DOMAIN w[a] # {}

\* Some key that t read has been written by a record before it.
HasConflict(t, w) ==
    \E a \in DOMAIN exec[t].rset.cache \cap DOMAIN w :
        DOMAIN exec[t].rset.cache[a] \cap DOMAIN w[a] # {}

\* What a record writes: a failed one only the nonce of an account it has a
\* nonce for.
KeepsNonce(t, a) ==
    (exec[t].err \/ exec[t].vmErr) /\ NonceKey \in DOMAIN exec[t].wset.cache[a]
Kept(t) == [a \in DOMAIN exec[t].wset.cache |->
               IF KeepsNonce(t, a) THEN OnlyNonce(exec[t].wset.cache[a])
               ELSE exec[t].wset.cache[a]]

\* DetectConflicts merges what t writes into wCache.Written; where only the nonce
\* is kept it takes the place of what was there.  record.Res is appended once per
\* written account.
Merged(acc, t) ==
    LET cache    == Kept(t)
        Entry(a) == IF a \in DOMAIN acc.written /\ ~KeepsNonce(t, a)
                    THEN Merge(acc.written[a], cache[a]) ELSE cache[a]
    IN  [acc EXCEPT !.written = Merge(@, [a \in DOMAIN cache |-> Entry(a)]),
                    !.committed = Append(@, t),
                    !.results = @ \o [i \in 1 .. Cardinality(DOMAIN cache) |-> <<t, FALSE>>]]

\* Variant of Checked: a transaction the VM failed is left out of the results.
CheckedSuccessOnly(acc, t) ==
    IF HasConflict(t, acc.written) THEN [acc EXCEPT !.conflicts = Append(@, t)]
    ELSE IF exec[t].vmErr THEN [Merged(acc, t) EXCEPT !.results = acc.results]
    ELSE Merged(acc, t)

Checked(acc, t) ==
    IF HasConflict(t, acc.written) THEN [acc EXCEPT !.conflicts = Append(@, t)]
    ELSE Merged(acc, t)

\* Variant of Applied: the nonce entry is skipped.
AppliedWithoutNonce(state, w) ==
    [a \in Account |->
        IF a \notin DOMAIN w THEN state[a]
        ELSE LET m == w[a]
             IN  [bal   |-> (IF BalanceKey \in DOMAIN m THEN m[BalanceKey] ELSE state[a].bal)
                            - (IF SubBalanceKey \in DOMAIN m THEN m[SubBalanceKey] ELSE 0),
                  nonce |-> state[a].nonce]]

\* UpdateWrittenCacheToDataBase: balance, then nonce and debit.
Applied(state, w) ==
    [a \in Account |->
        IF a \notin DOMAIN w THEN state[a]
        ELSE LET m == w[a]
             IN  [bal   |-> (IF BalanceKey \in DOMAIN m THEN m[BalanceKey] ELSE state[a].bal)
                            - (IF SubBalanceKey \in DOMAIN m THEN m[SubBalanceKey] ELSE 0),
                  nonce |-> IF NonceKey \in DOMAIN m THEN m[NonceKey] ELSE state[a].nonce]]

\* NewWrittenBefore, DetectConflicts and the commit of what it merged.  The
\* commit receives before it counts as well: nothing written, it never ends.
Detect ==
    LET start == [written |-> NoEntries, committed |-> <<>>, conflicts |-> <<>>, results |-> results]
        end   == FoldLeft(Checked, start, order)
    IN  /\ phase = "detect"
        /\ phase' = IF DOMAIN end.written = {} THEN "stuck" ELSE "redo"
        /\ db' = Applied(db, end.written)
        /\ written' = end.written
        /\ committed' = end.committed
        /\ conflicts' = end.conflicts
        /\ results' = end.results
        /\ UNCHANGED <<block, cp, gpVar, pools, exec, usedGas, arrived, plan, level, order, retried>>

\* RelExecTx for the first conflicting transaction, in three steps of the same
\* goroutine.  First the gas of the block's first result is put into the pool gp
\* points to and buyGas gives the sender twice its cost, on the real state.  If
\* the pool is still short the Result will have no receipt, which RelExecTx
\* dereferences.  (usedGas is a local copy from here on.)
ReBuyGas ==
    LET t     == Head(conflicts)
        gas   == exec[results[1][1]].gas
        given == pools[gpVar] + gas
    IN  /\ phase = "redo" /\ conflicts # <<>>
        /\ IF Overflows(pools[gpVar], gas)
           THEN phase' = "crashed" /\ UNCHANGED <<db, pools, retried>>
           ELSE /\ db' = [db EXCEPT ![From(t)].bal = 2 * Want(t)]
                /\ IF given < TxGas
                   THEN phase' = "crashed" /\ UNCHANGED <<pools, retried>>
                   ELSE /\ pools' = [pools EXCEPT ![gpVar] = given - TxGas]
                        /\ retried' = Put(retried, t,
                               WriteUpdate(NewSet, From(t), SubBalanceKey, TxGas * Price, 0))
                        /\ phase' = "reCall"
        /\ UNCHANGED <<block, cp, gpVar, exec, usedGas, arrived, plan, level, order, written,
                       committed, conflicts, results>>

\* ReTransitionDb charges the value, counts the nonce and calls ETHVM.Call,
\* which charges the value once more when it transfers it.
ReCall ==
    LET t       == Head(conflicts)
        charged == WriteUpdate(retried[t], From(t), SubBalanceKey, Value(t), 0)
        counted == WriteUpdate(charged, From(t), NonceKey, db[From(t)].nonce + 1, 0)
    IN  /\ phase = "reCall"
        /\ phase' = "reCommit"
        /\ retried' = Put(retried, t,
               IF Value(t) > 0 THEN Transfer(counted, t, db[To(t)].bal) ELSE counted)
        /\ UNCHANGED <<block, cp, gpVar, pools, exec, usedGas, arrived, plan, level, db, order, written,
                       committed, conflicts, results>>

\* Refund and tip; then RelExecTx commits the new write set and goes on.
ReCommit ==
    LET t    == Head(conflicts)
        back == Refunded(retried[t], t, db[From(t)].bal)
    IN  /\ phase = "reCommit"
        /\ IF Overflows(pools[gpVar], Left)
           THEN /\ phase' = "crashed"
                /\ UNCHANGED <<pools, retried, written, db, results, conflicts>>
           ELSE /\ phase' = "redo"
                /\ pools' = [pools EXCEPT ![gpVar] = @ + Left]
                /\ retried' = Put(retried, t, Tipped(back, db[Coinbase].bal))
                /\ written' = retried'[t].cache
                /\ db' = Applied(db, written')
                /\ results' = Append(results, <<t, TRUE>>)
                /\ conflicts' = Tail(conflicts)
        /\ UNCHANGED <<block, cp, gpVar, exec, usedGas, arrived, plan, level, order, committed>>

NextLevel ==
    /\ phase = "redo" /\ conflicts = <<>>
    /\ phase' = "level"
    /\ level' = level + 1
    /\ UNCHANGED <<block, cp, gpVar, pools, exec, usedGas, arrived, plan, db, order, written,
                   committed, conflicts, results, retried>>

Main == Fill \/ StartLevel \/ Join \/ Detect
        \/ ReBuyGas \/ ReCall \/ ReCommit \/ NextLevel

Next == Main \/ \E t \in Txs : Goroutine(t)

\* The Go scheduler runs every goroutine that can run.
Fairness == WF_vars(Main) /\ \A t \in 1 .. 12 : WF_vars(t \in Txs /\ Goroutine(t))

Spec == Init /\ [][Next]_vars /\ Fairness
-----------------------------------------------------------------------------
Phase == {"fill", "level", "running", "detect", "redo", "reCall", "reCommit",
          "done", "stuck", "crashed"}
PC == {"start", "pool", "setBalance", "have", "loadGas", "subGas", "canTransfer",
       "call", "credit", "refund", "loadPool", "addGas", "tip", "send", "done"}
SetOf(set) ==
    /\ DOMAIN set.cache \subseteq Account
    /\ set.addressCount = Cardinality(DOMAIN set.cache)
    /\ set.detailKeyCount = Cardinality(Entries(set.cache))

\* Types; the counters of every read and write set count what is in its maps,
\* which Less relies on.
TypeOK ==
    /\ phase \in Phase
    /\ level \in 0 .. Len(block)
    /\ db \in [Account -> [bal : Int, nonce : Nat]]
    /\ cp \in [Account -> [bal : Int, nonce : Nat]]
    /\ gpVar \in {0} \cup Txs
    /\ pools \in [{0} \cup Txs -> 0 .. Wrap - 1]
    /\ usedGas \in 0 .. Wrap - 1
    /\ \A t \in Txs : /\ exec[t].pc \in PC /\ exec[t].pool \in {0} \cup Txs
                      /\ SetOf(exec[t].rset) /\ SetOf(exec[t].wset)
    /\ \A t \in DOMAIN retried : SetOf(retried[t])
    /\ DOMAIN written \subseteq Account
    /\ \A i \in DOMAIN results : results[i] \in Txs \X BOOLEAN

Finished(t) == exec[t].pc = "done"
Erred(t) == Finished(t) /\ exec[t].err
VmFailed(t) == Finished(t) /\ exec[t].vmErr
Running == phase = "running"
Reported(t) == \E i \in DOMAIN results : results[i][1] = t

\* The goroutines of a level read a copy made before any of them started, and
\* nothing reaches the real state before all of them have answered
\* (process.go:161-176).
FrozenWhileRunning ==
    [][(phase \notin {"fill", "level", "done"} /\ \E t \in Current : ~Finished(t))
          => UNCHANGED <<db, results>>]_vars

\* Optimistic concurrency control: of the transactions committed in place none
\* read a key that one committed before it wrote (cacheSet.go:188-207).
CommittedReadsAreFresh ==
    \A i, j \in DOMAIN committed : i < j =>
        Entries(Kept(committed[i])) \cap Entries(exec[committed[j]].rset.cache) = {}

\* Once its level is over a transaction has a result, unless executing it ended
\* in an error; one whose execution ended in an error never has.  RelExecTx
\* dereferences the receipt of the first result on the strength of this
\* (cacheSet.go:209-233, 252-253).
ReportedUnlessErred ==
    /\ phase \in {"level", "done"} =>
           \A l \in 0 .. level - 1 : \A i \in DOMAIN plan.items[l + 1] :
               LET t == plan.items[l + 1][i] IN Reported(t) <=> ~Erred(t)
    /\ \A i \in DOMAIN results : ~exec[results[i][1]].err

\* The gas ExecBenchTxs returns is what the first executions used; executing a
\* transaction again counts nothing twice (process.go:336, cacheSet.go:254).
GasCountedOnce ==
    usedGas = MapThenSumSet(LAMBDA t : exec[t].gas, {t \in Txs : Finished(t)}) % Wrap

\* Every transaction that was executed moved its sender's nonce: after a block
\* without failures each nonce is the number of its sender's transactions
\* (process_transition.go:359-360, 443-450).
NonceCountsTransactions ==
    (phase = "done" /\ \A t \in Txs : ~Erred(t) /\ ~VmFailed(t)) =>
        \A a \in Account : db[a].nonce = Cardinality({t \in Txs : From(t) = a})

\* ExecBenchTxs returns.
Terminates == <>(phase = "done")

\* Each level of a block without tips takes effect in one step, as AtomicBlock
\* says, whatever the goroutines do in between (process.go:157-221).
Detected == phase \in {"redo", "reCall", "reCommit", "stuck"}
            \/ (phase = "crashed" /\ \A t \in Current : Finished(t))
Funded == \/ phase \in {"reCall", "reCommit"}
          \/ /\ phase = "crashed" /\ conflicts # <<>>
             /\ db[From(Head(conflicts))].bal = 2 * Want(Head(conflicts))
Behind == {t \in Txs : \E l \in 1 .. level : \E i \in DOMAIN plan.items[l] : plan.items[l][i] = t}
Atomic == INSTANCE AtomicBlock WITH
    todo <- IF phase = "fill" THEN Txs
            ELSE (Txs \ Behind) \ (IF Detected THEN Current ELSE {}),
    redo <- {conflicts[i] : i \in DOMAIN conflicts},
    busy <- IF Funded THEN Head(conflicts) ELSE 0
AtomicLevels == Atomic!Spec
=============================================================================
