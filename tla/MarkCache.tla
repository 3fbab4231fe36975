----------------------------- MODULE MarkCache -----------------------------
(***************************************************************************)
(* The level scheduler: ExecBenchTxs hands the block's transactions, in    *)
(* block order, to FillingTransCut, which marks them and puts them into    *)
(* levels.  Levels are executed one after the other, the transactions of   *)
(* a level concurrently.                                                   *)
(*                                                                         *)
(* An item is the position of its transaction in the block.                *)
(***************************************************************************)
EXTENDS MarkOps, FiniteSets

CONSTANTS Account,  \* the addresses
          MaxTxs    \* bound: longest block

ASSUME ScheduleAssumption == /\ MaxTxs \in Nat
                             /\ NoTo \notin Account

VARIABLES marks,     \* fromAndToMark
          items,     \* Items
          maxLevel,  \* maxLevel
          block,     \* the transactions handed over so far: <<from, to>>
          panicked   \* SetMarkCache dereferenced a nil To

vars == <<marks, items, maxLevel, block, panicked>>

Init ==
    /\ marks = [a \in Account |-> NoMark]
    /\ items = NewItems
    /\ maxLevel = 0
    /\ block = <<>>
    /\ panicked = FALSE

\* Variant of Transfer: the item goes to the level of its own mark.
TransferToOwnMark(from, to) ==
    LET mark == JointMark(marks, from, to)
    IN  /\ ~panicked
        /\ Len(block) < MaxTxs
        /\ maxLevel' = Larger(mark, maxLevel)
        /\ marks' = MarkedBoth(marks, from, to, mark)
        /\ block' = Append(block, <<from, to>>)
        /\ items' = Placed(items, mark, Len(block'))
        /\ UNCHANGED panicked

\* SetMarkCache for a transaction with a recipient.
Transfer(from, to) ==
    LET mark == JointMark(marks, from, to)
    IN  /\ ~panicked
        /\ Len(block) < MaxTxs
        /\ maxLevel' = Larger(mark, maxLevel)
        /\ marks' = MarkedBoth(marks, from, to, mark)
        /\ block' = Append(block, <<from, to>>)
        /\ items' = Placed(items, maxLevel', Len(block'))
        /\ UNCHANGED panicked

\* SetMarkCache for a contract creation: `*toAddr' is evaluated after
\* maxLevel and the sender's mark have been written, so the item is lost.
Creation(from) ==
    LET mark == JointMark(marks, from, NoTo)
    IN  /\ ~panicked
        /\ Len(block) < MaxTxs
        /\ maxLevel' = Larger(mark, maxLevel)
        /\ marks' = MarkedFrom(marks, from, mark)
        /\ block' = Append(block, <<from, NoTo>>)
        /\ panicked' = TRUE
        /\ UNCHANGED items

Next ==
    \/ \E from \in Account, to \in Account : Transfer(from, to)
    \/ \E from \in Account : Creation(from)

Spec == Init /\ [][Next]_vars
-----------------------------------------------------------------------------
Levels == 0 .. GetMaxLevel(maxLevel) - 1     \* what ExecBenchTxs loops over
LevelOf(l) == GetLevelItemWithMark(items, l)
Scheduled == DOMAIN block

\* Marks and levels are natural numbers, items are positions in the block.
TypeOK ==
    /\ marks \in [Account -> Nat \cup {NoMark}]
    /\ items \in Seq(Seq(Nat))
    /\ maxLevel \in Nat
    /\ block \in Seq(Account \X (Account \cup {NoTo}))
    /\ panicked \in BOOLEAN

\* No account carries a mark above maxLevel: a later transaction therefore
\* raises maxLevel by one at most (transactionMark.go:79-86).
MarksBounded == \A a \in Account : marks[a] # NoMark => marks[a] <= maxLevel

\* ExecBenchTxs indexes Items with every level below GetMaxLevel(); while the
\* fill has not panicked each of them exists (transactionMark.go:96-100).
LevelsInRange == ~panicked => maxLevel < Len(items)

\* ExecBenchTxs cannot finish a level without items (its result channel has
\* capacity 0): once one transaction is in, no level it visits is empty.
NoEmptyLevel ==
    (block # <<>> /\ ~panicked) => \A l \in Levels : LevelOf(l) # <<>>

\* The schedule never reorders the block: reading the levels one after the
\* other gives the transactions in block order (transactionMark.go:102-109).
OrderPreserved ==
    /\ \A k \in DOMAIN items : \A i, j \in DOMAIN items[k] :
            i < j => items[k][i] < items[k][j]
    /\ \A k, m \in DOMAIN items : k < m =>
            \A i \in DOMAIN items[k], j \in DOMAIN items[m] :
                items[k][i] < items[m][j]

\* Every transaction handed over sits in a level that will be executed.
AllScheduled ==
    ~panicked => \A t \in Scheduled : \E l \in Levels :
                     \E i \in DOMAIN LevelOf(l) : LevelOf(l)[i] = t

\* The accounts a scheduled transaction names.
Touched(t) == {block[t][1], block[t][2]}
Shares(t, u) == Touched(t) \cap Touched(u) # {}

\* Level 0 is the only level the marks keep free of sharing: an account that
\* has a mark, even one reset to 0, pushes its next transaction out of level 0
\* (transactionMark.go:57-71).
FirstLevelDisjoint ==
    \A i, j \in DOMAIN LevelOf(0) :
        i # j => ~Shares(LevelOf(0)[i], LevelOf(0)[j])

\* A level is never opened without need: the transaction that opens one shares
\* an account with a transaction of an earlier level (transactionMark.go:79-81).
LevelsJustified ==
    ~panicked => \A l \in Levels \ {0} : LevelOf(l) # <<>> =>
        \E k \in 0 .. l - 1 : \E i \in DOMAIN LevelOf(k) :
            Shares(LevelOf(l)[1], LevelOf(k)[i])
=============================================================================
