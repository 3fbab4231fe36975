---------------------------- MODULE TransferTx ----------------------------
(***************************************************************************)
(* The transactions of a block of plain value transfers, and the amounts   *)
(* process/process_transition.go computes from them alone.  ExecBench      *)
(* executes them on several goroutines, AtomicBlock level by level.        *)
(***************************************************************************)
EXTENDS Integers, Sequences

CONSTANTS Account,
          Coinbase,     \* account paid the effective tip
          Blocks,       \* the blocks to execute: sequences of transfers
          Price,        \* MetaTransaction.GasPrice(), also fee cap and tip cap
          BaseFee,      \* of the block header
          TxGas,        \* gas limit of every transaction
          BlockGas,     \* gas limit of the block
          Bonus,        \* what NewProcessTransition puts into gas
          Intrinsic,    \* intrinsic gas of a transfer
          CallStipend,  \* gas used by a transaction that cannot pay its value
          Funds,        \* balance of every account before the block
          Wrap          \* 2^64, the range of a uint64

ASSUME TransferAssumption ==
    /\ Coinbase \in Account
    /\ {Price, BaseFee, TxGas, BlockGas, Bonus, Intrinsic, CallStipend, Funds, Wrap} \subseteq Nat
    /\ BaseFee <= Price
    /\ Intrinsic <= Bonus + TxGas /\ Bonus + TxGas < Wrap /\ BlockGas < Wrap
    /\ Blocks \subseteq Seq([from : Account, to : Account, value : Nat])
    /\ \A b \in Blocks : Len(b) <= 12

VARIABLE block      \* the transactions, in block order

Txs == DOMAIN block
From(t) == block[t].from
To(t) == block[t].to
Value(t) == block[t].value
Names(t) == {From(t), To(t)}

Want(t) == TxGas * Price + Value(t)            \* balanceCheck
Left == Bonus + TxGas - Intrinsic              \* pt.gas after a transfer
GasUsed == (TxGas - Left) % Wrap               \* pt.gasUsed(), a uint64
Tip == Price - BaseFee                         \* effectiveTip
Fee == GasUsed * Tip
=============================================================================
