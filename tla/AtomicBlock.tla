---------------------------- MODULE AtomicBlock ----------------------------
(***************************************************************************)
(* What ExecBenchTxs promises about the state, without goroutines, read    *)
(* and write sets, records or gas pools: a level of the block takes effect *)
(* in one step, and then the transactions of the level that were in        *)
(* conflict take effect again, one at a time.                              *)
(*                                                                         *)
(* For blocks without tips (BaseFee = Price).                              *)
(***************************************************************************)
EXTENDS TransferTx, FiniteSets

VARIABLES db,      \* balance and nonce of every account
          todo,    \* the transactions that have not been executed
          redo,    \* those of the level to be executed again
          busy     \* the one that is being executed again, 0 for none

atomicVars == <<block, db, todo, redo, busy>>

Init ==
    /\ block \in Blocks
    /\ db = [a \in Account |-> [bal |-> Funds, nonce |-> 0]]
    /\ todo = Txs
    /\ redo = {}
    /\ busy = 0

\* The accounts whose balance t changes, and by how much.
Touched(t) == {From(t)} \cup (IF Value(t) > 0 THEN {To(t)} ELSE {})
Delta(t, a) ==
    (IF a = From(t) THEN (Left - TxGas) * Price - Value(t) ELSE 0)
    + (IF a = To(t) THEN Value(t) ELSE 0)

\* The balances buyGas gives to a while level L runs; a sender has one of them,
\* another account may be seen with one.
Funded(a, L) == {2 * Want(u) : u \in {v \in L : From(v) = a}}
Seen(t, a, L) ==
    IF a = From(t) THEN Funded(a, L) ELSE {db[a].bal} \cup Funded(a, L)

Disjoint(S) == \A t, u \in S : t # u => Touched(t) \cap Touched(u) = {}
Alone(t, L) == \A u \in L \ {t} : Names(t) \cap Names(u) = {}

\* Another transaction of its sender leaves t too little to pay its value.
Starved(t, L) == \E u \in L : From(u) = From(t) /\ 2 * Want(u) < Value(t)

\* One level L: of its transactions those in S take effect, no two of them on
\* the same account and with the effect each has alone, and a transaction that
\* shares no account with the others is among them.  Those in N and P cannot pay
\* their value: they leave a nonce or pay for their gas, and not both.  Those in R
\* are in conflict; the others leave nothing.
Owed(a, P) == IF \E t \in P : From(t) = a THEN TxGas * Price ELSE 0
Settled(L, S, N, P) ==
    \A a \in Account :
        /\ IF \E t \in S : a \in Touched(t)
           THEN \E t \in S :
                    /\ a \in Touched(t)
                    /\ db'[a].bal \in {x + Delta(t, a) - Owed(a, P) : x \in Seen(t, a, L)}
           ELSE db'[a].bal = db[a].bal - Owed(a, P)
        /\ db'[a].nonce = db[a].nonce + (IF \E t \in S \cup N : From(t) = a THEN 1 ELSE 0)

Level ==
    /\ redo = {} /\ busy = 0
    /\ \E L \in SUBSET todo :
           /\ L # {} /\ todo' = todo \ L
           /\ \A t \in L, u \in todo \ L : u < t => Names(t) \cap Names(u) = {}
           /\ \E R \in SUBSET L :
                  /\ redo' = R
                  /\ \E S, N, P \in SUBSET (L \ R) :
                         /\ S \cap N = {} /\ S \cap P = {} /\ N \cap P = {}
                         /\ \A t \in L : Alone(t, L) => t \in S
                         /\ \A t \in N \cup P : Starved(t, L)
                         /\ Disjoint(S)
                         /\ Settled(L, S, N, P)
    /\ UNCHANGED <<block, busy>>

\* buyGas of a transaction that is executed again.
Fund ==
    /\ busy = 0
    /\ \E t \in redo :
           /\ busy' = t
           /\ db' = [db EXCEPT ![From(t)].bal = 2 * Want(t)]
    /\ UNCHANGED <<block, todo, redo>>

\* Its effect: the sender pays the value twice.
Settle ==
    /\ busy # 0
    /\ db' = [a \in Account |->
                 [bal   |-> db[a].bal + Delta(busy, a) - (IF a = From(busy) THEN Value(busy) ELSE 0),
                  nonce |-> db[a].nonce + (IF a = From(busy) THEN 1 ELSE 0)]]
    /\ redo' = redo \ {busy}
    /\ busy' = 0
    /\ UNCHANGED <<block, todo>>

Next == Level \/ Fund \/ Settle

Spec == Init /\ [][Next]_atomicVars
=============================================================================
