-------------------------- MODULE ExecBenchProofs --------------------------
(***************************************************************************)
(* What ExecBenchTxs keeps true, for every block, every plan and every     *)
(* interleaving of the goroutines of a level with the main goroutine.      *)
(*                                                                         *)
(* The inductive invariant IInv says what each list holds while a block is *)
(* under way: every transaction of an earlier level is reported or ended   *)
(* in an error, none of a later level has started, and those of the level  *)
(* at work are where the phase of the main goroutine puts them.  Below it  *)
(* are lemmas on the sets a goroutine builds, on the plan, on the order of *)
(* the records and on DetectConflicts; above it one lemma per action.      *)
(* Sound, for the nonces, is preserved beside it as long as no transaction *)
(* fails.                                                                  *)
(*                                                                         *)
(* AInv, in the second half, is preserved beside IInv too: it says what    *)
(* each goroutine of a level has read and written so far, and for whom.    *)
(* From it follows what DetectConflicts knows of a level (LevelUpTo), and  *)
(* from that the refinement of AtomicBlock.                                *)
(*                                                                         *)
(* The plan, the records, their order and the conflicts are folds over     *)
(* sequences.  What such a fold has done after n elements follows from     *)
(* FoldInduction of FoldTheorems, of which there is one instance each.     *)
(***************************************************************************)
EXTENDS ExecBench, FiniteSetTheorems, SequenceTheorems, WellFoundedInduction, TLAPS

\* The keys a read or write set has.
Keys == {BalanceKey, SubBalanceKey, NonceKey}

\* What a read or write set holds, beside the counters SetOf speaks of.
GoodMap(m) ==
    DOMAIN m \subseteq Keys /\ \A k \in DOMAIN m : m[k] \in IF k = NonceKey THEN Nat ELSE Int
GoodCache(cache) == DOMAIN cache \subseteq Account /\ \A a \in DOMAIN cache : GoodMap(cache[a])
GoodSet(set) ==
    /\ GoodCache(set.cache) /\ SetOf(set)
    /\ IsFiniteSet(DOMAIN set.cache) /\ IsFiniteSet(Entries(set.cache))

\* The types of the constants and of a block.
LEMMA Constants ==
    /\ Coinbase \in Account
    /\ Price \in Nat /\ BaseFee \in Nat /\ TxGas \in Nat /\ BlockGas \in Nat /\ Bonus \in Nat
    /\ Intrinsic \in Nat /\ CallStipend \in Nat /\ Funds \in Nat /\ Wrap \in Nat
    /\ BaseFee <= Price /\ Intrinsic <= Bonus + TxGas /\ Bonus + TxGas < Wrap /\ BlockGas < Wrap
BY TransferAssumption

\* The transactions of a block and what they ask for.
LEMMA BlockTypes ==
    ASSUME block \in Blocks
    PROVE  /\ Len(block) \in Nat /\ Txs = 1 .. Len(block)
           /\ \A t \in Txs : From(t) \in Account /\ To(t) \in Account /\ Value(t) \in Nat /\ Want(t) \in Nat
<1>1. block \in Seq([from : Account, to : Account, value : Nat])
  BY TransferAssumption
<1>2. Txs = 1 .. Len(block) /\ Len(block) \in Nat
  BY <1>1 DEF Txs
<1>3. ASSUME NEW t \in Txs PROVE From(t) \in Account /\ To(t) \in Account /\ Value(t) \in Nat
  <2>1. block[t] \in [from : Account, to : Account, value : Nat]
    BY <1>1, <1>2, ElementOfSeq
  <2>. QED
    BY <2>1 DEF From, To, Value
<1>. QED
  <2>1. ASSUME NEW t \in Txs PROVE Want(t) \in Nat
    <3>1. TxGas * Price \in Nat
      BY Constants
    <3>2. Value(t) \in Nat
      BY <1>3
    <3>. QED
      BY <3>1, <3>2 DEF Want
  <2>. QED
    BY <1>2, <1>3, <2>1

\* The amounts computed from the constants.
LEMMA Amounts ==
    Left \in Nat /\ Tip \in Nat /\ GasUsed \in Nat /\ Fee \in Nat /\ TxGas * Price \in Nat /\ Left * Price \in Nat
<1>1. Left \in Nat /\ Tip \in Nat /\ TxGas * Price \in Nat
  BY Constants DEF Left, Tip
<1>2. GasUsed \in Nat
  <2>1. TxGas - Left \in Int /\ Wrap \in Nat /\ Wrap > 0
    BY <1>1, Constants
  <2>. QED
    BY <2>1 DEF GasUsed
<1>. QED
  BY <1>1, <1>2, Constants DEF Fee
-----------------------------------------------------------------------------
(* The sets of entries a transaction reads and writes.                     *)

\* An entry is a key of an account's map.
LEMMA HasEntry ==
    ASSUME NEW set, NEW a, NEW k
    PROVE  Has(set, a, k) <=> <<a, k>> \in Entries(set.cache)
BY DEF Has, Entries

\* Adding an element to a finite set.
LEMMA AddCounts ==
    ASSUME NEW S, IsFiniteSet(S), NEW x
    PROVE  /\ IsFiniteSet(S \cup {x}) /\ Cardinality(S) \in Nat
           /\ Cardinality(S \cup {x}) = Cardinality(S) + (IF x \in S THEN 0 ELSE 1)
<1>1. Cardinality(S) \in Nat
  BY FS_CardinalityType
<1>2. CASE x \in S
  <2>. DEFINE T == S \cup {x}
  <2>1. T = S
    BY <1>2
  <2>. HIDE DEF T
  <2>2. IsFiniteSet(T) /\ Cardinality(T) = Cardinality(S) + 0
    BY <1>1, <2>1
  <2>. QED
    BY <1>1, <1>2, <2>2 DEF T
<1>3. CASE x \notin S
  BY <1>1, <1>3, FS_AddElement
<1>. QED
  BY <1>1, <1>2, <1>3

\* A new set is empty.
LEMMA EmptySet ==
    GoodSet(NewSet) /\ DOMAIN NewSet.cache = {} /\ Entries(NewSet.cache) = {}
<1>1. DOMAIN NewSet.cache = {} /\ Entries(NewSet.cache) = {}
  BY DEF NewSet, NoEntries, Entries
<1>. QED
  BY <1>1, FS_EmptySet DEF GoodSet, GoodCache, SetOf, NewSet

\* Storing a value adds its entry and no other, and counts it if it is new.
LEMMA StoredLemma ==
    ASSUME NEW set, GoodSet(set), NEW a \in Account, NEW k \in Keys,
           NEW v \in Int, k = NonceKey => v \in Nat
    PROVE  /\ GoodSet(Stored(set, a, k, v))
           /\ DOMAIN Stored(set, a, k, v).cache = DOMAIN set.cache \cup {a}
           /\ Entries(Stored(set, a, k, v).cache) = Entries(set.cache) \cup {<<a, k>>}
<1>. DEFINE cache == set.cache
            m == At(cache, a)
            put == Put(m, k, v)
            new == Put(cache, a, put)
            s == Stored(set, a, k, v)
<1>1. /\ DOMAIN new = DOMAIN cache \cup {a} /\ new[a] = put
      /\ \A b \in DOMAIN cache \ {a} : new[b] = cache[b]
  BY DEF Put
<1>2. DOMAIN put = DOMAIN m \cup {k} /\ put[k] = v /\ \A x \in DOMAIN m \ {k} : put[x] = m[x]
  BY DEF Put
<1>3. DOMAIN m = (IF a \in DOMAIN cache THEN DOMAIN cache[a] ELSE {})
      /\ (a \in DOMAIN cache => m = cache[a])
  BY DEF At, NoEntries
<1>4. /\ s.cache = new
      /\ s.addressCount = set.addressCount + (IF a \in DOMAIN cache THEN 0 ELSE 1)
      /\ s.detailKeyCount = set.detailKeyCount + (IF Has(set, a, k) THEN 0 ELSE 1)
  BY DEF Stored
<1>5. Entries(new) = Entries(cache) \cup {<<a, k>>}
  <2>. HIDE DEF new, cache, m, put
  <2>1. ASSUME NEW e PROVE e \in Entries(new) <=> e \in Entries(cache) \cup {<<a, k>>}
    <3>1. CASE \E b \in DOMAIN new : \E x : e = <<b, x>>
      BY <3>1, <1>1, <1>2, <1>3 DEF Entries
    <3>2. CASE ~\E b \in DOMAIN new : \E x : e = <<b, x>>
      BY <3>2, <1>1 DEF Entries
    <3>. QED
      BY <3>1, <3>2
  <2>. QED
    BY <2>1
<1>6. GoodCache(new)
  <2>1. GoodCache(cache)
    BY DEF GoodSet
  <2>2. GoodMap(put)
    <3>. HIDE DEF put, m
    <3>1. GoodMap(m)
      <4>1. CASE a \in DOMAIN cache
        BY <1>3, <2>1, <4>1 DEF GoodCache
      <4>2. CASE a \notin DOMAIN cache
        BY <1>3, <4>2 DEF GoodMap
      <4>. QED
        BY <4>1, <4>2
    <3>. QED
      BY <3>1, <1>2 DEF GoodMap
  <2>. HIDE DEF new, cache, put
  <2>. QED
    BY <1>1, <2>1, <2>2 DEF GoodCache
<1>7. /\ IsFiniteSet(DOMAIN cache) /\ IsFiniteSet(Entries(cache))
      /\ set.addressCount = Cardinality(DOMAIN cache)
      /\ set.detailKeyCount = Cardinality(Entries(cache))
  BY DEF GoodSet, SetOf
<1>8. /\ IsFiniteSet(DOMAIN cache \cup {a})
      /\ Cardinality(DOMAIN cache \cup {a})
            = Cardinality(DOMAIN cache) + (IF a \in DOMAIN cache THEN 0 ELSE 1)
  <2>. HIDE DEF cache
  <2>. QED
    BY <1>7, AddCounts
<1>9. /\ IsFiniteSet(Entries(cache) \cup {<<a, k>>})
      /\ Cardinality(Entries(cache) \cup {<<a, k>>})
            = Cardinality(Entries(cache)) + (IF <<a, k>> \in Entries(cache) THEN 0 ELSE 1)
  <2>. HIDE DEF cache
  <2>. QED
    BY <1>7, AddCounts
<1>10. SetOf(s)
  <2>1. Has(set, a, k) <=> <<a, k>> \in Entries(cache)
    BY HasEntry
  <2>2. DOMAIN s.cache \subseteq Account
    <3>. HIDE DEF new
    <3>. QED
      BY <1>4, <1>6 DEF GoodCache
  <2>3. s.addressCount = Cardinality(DOMAIN s.cache)
    <3>. HIDE DEF new, cache, s
    <3>. QED
      BY <1>1, <1>4, <1>7, <1>8
  <2>4. s.detailKeyCount = Cardinality(Entries(s.cache))
    <3>. HIDE DEF new, cache, s
    <3>. QED
      BY <1>4, <1>5, <1>7, <1>9, <2>1
  <2>. HIDE DEF s
  <2>. QED
    BY <2>2, <2>3, <2>4 DEF SetOf
<1>. HIDE DEF s, new, cache
<1>11. GoodSet(s)
  BY <1>1, <1>4, <1>5, <1>6, <1>8, <1>9, <1>10 DEF GoodSet
<1>. QED
  BY <1>1, <1>4, <1>5, <1>11 DEF s, cache

\* The value a set has under a key is a number.
LEMMA ValueLemma ==
    ASSUME NEW set, GoodSet(set), NEW a, NEW k, Has(set, a, k)
    PROVE  ValueOf(set, a, k) \in Int
<1>1. set.cache[a][k] \in IF k = NonceKey THEN Nat ELSE Int
  BY DEF GoodSet, GoodCache, GoodMap, Has
<1>. QED
  BY <1>1 DEF ValueOf

\* Reading a balance adds its entry to a read set and no other.
LEMMA ReadLemma ==
    ASSUME NEW set, GoodSet(set), NEW a \in Account, NEW v \in Int
    PROVE  /\ GoodSet(ReadUpdate(set, a, BalanceKey, v))
           /\ Entries(ReadUpdate(set, a, BalanceKey, v).cache)
                 = Entries(set.cache) \cup {<<a, BalanceKey>>}
<1>. DEFINE sum == IF Has(set, a, BalanceKey) THEN ValueOf(set, a, BalanceKey) + v ELSE v
<1>1. sum \in Int
  BY ValueLemma
<1>2. ReadUpdate(set, a, BalanceKey, v) = Stored(set, a, BalanceKey, sum)
  BY DEF ReadUpdate
<1>3. BalanceKey \in Keys /\ BalanceKey # NonceKey
  BY KeysAssumption DEF Keys
<1>. HIDE DEF sum
<1>. QED
  BY <1>1, <1>2, <1>3, StoredLemma

\* Writing adds its entry to a write set and no other.
LEMMA WriteLemma ==
    ASSUME NEW set, GoodSet(set), NEW a \in Account, NEW k \in Keys,
           NEW v \in Int, k = NonceKey => v \in Nat, NEW base \in Int
    PROVE  /\ GoodSet(WriteUpdate(set, a, k, v, base))
           /\ DOMAIN WriteUpdate(set, a, k, v, base).cache = DOMAIN set.cache \cup {a}
           /\ Entries(WriteUpdate(set, a, k, v, base).cache) = Entries(set.cache) \cup {<<a, k>>}
<1>. DEFINE sum == CASE k = BalanceKey    -> (IF Has(set, a, k) THEN ValueOf(set, a, k) ELSE base) + v
                     [] k = SubBalanceKey -> (IF Has(set, a, k) THEN ValueOf(set, a, k) ELSE 0) + v
                     [] OTHER             -> v
<1>1. Has(set, a, k) => ValueOf(set, a, k) \in Int
  BY ValueLemma
<1>2. sum \in Int /\ (k = NonceKey => sum \in Nat)
  <2>1. CASE k = BalanceKey
    BY <2>1, <1>1, KeysAssumption
  <2>2. CASE k = SubBalanceKey
    BY <2>2, <1>1, KeysAssumption
  <2>3. CASE k \notin {SubBalanceKey, BalanceKey}
    BY <2>3
  <2>. QED
    BY <2>1, <2>2, <2>3
<1>3. WriteUpdate(set, a, k, v, base) = Stored(set, a, k, sum)
  BY DEF WriteUpdate
<1>. HIDE DEF sum
<1>. QED
  BY <1>2, <1>3, StoredLemma

-----------------------------------------------------------------------------
(* What a goroutine does to its own sets.                                  *)

\* The types of the variables that are not about single transactions.
Objects == [Account -> [bal : Int, nonce : Nat]]
Machine ==
    /\ block \in Blocks /\ phase \in Phase
    /\ db \in Objects /\ cp \in Objects
    /\ gpVar \in {0} \cup Txs /\ pools \in [{0} \cup Txs -> 0 .. Wrap - 1]
    /\ usedGas \in 0 .. Wrap - 1

\* A goroutine and its Result.  Only balances are recorded as read, a nonce is
\* written only where the balance was read, an error leaves the sets empty, and
\* what was not ended by an error has charged its sender.
Fields == {"pc", "pool", "reg", "rset", "wset", "err", "vmErr", "gas"}
Uncharged == {"start", "pool", "setBalance", "have", "loadGas", "subGas"}
GoodExec(e, ts, from) ==
    /\ DOMAIN e = Fields
    /\ e.pc \in PC /\ e.pool \in {0} \cup ts /\ e.reg \in 0 .. Wrap - 1 /\ e.gas \in Nat
    /\ GoodSet(e.rset) /\ GoodSet(e.wset)
    /\ Entries(e.rset.cache) \subseteq Account \X {BalanceKey}
    /\ \A a \in Account : <<a, NonceKey>> \in Entries(e.wset.cache)
                              => <<a, BalanceKey>> \in Entries(e.rset.cache)
    /\ e.err => e.pc \in {"send", "done"} /\ e.rset = NewSet /\ e.wset = NewSet
    /\ e.pc \notin Uncharged /\ ~e.err => from \in DOMAIN e.wset.cache
Executions == DOMAIN exec = Txs /\ \A t \in Txs : GoodExec(exec[t], Txs, From(t))

\* A goroutine changes its own record only.
LEMMA ExecStep ==
    ASSUME Executions, UNCHANGED block, NEW t \in Txs, NEW e, GoodExec(e, Txs, From(t)),
           exec' = [exec EXCEPT ![t] = e]
    PROVE  Executions'
<1>1. Txs' = Txs /\ \A u \in Txs : From(u)' = From(u)
  BY DEF Txs, From
<1>2. DOMAIN exec' = Txs /\ \A u \in Txs : exec'[u] = IF u = t THEN e ELSE exec[u]
  BY DEF Executions
<1>. QED
  BY <1>1, <1>2 DEF Executions

\* What a goroutine finds at its program counter.
LEMMA AtLemma ==
    ASSUME Machine, Executions, NEW t \in Txs
    PROVE  /\ From(t) \in Account /\ To(t) \in Account /\ Value(t) \in Nat /\ Want(t) \in Nat
           /\ DOMAIN exec = Txs /\ GoodExec(exec[t], Txs, From(t))
           /\ \A a \in Account : cp[a].bal \in Int /\ cp[a].nonce \in Nat
           /\ \A a \in Account : db[a].bal \in Int /\ db[a].nonce \in Nat
           /\ \A p \in {0} \cup Txs : pools[p] \in 0 .. Wrap - 1
BY BlockTypes DEF Machine, Executions, Objects

\* A write set after a transfer.
LEMMA TransferLemma ==
    ASSUME Machine, Executions, NEW t \in Txs, NEW set, GoodSet(set), NEW b \in Int
    PROVE  /\ GoodSet(Transfer(set, t, b))
           /\ DOMAIN set.cache \subseteq DOMAIN Transfer(set, t, b).cache
           /\ Entries(Transfer(set, t, b).cache)
                 = Entries(set.cache) \cup {<<From(t), SubBalanceKey>>, <<To(t), BalanceKey>>}
<1>. DEFINE s == WriteUpdate(set, From(t), SubBalanceKey, Value(t), 0)
<1>1. From(t) \in Account /\ To(t) \in Account /\ Value(t) \in Int
  BY AtLemma
<1>2. {BalanceKey, SubBalanceKey} \subseteq Keys /\ NonceKey \notin {BalanceKey, SubBalanceKey}
  BY KeysAssumption DEF Keys
<1>3. /\ GoodSet(s) /\ DOMAIN s.cache = DOMAIN set.cache \cup {From(t)}
      /\ Entries(s.cache) = Entries(set.cache) \cup {<<From(t), SubBalanceKey>>}
  BY <1>1, <1>2, WriteLemma
<1>. DEFINE w == WriteUpdate(s, To(t), BalanceKey, Value(t), b)
<1>4. Transfer(set, t, b) = w
  BY DEF Transfer
<1>. HIDE DEF s
<1>5. /\ GoodSet(w) /\ DOMAIN w.cache = DOMAIN s.cache \cup {To(t)}
      /\ Entries(w.cache) = Entries(s.cache) \cup {<<To(t), BalanceKey>>}
  <2>1. BalanceKey \in Keys /\ BalanceKey # NonceKey /\ GoodSet(s) /\ To(t) \in Account
    BY <1>1, <1>2, <1>3
  <2>. QED
    BY <1>1, <2>1, WriteLemma
<1>. HIDE DEF w
<1>. QED
  BY <1>3, <1>4, <1>5

\* A write set after a credit that may be left out.
Credited(new, set) ==
    /\ GoodSet(new) /\ DOMAIN set.cache \subseteq DOMAIN new.cache
    /\ Entries(set.cache) \subseteq Entries(new.cache)
    /\ Entries(new.cache) \subseteq Entries(set.cache) \cup (Account \X {BalanceKey})

\* The refund of the gas that is left writes the balance of the sender.
LEMMA RefundedLemma ==
    ASSUME Machine, Executions, NEW t \in Txs, NEW set, GoodSet(set), NEW b \in Int
    PROVE  Credited(Refunded(set, t, b), set)
<1>1. From(t) \in Account /\ Left * Price \in Int /\ BalanceKey \in Keys /\ BalanceKey # NonceKey
  BY AtLemma, Amounts, KeysAssumption DEF Keys
<1>2. CASE Left * Price = 0
  <2>1. Refunded(set, t, b) = set
    BY <1>2, Zenon DEF Refunded
  <2>. QED
    BY <2>1 DEF Credited
<1>3. CASE Left * Price # 0
  <2>. DEFINE s == WriteUpdate(set, From(t), BalanceKey, Left * Price, b)
  <2>1. Refunded(set, t, b) = s
    BY <1>3, Zenon DEF Refunded
  <2>2. /\ GoodSet(s) /\ DOMAIN s.cache = DOMAIN set.cache \cup {From(t)}
        /\ Entries(s.cache) = Entries(set.cache) \cup {<<From(t), BalanceKey>>}
    BY <1>1, WriteLemma
  <2>. HIDE DEF s
  <2>. QED
    BY <1>1, <2>1, <2>2 DEF Credited
<1>. QED
  BY <1>2, <1>3

\* The tip writes the balance of the coinbase.
LEMMA TippedLemma ==
    ASSUME NEW set, GoodSet(set), NEW b \in Int
    PROVE  Credited(Tipped(set, b), set)
<1>1. Coinbase \in Account /\ Fee \in Int /\ BalanceKey \in Keys /\ BalanceKey # NonceKey
  BY Constants, Amounts, KeysAssumption DEF Keys
<1>2. CASE Tip = 0
  BY <1>2 DEF Tipped, Credited
<1>3. CASE Tip # 0
  <2>. DEFINE s == WriteUpdate(set, Coinbase, BalanceKey, Fee, b)
  <2>1. Tipped(set, b) = s
    BY <1>3, Zenon DEF Tipped
  <2>2. /\ GoodSet(s) /\ DOMAIN s.cache = DOMAIN set.cache \cup {Coinbase}
        /\ Entries(s.cache) = Entries(set.cache) \cup {<<Coinbase, BalanceKey>>}
    BY <1>1, WriteLemma
  <2>. HIDE DEF s
  <2>. QED
    BY <1>1, <2>1, <2>2 DEF Credited
<1>. QED
  BY <1>2, <1>3

\* The goroutine steps keep the types and what is said of the sets.
LEMMA GoroutineKeeps ==
    ASSUME Machine, Executions, NEW t \in Txs, Goroutine(t)
    PROVE  Machine' /\ Executions'
<1>. DEFINE e == exec[t]
            from == From(t)
<1>1. /\ from \in Account /\ To(t) \in Account /\ Value(t) \in Nat /\ Want(t) \in Nat
      /\ DOMAIN exec = Txs /\ GoodExec(e, Txs, from)
      /\ \A a \in Account : cp[a].bal \in Int /\ cp[a].nonce \in Nat
      /\ \A p \in {0} \cup Txs : pools[p] \in 0 .. Wrap - 1
  BY AtLemma
<1>2. BalanceKey \in Keys /\ SubBalanceKey \in Keys /\ NonceKey \in Keys
      /\ BalanceKey # NonceKey /\ SubBalanceKey # NonceKey
  BY KeysAssumption DEF Keys
<1>3. /\ Wrap \in Nat /\ Wrap > 0 /\ TxGas \in Nat /\ CallStipend \in Nat /\ BlockGas \in 0 .. Wrap - 1
      /\ Left \in Nat /\ TxGas * Price \in Nat
  BY Constants, Amounts
<1>4. ASSUME UNCHANGED <<block, db>>, phase' \in Phase, cp' \in Objects,
             gpVar' \in {0} \cup Txs, pools' \in [{0} \cup Txs -> 0 .. Wrap - 1],
             usedGas' \in 0 .. Wrap - 1
      PROVE  Machine'
  BY <1>4 DEF Machine, Txs
<1>5. ASSUME NEW f, GoodExec(f, Txs, from), exec' = [exec EXCEPT ![t] = f], UNCHANGED block
      PROVE  Executions'
  BY <1>5, ExecStep
<1>6. Txs # {} /\ phase \in Phase /\ cp \in Objects /\ gpVar \in {0} \cup Txs
      /\ pools \in [{0} \cup Txs -> 0 .. Wrap - 1] /\ usedGas \in 0 .. Wrap - 1
  BY DEF Machine
<1>7. /\ DOMAIN e = Fields /\ e.pool \in {0} \cup Txs /\ e.reg \in 0 .. Wrap - 1 /\ e.gas \in Nat
      /\ GoodSet(e.rset) /\ GoodSet(e.wset)
  BY <1>1 DEF GoodExec
<1>. HIDE DEF from
<1>8. CASE MakePool(t)
  <2>. DEFINE f == [e EXCEPT !.pc = "pool"]
  <2>1. exec' = [exec EXCEPT ![t] = f] /\ e.pc = "start" /\ UNCHANGED block
    BY <1>8 DEF MakePool, Goto, IsAt
  <2>2. GoodExec(f, Txs, from)
    BY <1>1, <1>7, <2>1 DEF GoodExec, Fields, PC, Uncharged
  <2>3. Machine'
    BY <1>3, <1>4, <1>6, <1>8 DEF MakePool, mainVars
  <2>. QED
    BY <1>5, <2>1, <2>2, <2>3
<1>9. CASE PassPool(t)
  <2>. DEFINE f == [e EXCEPT !.pc = "setBalance", !.pool = gpVar]
  <2>1. exec' = [exec EXCEPT ![t] = f] /\ e.pc = "pool" /\ UNCHANGED block
    BY <1>9 DEF PassPool, IsAt
  <2>2. GoodExec(f, Txs, from)
    BY <1>1, <1>6, <1>7, <2>1 DEF GoodExec, Fields, PC, Uncharged
  <2>3. Machine'
    BY <1>3, <1>4, <1>6, <1>9 DEF PassPool, mainVars
  <2>. QED
    BY <1>5, <2>1, <2>2, <2>3
<1>10. CASE SetBalance(t)
  <2>. DEFINE f == [e EXCEPT !.pc = "have"]
  <2>1. exec' = [exec EXCEPT ![t] = f] /\ e.pc = "setBalance" /\ UNCHANGED block
    BY <1>10 DEF SetBalance, Goto, IsAt
  <2>2. GoodExec(f, Txs, from)
    BY <1>1, <1>7, <2>1 DEF GoodExec, Fields, PC, Uncharged
  <2>3. cp' \in Objects
    BY <1>1, <1>6, <1>10 DEF SetBalance, Objects, from
  <2>4. Machine'
    BY <1>3, <1>4, <1>6, <1>10, <2>3 DEF SetBalance, mainVars
  <2>. QED
    BY <1>5, <2>1, <2>2, <2>4
<1>11. ASSUME e.pc \in PC PROVE GoodExec(Failed(e), Txs, from)
  <2>. DEFINE f == Failed(e)
  <2>1. f = [e EXCEPT !.pc = "send", !.err = TRUE, !.rset = NewSet, !.wset = NewSet, !.gas = 0]
    BY DEF Failed
  <2>2. /\ DOMAIN f = Fields /\ f.pc = "send" /\ f.err = TRUE /\ f.rset = NewSet
        /\ f.wset = NewSet /\ f.gas = 0 /\ f.pool = e.pool /\ f.reg = e.reg
    BY <1>7, <2>1 DEF Fields
  <2>. HIDE DEF f
  <2>3. Entries(NewSet.cache) = {} /\ GoodSet(NewSet)
    BY EmptySet
  <2>. QED
    BY <1>1, <1>7, <2>2, <2>3 DEF GoodExec, PC, f
<1>12. CASE Have(t)
  <2>. DEFINE have == cp[from].bal
              g == [e EXCEPT !.pc = "loadGas", !.rset = ReadUpdate(e.rset, from, BalanceKey, have)]
              f == IF have < Want(t) THEN Failed(e) ELSE g
  <2>1. exec' = [exec EXCEPT ![t] = f] /\ e.pc = "have" /\ UNCHANGED block
    BY <1>12 DEF Have, IsAt, from
  <2>2. GoodExec(g, Txs, from)
    <3>1. /\ GoodSet(ReadUpdate(e.rset, from, BalanceKey, have))
          /\ Entries(ReadUpdate(e.rset, from, BalanceKey, have).cache)
                = Entries(e.rset.cache) \cup {<<from, BalanceKey>>}
      BY <1>1, <1>7, ReadLemma
    <3>2. /\ DOMAIN g = Fields /\ g.pc = "loadGas" /\ g.err = e.err /\ g.wset = e.wset
          /\ g.rset = ReadUpdate(e.rset, from, BalanceKey, have)
          /\ g.gas = e.gas /\ g.pool = e.pool /\ g.reg = e.reg
      BY <1>7 DEF Fields
    <3>. HIDE DEF g
    <3>. QED
      BY <1>1, <2>1, <3>1, <3>2 DEF GoodExec, PC, Uncharged
  <2>3. GoodExec(f, Txs, from)
    BY <2>1, <2>2, <1>11 DEF PC
  <2>4. Machine'
    BY <1>3, <1>4, <1>6, <1>12 DEF Have, mainVars
  <2>. HIDE DEF f
  <2>. QED
    BY <1>5, <2>1, <2>3, <2>4
<1>13. CASE LoadGas(t)
  <2>. DEFINE v == pools[e.pool]
              g == [e EXCEPT !.pc = "subGas", !.reg = v]
              f == IF v < TxGas THEN Failed(e) ELSE g
  <2>1. exec' = [exec EXCEPT ![t] = f] /\ e.pc = "loadGas" /\ UNCHANGED block
    BY <1>13 DEF LoadGas, IsAt
  <2>2. GoodExec(g, Txs, from)
    BY <1>1, <1>7, <2>1 DEF GoodExec, Fields, PC, Uncharged
  <2>3. GoodExec(f, Txs, from)
    BY <2>1, <2>2, <1>11 DEF PC
  <2>4. Machine'
    BY <1>3, <1>4, <1>6, <1>13 DEF LoadGas, mainVars
  <2>. HIDE DEF f
  <2>. QED
    BY <1>5, <2>1, <2>3, <2>4
<1>14. CASE SubGas(t)
  <2>. DEFINE w == WriteUpdate(e.wset, from, SubBalanceKey, TxGas * Price, 0)
              f == [e EXCEPT !.pc = "canTransfer", !.wset = w]
  <2>1. exec' = [exec EXCEPT ![t] = f] /\ e.pc = "subGas" /\ UNCHANGED block
    BY <1>14 DEF SubGas, IsAt, from
  <2>2. GoodExec(f, Txs, from)
    <3>1. /\ GoodSet(w) /\ from \in DOMAIN w.cache
          /\ Entries(w.cache) = Entries(e.wset.cache) \cup {<<from, SubBalanceKey>>}
      <4>. DEFINE c == TxGas * Price
                  x == WriteUpdate(e.wset, from, SubBalanceKey, c, 0)
      <4>1. c \in Int /\ 0 \in Int /\ GoodSet(e.wset)
        BY <1>3, <1>7
      <4>2. from \in Account /\ SubBalanceKey \in Keys /\ SubBalanceKey # NonceKey
        BY <1>1, <1>2
      <4>3. w = x
        OBVIOUS
      <4>. HIDE DEF c
      <4>4. /\ GoodSet(x) /\ DOMAIN x.cache = DOMAIN e.wset.cache \cup {from}
            /\ Entries(x.cache) = Entries(e.wset.cache) \cup {<<from, SubBalanceKey>>}
        BY <4>1, <4>2, WriteLemma
      <4>. HIDE DEF x, w
      <4>. QED
        BY <4>3, <4>4
    <3>. HIDE DEF w
    <3>2. /\ DOMAIN f = Fields /\ f.pc = "canTransfer" /\ f.err = e.err /\ f.wset = w
          /\ f.rset = e.rset /\ f.gas = e.gas /\ f.pool = e.pool /\ f.reg = e.reg
      BY <1>7 DEF Fields
    <3>. HIDE DEF f
    <3>. QED
      BY <1>1, <1>2, <2>1, <3>1, <3>2 DEF GoodExec, PC, Uncharged
  <2>3. pools' \in [{0} \cup Txs -> 0 .. Wrap - 1]
    <3>1. PICK v \in {e.reg, pools[e.pool]} : pools' = [pools EXCEPT ![e.pool] = (v - TxGas) % Wrap]
      BY <1>14 DEF SubGas
    <3>2. v - TxGas \in Int
      <4>1. v \in 0 .. Wrap - 1
        BY <1>1, <1>7
      <4>. QED
        BY <1>3, <4>1
    <3>3. (v - TxGas) % Wrap \in 0 .. Wrap - 1
      BY <1>3, <3>2
    <3>. QED
      BY <1>6, <3>1, <3>3
  <2>4. Machine'
    BY <1>3, <1>4, <1>6, <1>14, <2>3 DEF SubGas, mainVars
  <2>. HIDE DEF f
  <2>. QED
    BY <1>5, <2>1, <2>2, <2>4
<1>15. CASE CanTransfer(t)
  <2>. DEFINE have == cp[from]
              r == ReadUpdate(e.rset, from, BalanceKey, have.bal)
              w == WriteUpdate(e.wset, from, NonceKey, have.nonce + 1, 0)
              g == [e EXCEPT !.pc = "send", !.vmErr = TRUE, !.gas = CallStipend]
              h == [e EXCEPT !.pc = "call", !.rset = r, !.wset = w]
              f == IF Value(t) > 0 /\ have.bal < Value(t) THEN g ELSE h
  <2>1. exec' = [exec EXCEPT ![t] = f] /\ e.pc = "canTransfer" /\ UNCHANGED block
    BY <1>15 DEF CanTransfer, IsAt, from
  <2>2. GoodExec(g, Txs, from)
    BY <1>1, <1>3, <1>7, <2>1 DEF GoodExec, Fields, PC, Uncharged
  <2>3. GoodExec(h, Txs, from)
    <3>1. GoodSet(r) /\ Entries(r.cache) = Entries(e.rset.cache) \cup {<<from, BalanceKey>>}
      BY <1>1, <1>7, ReadLemma
    <3>2. /\ GoodSet(w) /\ DOMAIN w.cache = DOMAIN e.wset.cache \cup {from}
          /\ Entries(w.cache) = Entries(e.wset.cache) \cup {<<from, NonceKey>>}
      <4>. DEFINE n == have.nonce + 1
                  x == WriteUpdate(e.wset, from, NonceKey, n, 0)
      <4>1. 0 \in Int /\ n \in Int /\ n \in Nat /\ from \in Account /\ NonceKey \in Keys
            /\ GoodSet(e.wset)
        BY <1>1, <1>2, <1>7
      <4>2. w = x
        OBVIOUS
      <4>. HIDE DEF n
      <4>3. /\ GoodSet(x) /\ DOMAIN x.cache = DOMAIN e.wset.cache \cup {from}
            /\ Entries(x.cache) = Entries(e.wset.cache) \cup {<<from, NonceKey>>}
        BY <4>1, WriteLemma
      <4>. HIDE DEF w, x
      <4>. QED
        BY <4>2, <4>3
    <3>. HIDE DEF r, w
    <3>3. /\ DOMAIN h = Fields /\ h.pc = "call" /\ h.err = e.err /\ h.wset = w /\ h.rset = r
          /\ h.gas = e.gas /\ h.pool = e.pool /\ h.reg = e.reg
      BY <1>7 DEF Fields
    <3>. HIDE DEF h
    <3>. QED
      BY <1>1, <1>2, <1>7, <2>1, <3>1, <3>2, <3>3 DEF GoodExec, PC, Uncharged
  <2>4. GoodExec(f, Txs, from)
    BY <2>2, <2>3
  <2>5. Machine'
    BY <1>3, <1>4, <1>6, <1>15 DEF CanTransfer, mainVars
  <2>. HIDE DEF f
  <2>. QED
    BY <1>5, <2>1, <2>4, <2>5
<1>16. CASE Call(t)
  <2>. DEFINE r == ReadUpdate(e.rset, from, BalanceKey, Value(t))
              g == [e EXCEPT !.pc = "refund", !.vmErr = TRUE]
              pc == IF Value(t) > 0 THEN "credit" ELSE "refund"
              h == [e EXCEPT !.pc = pc, !.rset = r]
              f == IF Value(t) # 0 /\ cp[from].bal < Value(t) THEN g ELSE h
  <2>1. exec' = [exec EXCEPT ![t] = f] /\ e.pc = "call" /\ UNCHANGED block
    BY <1>16 DEF Call, IsAt, from
  <2>2. GoodExec(g, Txs, from)
    BY <1>1, <1>7, <2>1 DEF GoodExec, Fields, PC, Uncharged
  <2>3. GoodExec(h, Txs, from)
    <3>1. GoodSet(r) /\ Entries(r.cache) = Entries(e.rset.cache) \cup {<<from, BalanceKey>>}
      <4>1. Value(t) \in Int /\ from \in Account /\ GoodSet(e.rset)
        BY <1>1, <1>7
      <4>. QED
        BY <4>1, ReadLemma
    <3>2. pc \in {"credit", "refund"}
      OBVIOUS
    <3>. HIDE DEF r, pc
    <3>3. /\ DOMAIN h = Fields /\ h.pc = pc /\ h.err = e.err /\ h.wset = e.wset /\ h.rset = r
          /\ h.gas = e.gas /\ h.pool = e.pool /\ h.reg = e.reg
      BY <1>7 DEF Fields
    <3>. HIDE DEF h
    <3>. QED
      BY <1>1, <1>7, <2>1, <3>1, <3>2, <3>3 DEF GoodExec, PC, Uncharged
  <2>4. GoodExec(f, Txs, from)
    BY <2>2, <2>3
  <2>5. Machine'
    BY <1>3, <1>4, <1>6, <1>16 DEF Call, mainVars
  <2>. HIDE DEF f
  <2>. QED
    BY <1>5, <2>1, <2>4, <2>5
<1>17. CASE Credit(t)
  <2>. DEFINE bal == cp[To(t)].bal
              r == ReadUpdate(e.rset, To(t), BalanceKey, bal)
              w == Transfer(e.wset, t, bal)
              f == [e EXCEPT !.pc = "refund", !.rset = r, !.wset = w]
  <2>1. exec' = [exec EXCEPT ![t] = f] /\ e.pc = "credit" /\ UNCHANGED block
    BY <1>17 DEF Credit, IsAt
  <2>2. GoodExec(f, Txs, from)
    <3>1. GoodSet(r) /\ Entries(r.cache) = Entries(e.rset.cache) \cup {<<To(t), BalanceKey>>}
      BY <1>1, <1>7, ReadLemma
    <3>2. /\ GoodSet(w) /\ DOMAIN e.wset.cache \subseteq DOMAIN w.cache
          /\ Entries(w.cache)
                = Entries(e.wset.cache) \cup {<<from, SubBalanceKey>>, <<To(t), BalanceKey>>}
      BY <1>1, <1>7, TransferLemma DEF from
    <3>. HIDE DEF r, w
    <3>3. /\ DOMAIN f = Fields /\ f.pc = "refund" /\ f.err = e.err /\ f.wset = w /\ f.rset = r
          /\ f.gas = e.gas /\ f.pool = e.pool /\ f.reg = e.reg
      BY <1>7 DEF Fields
    <3>. HIDE DEF f
    <3>. QED
      BY <1>1, <1>2, <1>7, <2>1, <3>1, <3>2, <3>3 DEF GoodExec, PC, Uncharged
  <2>3. Machine'
    BY <1>3, <1>4, <1>6, <1>17 DEF Credit, mainVars
  <2>. HIDE DEF f
  <2>. QED
    BY <1>5, <2>1, <2>2, <2>3
<1>18. ASSUME NEW w, Credited(w, e.wset), NEW pc \in PC \ Uncharged,
              e.pc \in PC \ (Uncharged \cup {"send", "done"})
       PROVE  GoodExec([e EXCEPT !.pc = pc, !.wset = w], Txs, from)
  <2>. DEFINE f == [e EXCEPT !.pc = pc, !.wset = w]
  <2>1. /\ DOMAIN f = Fields /\ f.pc = pc /\ f.err = e.err /\ f.wset = w /\ f.rset = e.rset
        /\ f.gas = e.gas /\ f.pool = e.pool /\ f.reg = e.reg
    BY <1>7 DEF Fields
  <2>2. /\ GoodSet(w) /\ DOMAIN e.wset.cache \subseteq DOMAIN w.cache
        /\ Entries(w.cache) \subseteq Entries(e.wset.cache) \cup (Account \X {BalanceKey})
    BY <1>18 DEF Credited
  <2>3. \A a \in Account : <<a, NonceKey>> \in Entries(w.cache)
                              => <<a, NonceKey>> \in Entries(e.wset.cache)
    BY <1>2, <2>2
  <2>. HIDE DEF f
  <2>. QED
    BY <1>1, <1>7, <1>18, <2>1, <2>2, <2>3 DEF GoodExec, f
<1>19. CASE Refund(t)
  <2>. DEFINE w == Refunded(e.wset, t, cp[from].bal)
              f == [e EXCEPT !.pc = "loadPool", !.wset = w]
  <2>1. exec' = [exec EXCEPT ![t] = f] /\ e.pc = "refund" /\ UNCHANGED block
    BY <1>19 DEF Refund, IsAt, from
  <2>2. Credited(w, e.wset)
    BY <1>1, <1>7, RefundedLemma
  <2>. HIDE DEF w
  <2>3. GoodExec(f, Txs, from)
    BY <1>18, <2>1, <2>2 DEF PC, Uncharged
  <2>4. Machine'
    BY <1>3, <1>4, <1>6, <1>19 DEF Refund, mainVars
  <2>. HIDE DEF f
  <2>. QED
    BY <1>5, <2>1, <2>3, <2>4
<1>20. CASE LoadPool(t)
  <2>. DEFINE f == [e EXCEPT !.pc = "addGas", !.reg = pools[e.pool]]
  <2>1. exec' = [exec EXCEPT ![t] = f] /\ e.pc = "loadPool" /\ UNCHANGED block
    BY <1>20 DEF LoadPool, IsAt
  <2>2. GoodExec(f, Txs, from)
    BY <1>1, <1>7, <2>1 DEF GoodExec, Fields, PC, Uncharged
  <2>3. phase' \in Phase
    BY <1>6, <1>20 DEF LoadPool, Phase
  <2>4. Machine'
    BY <1>3, <1>4, <1>6, <1>20, <2>3 DEF LoadPool, mainVars
  <2>. HIDE DEF f
  <2>. QED
    BY <1>5, <2>1, <2>2, <2>4
<1>21. CASE AddGas(t)
  <2>. DEFINE pc == IF Tip = 0 THEN "send" ELSE "tip"
              f == [e EXCEPT !.pc = pc]
  <2>1. exec' = [exec EXCEPT ![t] = f] /\ e.pc = "addGas" /\ UNCHANGED block
    BY <1>21 DEF AddGas, IsAt, Goto
  <2>2. GoodExec(f, Txs, from)
    <3>1. pc \in {"send", "tip"}
      OBVIOUS
    <3>. HIDE DEF pc
    <3>. QED
      BY <1>1, <1>7, <2>1, <3>1 DEF GoodExec, Fields, PC, Uncharged
  <2>3. pools' \in [{0} \cup Txs -> 0 .. Wrap - 1]
    <3>1. PICK v \in {e.reg, pools[e.pool]} : pools' = [pools EXCEPT ![e.pool] = (v + Left) % Wrap]
      BY <1>21 DEF AddGas
    <3>2. v + Left \in Int
      <4>1. v \in 0 .. Wrap - 1
        BY <1>1, <1>7
      <4>. QED
        BY <1>3, <4>1
    <3>3. (v + Left) % Wrap \in 0 .. Wrap - 1
      BY <1>3, <3>2
    <3>. QED
      BY <1>6, <3>1, <3>3
  <2>4. Machine'
    BY <1>3, <1>4, <1>6, <1>21, <2>3 DEF AddGas, mainVars
  <2>. HIDE DEF f
  <2>. QED
    BY <1>5, <2>1, <2>2, <2>4
<1>22. CASE PayTip(t)
  <2>. DEFINE w == Tipped(e.wset, cp[Coinbase].bal)
              f == [e EXCEPT !.pc = "send", !.wset = w]
  <2>1. exec' = [exec EXCEPT ![t] = f] /\ e.pc = "tip" /\ UNCHANGED block
    BY <1>22 DEF PayTip, IsAt
  <2>2. Credited(w, e.wset)
    BY <1>1, <1>7, TippedLemma, Constants
  <2>. HIDE DEF w
  <2>3. GoodExec(f, Txs, from)
    BY <1>18, <2>1, <2>2 DEF PC, Uncharged
  <2>4. Machine'
    BY <1>3, <1>4, <1>6, <1>22 DEF PayTip, mainVars
  <2>. HIDE DEF f
  <2>. QED
    BY <1>5, <2>1, <2>3, <2>4
<1>23. CASE Send(t)
  <2>. DEFINE f == [e EXCEPT !.pc = "done"]
  <2>1. exec' = [exec EXCEPT ![t] = f] /\ e.pc = "send" /\ UNCHANGED block
    BY <1>23 DEF Send, IsAt, Goto
  <2>2. GoodExec(f, Txs, from)
    BY <1>1, <1>7, <2>1 DEF GoodExec, Fields, PC, Uncharged
  <2>3. usedGas' \in 0 .. Wrap - 1
    <3>1. usedGas + e.gas \in Int /\ usedGas' = (usedGas + e.gas) % Wrap
      BY <1>6, <1>7, <1>23 DEF Send
    <3>. QED
      BY <1>3, <3>1
  <2>4. Machine'
    BY <1>3, <1>4, <1>6, <1>23, <2>3 DEF Send, mainVars
  <2>. HIDE DEF f
  <2>. QED
    BY <1>5, <2>1, <2>2, <2>4
<1>. QED
  BY <1>8, <1>9, <1>10, <1>12, <1>13, <1>14, <1>15, <1>16, <1>17, <1>19, <1>20, <1>21, <1>22,
     <1>23 DEF Goroutine

-----------------------------------------------------------------------------
(* The plan FillingTransCut makes.                                         *)

\* A set of numbers up to n has a greatest.
LEMMA MaxLemma ==
    ASSUME NEW n \in Nat, NEW S \in SUBSET (0 .. n), S # {}
    PROVE  Max(S) \in S /\ \A y \in S : y <= Max(S)
<1>. DEFINE R == {ss \in Nat \X Nat : ss[1] < ss[2]}
            T == {n - y : y \in S}
<1>1. IsWellFoundedOn(R, Nat)
  BY NatLessThanWellFounded DEF OpToRel
<1>2. T \in SUBSET Nat /\ T # {}
  <2>1. \A y \in S : n - y \in Nat
    OBVIOUS
  <2>. QED
    BY <2>1
<1>. HIDE DEF R
<1>3. PICK z \in T : \A y \in T : ~(<<y, z>> \in R)
  <2>. HIDE DEF T
  <2>. QED
    BY <1>1, <1>2, WFMin
<1>4. PICK x \in S : z = n - x
  BY <1>3
<1>5. \A y \in S : x >= y
  <2>. SUFFICES ASSUME NEW y \in S PROVE x >= y
    OBVIOUS
  <2>1. n - y \in T /\ n - y \in Nat /\ n - x \in Nat
    OBVIOUS
  <2>2. ~(n - y < n - x)
    BY <1>3, <1>4, <2>1 DEF R
  <2>. QED
    BY <2>2
<1>6. Max(S) \in S /\ \A y \in S : Max(S) >= y
  BY <1>4, <1>5, Zenon DEF Max
<1>. QED
  BY <1>6

\* FoldLeft takes the greatest position last.
Latest(S) == Max(S)

\* The latest of some positions is one of them, and none is greater.
LEMMA LatestLemma ==
    ASSUME NEW n \in Nat
    PROVE  \A s \in SUBSET (1 .. n) : s # {} => Latest(s) \in s /\ \A x \in s : x <= Latest(s)
<1>. SUFFICES ASSUME NEW s \in SUBSET (1 .. n), s # {}
              PROVE  Latest(s) \in s /\ \A x \in s : x <= Latest(s)
  OBVIOUS
<1>1. s \in SUBSET (0 .. n)
  OBVIOUS
<1>. QED
  BY <1>1, MaxLemma DEF Latest
-----------------------------------------------------------------------------
(* The plan.                                                                 *)

\* What is true of the plan when the first n transactions have been placed: no
\* level is above the number of transactions, and every transaction is in one of
\* them and in no other; the levels hold the transactions in block order.
AllPlaced(n, c) ==
    \A t \in 1 .. n : \E k \in 1 .. c.maxLevel + 1 : \E i \in DOMAIN c.items[k] : c.items[k][i] = t
Rising(c) ==
    \A k \in DOMAIN c.items : \A i \in DOMAIN c.items[k] :
        /\ k <= c.maxLevel + 1
        /\ \A l \in DOMAIN c.items : \A j \in DOMAIN c.items[l] : k < l => c.items[k][i] < c.items[l][j]
PlanUpTo(n, c) ==
    /\ DOMAIN c.marks = Account
    /\ c.items \in Seq(Seq(Nat)) /\ c.maxLevel \in Nat /\ c.maxLevel + 1 <= Len(c.items)
    /\ c.maxLevel <= Larger(n - 1, 0)
    /\ \A a \in Account : c.marks[a] # NoMark => c.marks[a] \in 0 .. c.maxLevel /\ n > 0
    /\ \A k \in DOMAIN c.items : \A i \in DOMAIN c.items[k] : c.items[k][i] \in 1 .. n
    /\ \A k, l \in DOMAIN c.items : \A i \in DOMAIN c.items[k], j \in DOMAIN c.items[l] :
           c.items[k][i] = c.items[l][j] => k = l
    /\ AllPlaced(n, c)
    /\ Rising(c)

\* The new item is the only difference Placed makes.
LEMMA PlacedLemma ==
    ASSUME NEW its \in Seq(Seq(Nat)), NEW m \in Nat, NEW x \in Nat
    PROVE  LET p == Placed(its, m, x)
           IN  /\ p \in Seq(Seq(Nat)) /\ m + 1 <= Len(p)
               /\ \A k \in DOMAIN p : \A i \in DOMAIN p[k] :
                     \/ k \in DOMAIN its /\ i \in DOMAIN its[k] /\ p[k][i] = its[k][i]
                     \/ k = m + 1 /\ p[k][i] = x
               /\ \A k \in DOMAIN its : \A i \in DOMAIN its[k] : i \in DOMAIN p[k] /\ p[k][i] = its[k][i]
               /\ \E i \in DOMAIN p[m + 1] : p[m + 1][i] = x
<1>. DEFINE L == Larger(Len(its), m + 1)
            g == Grown(its, m)
            p == Placed(its, m, x)
<1>1. Len(its) \in Nat /\ DOMAIN its = 1 .. Len(its) /\ L \in Nat /\ L >= Len(its) /\ L >= m + 1
  BY DEF Larger
<1>2. g = [l \in 1 .. L |-> IF l <= Len(its) THEN its[l] ELSE <<>>]
  BY DEF Grown
<1>3. \A l \in 1 .. L : (IF l <= Len(its) THEN its[l] ELSE <<>>) \in Seq(Nat)
  BY <1>1
<1>4. p = [g EXCEPT ![m + 1] = Append(g[m + 1], x)]
  BY DEF Placed
<1>. HIDE DEF L, g, p
<1>5. g \in [1 .. L -> Seq(Nat)]
  BY <1>2, <1>3
<1>6. m + 1 \in 1 .. L
  BY <1>1
<1>7. p \in [1 .. L -> Seq(Nat)] /\ p[m + 1] = Append(g[m + 1], x)
      /\ \A k \in 1 .. L : k # m + 1 => p[k] = g[k]
  BY <1>4, <1>5, <1>6
<1>8. p \in Seq(Seq(Nat)) /\ Len(p) = L /\ DOMAIN p = 1 .. L
  BY <1>1, <1>7
<1>9. ASSUME NEW k \in 1 .. L, NEW i \in DOMAIN g[k]
      PROVE  k \in DOMAIN its /\ i \in DOMAIN its[k] /\ g[k][i] = its[k][i]
  BY <1>1, <1>2
<1>10. ASSUME NEW k \in DOMAIN p, NEW i \in DOMAIN p[k]
       PROVE  \/ k \in DOMAIN its /\ i \in DOMAIN its[k] /\ p[k][i] = its[k][i]
              \/ k = m + 1 /\ p[k][i] = x
  <2>1. CASE k # m + 1
    BY <1>7, <1>8, <1>9, <2>1
  <2>2. CASE k = m + 1
    <3>1. g[k] \in Seq(Nat) /\ p[k] = Append(g[k], x)
      BY <1>5, <1>6, <1>7, <2>2
    <3>2. DOMAIN g[k] = 1 .. Len(g[k]) /\ DOMAIN p[k] = 1 .. Len(g[k]) + 1 /\ Len(g[k]) \in Nat
          /\ p[k][Len(g[k]) + 1] = x /\ \A j \in 1 .. Len(g[k]) : p[k][j] = g[k][j]
      BY <3>1
    <3>3. i \in DOMAIN g[k] \/ i = Len(g[k]) + 1
      BY <3>2
    <3>. QED
      BY <1>6, <1>9, <2>2, <3>2, <3>3
  <2>. QED
    BY <2>1, <2>2
<1>11. ASSUME NEW k \in DOMAIN its, NEW i \in DOMAIN its[k]
       PROVE  i \in DOMAIN p[k] /\ p[k][i] = its[k][i]
  <2>1. k \in 1 .. L /\ g[k] = its[k]
    BY <1>1, <1>2
  <2>2. CASE k # m + 1
    BY <1>7, <2>1, <2>2
  <2>3. CASE k = m + 1
    <3>1. g[k] \in Seq(Nat) /\ p[k] = Append(g[k], x)
      BY <1>5, <1>6, <1>7, <2>3
    <3>2. DOMAIN g[k] = 1 .. Len(g[k]) /\ DOMAIN p[k] = 1 .. Len(g[k]) + 1 /\ Len(g[k]) \in Nat
          /\ \A j \in 1 .. Len(g[k]) : p[k][j] = g[k][j]
      BY <3>1
    <3>. QED
      BY <2>1, <3>2
  <2>. QED
    BY <2>2, <2>3
<1>12. \E i \in DOMAIN p[m + 1] : p[m + 1][i] = x
  <2>1. g[m + 1] \in Seq(Nat) /\ p[m + 1] = Append(g[m + 1], x)
    BY <1>5, <1>6, <1>7
  <2>2. Len(g[m + 1]) + 1 \in DOMAIN p[m + 1] /\ p[m + 1][Len(g[m + 1]) + 1] = x
    BY <2>1
  <2>. QED
    BY <2>2
<1>. QED
  BY <1>1, <1>8, <1>10, <1>11, <1>12 DEF p

\* One more transaction is placed.
LEMMA MarkedLemma ==
    ASSUME block \in Blocks, NEW n \in Txs, NEW c, PlanUpTo(n - 1, c)
    PROVE  PlanUpTo(n, Marked(c, n))
<1>. DEFINE from == From(n)
            to == To(n)
            mark == JointMark(c.marks, from, to)
            max == Larger(mark, c.maxLevel)
            d == Marked(c, n)
<1>1. n \in Nat /\ n >= 1 /\ from \in Account /\ to \in Account
  BY BlockTypes
<1>2. /\ DOMAIN c.marks = Account /\ c.items \in Seq(Seq(Nat)) /\ c.maxLevel \in Nat
      /\ c.maxLevel <= Larger(n - 2, 0)
      /\ \A a \in Account : c.marks[a] # NoMark => c.marks[a] \in 0 .. c.maxLevel /\ n > 1
  BY <1>1 DEF PlanUpTo
<1>3. /\ d.marks = MarkedBoth(c.marks, from, to, mark) /\ d.items = Placed(c.items, max, n)
      /\ d.maxLevel = max
  BY DEF Marked
<1>. HIDE DEF from, to, d
<1>4. ASSUME NEW a \in Account
      PROVE  /\ NextMark(c.marks, a) \in 0 .. c.maxLevel + 1
             /\ n = 1 => NextMark(c.marks, a) = 0
  BY <1>2 DEF NextMark
<1>5. mark \in 0 .. c.maxLevel + 1 /\ (n = 1 => mark = 0)
  BY <1>1, <1>2, <1>4 DEF JointMark, Larger
<1>. HIDE DEF mark
<1>6. max \in Nat /\ mark <= max /\ c.maxLevel <= max /\ max <= n - 1
  BY <1>1, <1>2, <1>5 DEF Larger
<1>. HIDE DEF max
<1>7. /\ DOMAIN d.marks = Account
      /\ \A a \in Account : d.marks[a] \in {c.marks[a], mark, 0}
  BY <1>1, <1>2, <1>3 DEF MarkedBoth, MarkedFrom
<1>8. /\ d.items \in Seq(Seq(Nat)) /\ max + 1 <= Len(d.items)
      /\ \A k \in DOMAIN d.items : \A i \in DOMAIN d.items[k] :
            \/ k \in DOMAIN c.items /\ i \in DOMAIN c.items[k] /\ d.items[k][i] = c.items[k][i]
            \/ k = max + 1 /\ d.items[k][i] = n
      /\ \A k \in DOMAIN c.items : \A i \in DOMAIN c.items[k] :
            i \in DOMAIN d.items[k] /\ d.items[k][i] = c.items[k][i]
      /\ \E i \in DOMAIN d.items[max + 1] : d.items[max + 1][i] = n
  <2>. DEFINE its == c.items
              p == Placed(its, max, n)
  <2>1. its \in Seq(Seq(Nat)) /\ max \in Nat /\ n \in Nat /\ d.items = p
    BY <1>1, <1>2, <1>3, <1>6
  <2>2. /\ p \in Seq(Seq(Nat)) /\ max + 1 <= Len(p)
        /\ \A k \in DOMAIN p : \A i \in DOMAIN p[k] :
              \/ k \in DOMAIN its /\ i \in DOMAIN its[k] /\ p[k][i] = its[k][i]
              \/ k = max + 1 /\ p[k][i] = n
        /\ \A k \in DOMAIN its : \A i \in DOMAIN its[k] : i \in DOMAIN p[k] /\ p[k][i] = its[k][i]
        /\ \E i \in DOMAIN p[max + 1] : p[max + 1][i] = n
    <3>. HIDE DEF its
    <3>. QED
      BY <2>1, PlacedLemma
  <2>. HIDE DEF p
  <2>. QED
    BY <2>1, <2>2
<1>9. \A a \in Account : d.marks[a] # NoMark => d.marks[a] \in 0 .. max /\ n > 0
  BY <1>1, <1>2, <1>5, <1>6, <1>7
<1>10. \A k \in DOMAIN c.items : \A i \in DOMAIN c.items[k] :
          c.items[k][i] \in 1 .. n - 1 /\ c.items[k][i] # n /\ c.items[k][i] \in 1 .. n
  <2>1. \A k \in DOMAIN c.items : \A i \in DOMAIN c.items[k] : c.items[k][i] \in 1 .. n - 1
    BY Zenon DEF PlanUpTo
  <2>2. \A x \in 1 .. n - 1 : x # n /\ x \in 1 .. n
    BY <1>1
  <2>. QED
    BY <2>1, <2>2, Zenon
<1>11. \A k \in DOMAIN d.items : \A i \in DOMAIN d.items[k] : d.items[k][i] \in 1 .. n
  <2>1. n \in 1 .. n
    BY <1>1
  <2>. QED
    BY <1>8, <1>10, <2>1, Zenon
<1>12. ASSUME NEW k \in DOMAIN d.items, NEW l \in DOMAIN d.items,
              NEW i \in DOMAIN d.items[k], NEW j \in DOMAIN d.items[l],
              d.items[k][i] = d.items[l][j]
       PROVE  k = l
  <2>1. \/ k \in DOMAIN c.items /\ i \in DOMAIN c.items[k] /\ d.items[k][i] = c.items[k][i]
        \/ k = max + 1 /\ d.items[k][i] = n
    BY <1>8
  <2>2. \/ l \in DOMAIN c.items /\ j \in DOMAIN c.items[l] /\ d.items[l][j] = c.items[l][j]
        \/ l = max + 1 /\ d.items[l][j] = n
    BY <1>8
  <2>. QED
    BY <1>10, <1>12, <2>1, <2>2 DEF PlanUpTo
<1>13. max <= Larger(n - 1, 0)
  BY <1>1, <1>6 DEF Larger
<1>14. ASSUME NEW t \in 1 .. n
       PROVE  \E k \in 1 .. max + 1 : \E i \in DOMAIN d.items[k] : d.items[k][i] = t
  <2>1. CASE t = n
    <3>1. max + 1 \in 1 .. max + 1
      BY <1>6
    <3>. QED
      BY <1>8, <2>1, <3>1
  <2>2. CASE t # n
    <3>1. t \in 1 .. n - 1
      BY <1>1, <2>2
    <3>2. PICK k \in 1 .. c.maxLevel + 1 : \E i \in DOMAIN c.items[k] : c.items[k][i] = t
      BY <3>1 DEF PlanUpTo, AllPlaced
    <3>3. c.maxLevel + 1 <= Len(c.items) /\ Len(c.items) \in Nat /\ DOMAIN c.items = 1 .. Len(c.items)
      BY <1>2 DEF PlanUpTo
    <3>4. k \in DOMAIN c.items /\ k \in 1 .. max + 1
      BY <1>2, <1>6, <3>3
    <3>. QED
      BY <1>8, <3>2, <3>4
  <2>. QED
    BY <2>1, <2>2
<1>15. ASSUME NEW k \in DOMAIN d.items, NEW i \in DOMAIN d.items[k]
       PROVE  k <= max + 1
  <2>1. k \in DOMAIN c.items /\ i \in DOMAIN c.items[k] => k <= c.maxLevel + 1 /\ k \in Nat
    BY <1>2 DEF PlanUpTo, Rising
  <2>2. (k \in DOMAIN c.items /\ i \in DOMAIN c.items[k]) \/ k = max + 1
    BY <1>8
  <2>. QED
    BY <1>2, <1>6, <2>1, <2>2
<1>16. ASSUME NEW k \in DOMAIN d.items, NEW i \in DOMAIN d.items[k],
              NEW l \in DOMAIN d.items, NEW j \in DOMAIN d.items[l], k < l
       PROVE  d.items[k][i] < d.items[l][j]
  <2>1. k \in Nat /\ l \in Nat /\ l <= max + 1
    <3>1. l <= max + 1
      BY <1>15
    <3>2. DOMAIN d.items \subseteq Nat
      <4>. DEFINE its == d.items
      <4>1. its \in Seq(Seq(Nat))
        BY <1>8
      <4>. HIDE DEF its
      <4>2. DOMAIN its \subseteq Nat
        BY <4>1
      <4>. QED
        BY <4>2 DEF its
    <3>. QED
      BY <3>1, <3>2
  <2>2. k \in DOMAIN c.items /\ i \in DOMAIN c.items[k] /\ d.items[k][i] = c.items[k][i]
    <3>1. k # max + 1
      BY <1>6, <1>16, <2>1
    <3>. QED
      BY <1>8, <3>1, Zenon
  <2>3. CASE l \in DOMAIN c.items /\ j \in DOMAIN c.items[l] /\ d.items[l][j] = c.items[l][j]
    <3>1. c.items[k][i] < c.items[l][j]
      BY <1>16, <2>2, <2>3 DEF PlanUpTo, Rising
    <3>. QED
      BY <2>2, <2>3, <3>1
  <2>4. CASE d.items[l][j] = n
    <3>1. c.items[k][i] \in 1 .. n - 1
      BY <1>10, <2>2
    <3>. QED
      BY <1>1, <2>2, <2>4, <3>1
  <2>. QED
    BY <1>8, <2>3, <2>4
<1>. QED
  <2>1. AllPlaced(n, d)
    BY <1>3, <1>14 DEF AllPlaced
  <2>2. Rising(d)
    BY <1>3, <1>15, <1>16 DEF Rising
  <2>. QED
    BY <1>3, <1>6, <1>7, <1>8, <1>9, <1>11, <1>12, <1>13, <2>1, <2>2 DEF PlanUpTo, d

Placing(t, c) == Marked(c, t)
ItemOf(s, i) == s[i]      \* the mapping of FoldTheorems for the items of a sequence
PlanFold == INSTANCE FoldTheorems WITH
    op <- Placing, base <- plan, f <- ItemOf, choose <- Latest, Good <- PlanUpTo

\* FillingTransCut places every transaction of the block (process.go:150-155).
LEMMA FillLemma ==
    ASSUME block \in Blocks, PlanUpTo(0, plan), Fill
    PROVE  PlanUpTo(Len(block), plan')
<1>1. Len(block) \in Nat /\ Txs = 1 .. Len(block)
  BY BlockTypes
<1>2. \A t \in 1 .. Len(block) : \A c : PlanUpTo(t - 1, c) => PlanUpTo(t, Placing(ItemOf([i \in Txs |-> i], t), c))
  BY <1>1, MarkedLemma DEF Placing, ItemOf
<1>3. PlanUpTo(Len(block), PlanFold!Fold([i \in Txs |-> i], 1 .. Len(block)))
  BY <1>1, <1>2, LatestLemma, PlanFold!FoldInduction, Zenon
<1>4. plan' = PlanFold!Fold([i \in Txs |-> i], 1 .. Len(block))
  <2>1. DOMAIN [t \in Txs |-> t] = 1 .. Len(block)
    BY <1>1
  <2>2. plan' = FoldLeft(Marked, plan, [t \in Txs |-> t])
    BY DEF Fill
  <2>. QED
    BY <2>1, <2>2 DEF FoldLeft, PlanFold!Fold, MapThenFoldSet, PlanFold!MapThenFoldSet, Placing, ItemOf, Latest
<1>. QED
  BY <1>3, <1>4

Elements(s) == {s[i] : i \in DOMAIN s}
Distinct(s) == \A i, j \in DOMAIN s : s[i] = s[j] => i = j
OneRecordEach(records) == \A i, j \in DOMAIN records : records[i].hash = records[j].hash => i = j
Hashes(records) == {records[i].hash : i \in DOMAIN records}

\* Where x is in new, and what s holds around it.
HasInserted(new, s, x) ==
    \E p \in 1 .. Len(s) + 1 : \A i \in 1 .. Len(s) + 1 :
        new[i] = IF i < p THEN s[i] ELSE IF i = p THEN x ELSE s[i - 1]

\* Insert adds its record and loses none.
LEMMA InsertLemma ==
    ASSUME NEW R, NEW s \in Seq(R), NEW x \in R
    PROVE  /\ Insert(s, x) \in Seq(R) /\ Len(Insert(s, x)) = Len(s) + 1
           /\ Elements(Insert(s, x)) = Elements(s) \cup {x}
           /\ HasInserted(Insert(s, x), s, x)
<1>. DEFINE stops == {0} \cup {i \in DOMAIN s : ~Less(x, s[i])}
            p == Max(stops) + 1
            new == Insert(s, x)
<1>1. Len(s) \in Nat /\ DOMAIN s = 1 .. Len(s)
  OBVIOUS
<1>2. p \in 1 .. Len(s) + 1
  <2>1. stops \in SUBSET (0 .. Len(s)) /\ stops # {}
    BY <1>1
  <2>. HIDE DEF stops
  <2>2. Max(stops) \in 0 .. Len(s)
    BY <1>1, <2>1, MaxLemma
  <2>. QED
    BY <1>1, <2>2
<1>3. new = SubSeq(s, 1, p - 1) \o <<x>> \o SubSeq(s, p, Len(s))
  BY Zenon DEF Insert, InsertAt
<1>. HIDE DEF p, new
<1>. DEFINE left == SubSeq(s, 1, p - 1)
            right == SubSeq(s, p, Len(s))
<1>4. left \in Seq(R) /\ Len(left) = p - 1 /\ \A i \in 1 .. p - 1 : left[i] = s[i]
  BY <1>1, <1>2, SubSeqProperties
<1>5. /\ right \in Seq(R) /\ Len(right) = (Len(s) - p) + 1
      /\ \A i \in 1 .. Len(right) : right[i] = s[(p + i) - 1]
  BY <1>1, <1>2, SubSeqProperties
<1>6. <<x>> \in Seq(R) /\ Len(<<x>>) = 1 /\ <<x>>[1] = x
  OBVIOUS
<1>7. new = (left \o <<x>>) \o right
  BY <1>3
<1>. HIDE DEF left, right
<1>. DEFINE both == left \o <<x>>
<1>8. /\ both \in Seq(R) /\ Len(both) = p
      /\ \A i \in 1 .. p : both[i] = IF i < p THEN s[i] ELSE x
  BY <1>1, <1>2, <1>4, <1>6, ConcatProperties
<1>. HIDE DEF both
<1>9. /\ new \in Seq(R) /\ Len(new) = Len(s) + 1
      /\ \A i \in 1 .. Len(s) + 1 : new[i] = IF i <= p THEN both[i] ELSE right[i - p]
  <2>1. new = both \o right
    BY <1>7 DEF both
  <2>2. /\ new \in Seq(R) /\ Len(new) = Len(both) + Len(right)
        /\ \A i \in 1 .. Len(both) + Len(right) :
              new[i] = IF i <= Len(both) THEN both[i] ELSE right[i - Len(both)]
    BY <1>5, <1>8, <2>1, ConcatProperties
  <2>3. Len(both) + Len(right) = Len(s) + 1
    BY <1>1, <1>2, <1>5, <1>8
  <2>. QED
    BY <1>8, <2>2, <2>3
<1>10. DOMAIN new = 1 .. Len(s) + 1
  BY <1>1, <1>9
<1>11. ASSUME NEW i \in 1 .. Len(s) + 1
       PROVE  new[i] = x \/ \E j \in 1 .. Len(s) : new[i] = s[j]
  <2>1. CASE i <= p
    <3>1. i \in 1 .. p /\ (i < p => i \in 1 .. Len(s))
      BY <1>1, <1>2, <2>1
    <3>. QED
      BY <1>8, <1>9, <2>1, <3>1
  <2>2. CASE i > p
    <3>1. i - p \in 1 .. Len(right) /\ (p + (i - p)) - 1 \in 1 .. Len(s)
      BY <1>1, <1>2, <1>5, <2>2
    <3>2. new[i] = right[i - p]
      BY <1>2, <1>9, <2>2
    <3>3. right[i - p] = s[(p + (i - p)) - 1]
      BY <1>5, <3>1
    <3>. QED
      BY <3>1, <3>2, <3>3
  <2>. QED
    BY <1>2, <2>1, <2>2
<1>12. \E i \in 1 .. Len(s) + 1 : new[i] = x
  <2>1. p \in 1 .. p /\ p <= p /\ both[p] = x
    BY <1>2, <1>8
  <2>2. new[p] = x
    BY <1>2, <1>9, <2>1
  <2>. QED
    BY <1>2, <2>2
<1>13. ASSUME NEW j \in 1 .. Len(s)
       PROVE  \E i \in 1 .. Len(s) + 1 : new[i] = s[j]
  <2>1. CASE j < p
    <3>1. j \in 1 .. p /\ j \in 1 .. Len(s) + 1
      BY <1>1, <1>2, <2>1
    <3>. QED
      BY <1>8, <1>9, <2>1, <3>1
  <2>2. CASE j >= p
    <3>1. j + 1 \in 1 .. Len(s) + 1 /\ ~(j + 1 <= p) /\ (j + 1) - p \in 1 .. Len(right)
          /\ (p + ((j + 1) - p)) - 1 = j
      BY <1>1, <1>2, <1>5, <2>2
    <3>2. new[j + 1] = right[(j + 1) - p]
      BY <1>9, <3>1
    <3>3. right[(j + 1) - p] = s[(p + ((j + 1) - p)) - 1]
      BY <1>5, <3>1
    <3>. QED
      BY <3>1, <3>2, <3>3
  <2>. QED
    BY <1>2, <2>1, <2>2
<1>14. Elements(new) = Elements(s) \cup {x}
  <2>1. Elements(new) = {new[i] : i \in 1 .. Len(s) + 1} /\ Elements(s) = {s[j] : j \in 1 .. Len(s)}
    BY <1>1, <1>10 DEF Elements
  <2>. QED
    BY <1>11, <1>12, <1>13, <2>1, Zenon
<1>15. ASSUME NEW i \in 1 .. Len(s) + 1
       PROVE  new[i] = IF i < p THEN s[i] ELSE IF i = p THEN x ELSE s[i - 1]
  <2>1. CASE i <= p
    BY <1>1, <1>2, <1>8, <1>9, <2>1
  <2>2. CASE ~(i <= p)
    <3>1. i - p \in 1 .. Len(right) /\ (p + (i - p)) - 1 = i - 1 /\ ~(i < p) /\ i # p
      BY <1>1, <1>2, <1>5, <2>2
    <3>2. new[i] = right[i - p] /\ right[i - p] = s[(p + (i - p)) - 1]
      BY <1>5, <1>9, <2>2, <3>1
    <3>. QED
      BY <3>1, <3>2
  <2>. QED
    BY <2>1, <2>2
<1>16. HasInserted(new, s, x)
  BY <1>2, <1>15 DEF HasInserted
<1>. QED
  BY <1>9, <1>14, <1>16 DEF new

\* Appending adds its element.
LEMMA AppendLemma ==
    ASSUME NEW R, NEW s \in Seq(R), NEW x \in R
    PROVE  /\ Append(s, x) \in Seq(R) /\ Len(Append(s, x)) = Len(s) + 1
           /\ \A i \in 1 .. Len(s) : Append(s, x)[i] = s[i]
           /\ Append(s, x)[Len(s) + 1] = x
           /\ Elements(Append(s, x)) = Elements(s) \cup {x}
<1>. DEFINE a == Append(s, x)
<1>1. /\ a \in Seq(R) /\ Len(a) = Len(s) + 1 /\ Len(s) \in Nat
      /\ DOMAIN s = 1 .. Len(s) /\ DOMAIN a = 1 .. Len(s) + 1
      /\ \A i \in 1 .. Len(s) : a[i] = s[i]
      /\ a[Len(s) + 1] = x
  OBVIOUS
<1>. HIDE DEF a
<1>2. \A i \in 1 .. Len(s) + 1 : i \in 1 .. Len(s) \/ i = Len(s) + 1
  BY <1>1
<1>3. \A i \in 1 .. Len(s) : i \in 1 .. Len(s) + 1
  BY <1>1
<1>4. Len(s) + 1 \in 1 .. Len(s) + 1
  BY <1>1
<1>5. Elements(a) = Elements(s) \cup {x}
  BY <1>1, <1>2, <1>3, <1>4 DEF Elements
<1>. QED
  BY <1>1, <1>5 DEF a
-----------------------------------------------------------------------------
(* The records of a level.                                                   *)

RecordsOf == {RecordOf(t) : t \in Txs}
Records == FoldLeft(LAMBDA acc, t : Cached(acc, RecordOf(t)), <<>>, arrived)

\* The records when the results of the first n answers have been received.
CollectedUpTo(n, acc) ==
    /\ acc \in Seq(RecordsOf) /\ Hashes(acc) = {arrived[i] : i \in 1 .. n}
    /\ OneRecordEach(acc)

Collecting(t, acc) == Cached(acc, RecordOf(t))
CollectFold == INSTANCE FoldTheorems WITH
    op <- Collecting, base <- <<>>, f <- ItemOf, choose <- Latest, Good <- CollectedUpTo

\* The records ResultsFunc collects are those of the answers that have arrived.
LEMMA CollectLemma ==
    ASSUME arrived \in Seq(Txs)
    PROVE  /\ Records \in Seq(RecordsOf) /\ Hashes(Records) = Elements(arrived)
           /\ OneRecordEach(Records)
<1>1. Len(arrived) \in Nat /\ DOMAIN arrived = 1 .. Len(arrived)
      /\ \A i \in 1 .. Len(arrived) : arrived[i] \in Txs
  OBVIOUS
<1>2. CollectedUpTo(0, <<>>)
  BY DEF CollectedUpTo, Hashes, OneRecordEach
<1>3. ASSUME NEW n \in 1 .. Len(arrived), NEW acc, CollectedUpTo(n - 1, acc)
      PROVE  CollectedUpTo(n, Collecting(ItemOf(arrived, n), acc))
  <2>. DEFINE t == arrived[n]
              x == RecordOf(t)
  <2>1. t \in Txs /\ x \in RecordsOf /\ x.hash = t
    BY <1>1 DEF RecordsOf, RecordOf
  <2>2. {arrived[i] : i \in 1 .. n} = {arrived[i] : i \in 1 .. n - 1} \cup {t}
    <3>1. 1 .. n = (1 .. n - 1) \cup {n}
      BY <1>1
    <3>. QED
      BY <3>1
  <2>3. acc \in Seq(RecordsOf) /\ Hashes(acc) = {arrived[i] : i \in 1 .. n - 1} /\ OneRecordEach(acc)
    BY <1>3 DEF CollectedUpTo
  <2>4. Collecting(ItemOf(arrived, n), acc)
            = IF \E i \in DOMAIN acc : acc[i].hash = t THEN acc ELSE Append(acc, x)
    BY <2>1 DEF Collecting, ItemOf, Cached
  <2>. HIDE DEF t, x
  <2>5. CASE \E i \in DOMAIN acc : acc[i].hash = t
    <3>1. Hashes(acc) = Hashes(acc) \cup {t}
      BY <2>5 DEF Hashes
    <3>. QED
      BY <2>2, <2>3, <2>4, <2>5, <3>1 DEF CollectedUpTo
  <2>6. CASE ~\E i \in DOMAIN acc : acc[i].hash = t
    <3>. DEFINE new == Append(acc, x)
    <3>1. /\ new \in Seq(RecordsOf) /\ Elements(new) = Elements(acc) \cup {x}
          /\ Len(new) = Len(acc) + 1 /\ new[Len(acc) + 1] = x
          /\ \A i \in 1 .. Len(acc) : new[i] = acc[i]
      BY <2>1, <2>3, AppendLemma
    <3>. HIDE DEF new
    <3>2. \A s : Hashes(s) = {e.hash : e \in Elements(s)}
      BY DEF Hashes, Elements
    <3>3. Hashes(new) = Hashes(acc) \cup {t}
      BY <2>1, <3>1, <3>2
    <3>4. Collecting(ItemOf(arrived, n), acc) = new
      BY <2>4, <2>6 DEF new
    <3>5. OneRecordEach(new)
      <4>1. DOMAIN acc = 1 .. Len(acc) /\ DOMAIN new = 1 .. Len(acc) + 1 /\ Len(acc) \in Nat
        BY <2>3, <3>1
      <4>2. \A i \in 1 .. Len(acc) : acc[i].hash # t
        BY <2>6, <4>1
      <4>3. \A i \in 1 .. Len(acc) + 1 : i \in 1 .. Len(acc) \/ i = Len(acc) + 1
        BY <4>1
      <4>. QED
        BY <2>1, <2>3, <3>1, <4>1, <4>2, <4>3 DEF OneRecordEach
    <3>. QED
      BY <2>2, <2>3, <3>1, <3>3, <3>4, <3>5 DEF CollectedUpTo
  <2>. QED
    BY <2>5, <2>6
<1>4. CollectedUpTo(Len(arrived), CollectFold!Fold(arrived, 1 .. Len(arrived)))
  <2>1. \A n \in 1 .. Len(arrived) : \A acc : CollectedUpTo(n - 1, acc)
              => CollectedUpTo(n, Collecting(ItemOf(arrived, n), acc))
    BY <1>3
  <2>. QED
    BY <1>1, <1>2, <2>1, LatestLemma, CollectFold!FoldInduction, Zenon
<1>5. Records = CollectFold!Fold(arrived, 1 .. Len(arrived))
  BY <1>1 DEF Records, FoldLeft, CollectFold!Fold, MapThenFoldSet, CollectFold!MapThenFoldSet,
              Collecting, ItemOf, Latest
<1>. QED
  BY <1>1, <1>4, <1>5 DEF CollectedUpTo, Elements

\* The records when the first n have been put in order.
SortedUpTo(n, acc) ==
    /\ acc \in Seq(RecordsOf) /\ Len(acc) = n /\ Hashes(acc) = {Records[i].hash : i \in 1 .. n}
    /\ OneRecordEach(acc)

Inserting(x, acc) == Insert(acc, x)
SortFold == INSTANCE FoldTheorems WITH
    op <- Inserting, base <- <<>>, f <- ItemOf, choose <- Latest, Good <- SortedUpTo

\* Sorting keeps the records.
LEMMA SortLemma ==
    ASSUME Records \in Seq(RecordsOf), OneRecordEach(Records)
    PROVE  /\ Sorted(Records) \in Seq(RecordsOf) /\ Len(Sorted(Records)) = Len(Records)
           /\ Hashes(Sorted(Records)) = Hashes(Records) /\ OneRecordEach(Sorted(Records))
<1>1. Len(Records) \in Nat /\ DOMAIN Records = 1 .. Len(Records)
      /\ \A i \in 1 .. Len(Records) : Records[i] \in RecordsOf
  OBVIOUS
<1>2. SortedUpTo(0, <<>>)
  BY DEF SortedUpTo, Hashes, OneRecordEach
<1>3. ASSUME NEW n \in 1 .. Len(Records), NEW acc, SortedUpTo(n - 1, acc)
      PROVE  SortedUpTo(n, Inserting(ItemOf(Records, n), acc))
  <2>. DEFINE x == Records[n]
              new == Insert(acc, x)
  <2>1. x \in RecordsOf
    BY <1>1
  <2>2. {Records[i].hash : i \in 1 .. n} = {Records[i].hash : i \in 1 .. n - 1} \cup {x.hash}
    <3>1. 1 .. n = (1 .. n - 1) \cup {n}
      BY <1>1
    <3>. QED
      BY <3>1
  <2>3. /\ acc \in Seq(RecordsOf) /\ Len(acc) = n - 1 /\ n \in Nat
        /\ Hashes(acc) = {Records[i].hash : i \in 1 .. n - 1} /\ OneRecordEach(acc)
    BY <1>1, <1>3 DEF SortedUpTo
  <2>4. Inserting(ItemOf(Records, n), acc) = new
    BY DEF Inserting, ItemOf
  <2>. HIDE DEF x
  <2>5. /\ new \in Seq(RecordsOf) /\ Len(new) = Len(acc) + 1
        /\ Elements(new) = Elements(acc) \cup {x}
        /\ HasInserted(new, acc, x)
    <3>1. acc \in Seq(RecordsOf)
      BY <2>3
    <3>. QED
      BY <2>1, <3>1, InsertLemma
  <2>. HIDE DEF new
  <2>6. \A s : Hashes(s) = {e.hash : e \in Elements(s)}
    BY DEF Hashes, Elements
  <2>7. Hashes(new) = Hashes(acc) \cup {x.hash}
    BY <2>5, <2>6
  <2>8. Len(new) = n
    BY <2>3, <2>5
  <2>9. Hashes(new) = {Records[i].hash : i \in 1 .. n}
    BY <2>2, <2>3, <2>7, Zenon
  <2>10. \A i \in DOMAIN acc : acc[i].hash # x.hash
    <3>1. ASSUME NEW i \in 1 .. n - 1 PROVE Records[i].hash # Records[n].hash
      <4>1. i \in DOMAIN Records /\ n \in DOMAIN Records /\ i # n
        BY <1>1
      <4>. QED
        BY <4>1 DEF OneRecordEach
    <3>2. x.hash \notin {Records[i].hash : i \in 1 .. n - 1}
      BY <3>1 DEF x
    <3>. QED
      BY <2>3, <3>2 DEF Hashes
  <2>11. OneRecordEach(new)
    <3>1. PICK p \in 1 .. Len(acc) + 1 : \A i \in 1 .. Len(acc) + 1 :
              new[i] = IF i < p THEN acc[i] ELSE IF i = p THEN x ELSE acc[i - 1]
      BY <2>5 DEF HasInserted
    <3>2. Len(acc) \in Nat /\ DOMAIN acc = 1 .. Len(acc) /\ DOMAIN new = 1 .. Len(acc) + 1
      BY <2>3, <2>5
    <3>. DEFINE Old(i) == IF i < p THEN i ELSE i - 1
    <3>3. \A i \in 1 .. Len(acc) + 1 : i # p => Old(i) \in DOMAIN acc /\ new[i] = acc[Old(i)]
      BY <3>1, <3>2
    <3>4. \A i, j \in 1 .. Len(acc) + 1 : i # p /\ j # p /\ Old(i) = Old(j) => i = j
      BY <3>1, <3>2
    <3>5. new[p] = x
      BY <3>1, <3>2
    <3>. HIDE DEF Old
    <3>. SUFFICES ASSUME NEW i \in 1 .. Len(acc) + 1, NEW j \in 1 .. Len(acc) + 1,
                         new[i].hash = new[j].hash
                  PROVE  i = j
      BY <3>2 DEF OneRecordEach
    <3>6. CASE i # p /\ j # p
      BY <2>3, <3>3, <3>4, <3>6 DEF OneRecordEach
    <3>7. CASE i = p \/ j = p
      BY <2>10, <3>3, <3>5, <3>7
    <3>. QED
      BY <3>6, <3>7
  <2>. QED
    BY <2>4, <2>5, <2>8, <2>9, <2>11, Zenon DEF SortedUpTo
<1>4. SortedUpTo(Len(Records), SortFold!Fold(Records, 1 .. Len(Records)))
  <2>1. \A n \in 1 .. Len(Records) : \A acc : SortedUpTo(n - 1, acc)
              => SortedUpTo(n, Inserting(ItemOf(Records, n), acc))
    BY <1>3
  <2>. QED
    BY <1>1, <1>2, <2>1, LatestLemma, SortFold!FoldInduction, Zenon
<1>5. Sorted(Records) = SortFold!Fold(Records, 1 .. Len(Records))
  BY <1>1 DEF Sorted, FoldLeft, SortFold!Fold, MapThenFoldSet, SortFold!MapThenFoldSet,
              Inserting, ItemOf, Latest
<1>. QED
  BY <1>1, <1>4, <1>5 DEF SortedUpTo, Hashes

\* The order of a level is one of the transactions whose results have arrived,
\* each of them once, also if one should have answered twice.
LEMMA OrderLemma ==
    ASSUME arrived \in Seq(Txs), Join
    PROVE  order' \in Seq(Txs) /\ Elements(order') = Elements(arrived) /\ Distinct(order')
<1>. DEFINE S == Sorted(Records)
<1>1. order' = [i \in DOMAIN Records |-> S[i].hash]
  BY Zenon DEF Join, Records
<1>2. /\ Records \in Seq(RecordsOf) /\ S \in Seq(RecordsOf) /\ Len(S) = Len(Records)
      /\ Hashes(S) = Elements(arrived) /\ OneRecordEach(S)
  BY CollectLemma, SortLemma
<1>. HIDE DEF S
<1>3. DOMAIN Records = 1 .. Len(S) /\ DOMAIN S = 1 .. Len(S) /\ Len(S) \in Nat
  BY <1>2
<1>4. \A i \in 1 .. Len(S) : S[i].hash \in Txs
  <2>1. \A e \in RecordsOf : e.hash \in Txs
    BY DEF RecordsOf, RecordOf
  <2>2. \A i \in 1 .. Len(S) : S[i] \in RecordsOf
    BY <1>2
  <2>. QED
    BY <2>1, <2>2
<1>5. order' \in Seq(Txs) /\ DOMAIN order' = DOMAIN S /\ \A i \in DOMAIN S : order'[i] = S[i].hash
  BY <1>1, <1>3, <1>4
<1>6. Elements(order') = Hashes(S)
  BY <1>5 DEF Elements, Hashes
<1>7. Distinct(order')
  BY <1>2, <1>5 DEF Distinct, OneRecordEach
<1>. QED
  BY <1>2, <1>5, <1>6, <1>7

-----------------------------------------------------------------------------
(* Conflicts, and what a transaction is committed with.                    *)

\* Of the committed transactions cs none read what one before it wrote.
Fresh(cs) ==
    \A i, j \in DOMAIN cs : i < j => Entries(Kept(cs[i])) \cap Entries(exec[cs[j]].rset.cache) = {}
In(t, rs) == \E i \in DOMAIN rs : rs[i][1] = t

\* A conflict is an entry that was read and has been written.
LEMMA ConflictLemma ==
    ASSUME NEW t, NEW w
    PROVE  HasConflict(t, w) <=> Entries(exec[t].rset.cache) \cap Entries(w) # {}
<1>. DEFINE c == exec[t].rset.cache
<1>1. ASSUME NEW a \in DOMAIN c \cap DOMAIN w, NEW k \in DOMAIN c[a] \cap DOMAIN w[a]
      PROVE  <<a, k>> \in Entries(c) \cap Entries(w)
  <2>. HIDE DEF c
  <2>. QED
    BY DEF Entries
<1>2. ASSUME NEW e \in Entries(c) \cap Entries(w)
      PROVE  \E a \in DOMAIN c \cap DOMAIN w : \E k \in DOMAIN c[a] \cap DOMAIN w[a] : e = <<a, k>>
  <2>. HIDE DEF c
  <2>1. PICK a \in DOMAIN c : \E k \in DOMAIN c[a] : e = <<a, k>>
    BY DEF Entries
  <2>2. PICK b \in DOMAIN w : \E l \in DOMAIN w[b] : e = <<b, l>>
    BY DEF Entries
  <2>. QED
    BY <2>1, <2>2
<1>. QED
  BY <1>1, <1>2 DEF HasConflict

\* A merge of two maps, or of two caches where the accounts of the second win.
LEMMA MergeLemma ==
    ASSUME NEW m, NEW n
    PROVE  /\ DOMAIN Merge(m, n) = DOMAIN m \cup DOMAIN n
           /\ \A x \in DOMAIN n : Merge(m, n)[x] = n[x]
           /\ \A x \in DOMAIN m : x \notin DOMAIN n => Merge(m, n)[x] = m[x]
BY DEF Merge

\* Two maps with good values merge into one.
LEMMA GoodMerge ==
    ASSUME NEW m, NEW n, GoodMap(m), GoodMap(n)
    PROVE  GoodMap(Merge(m, n))
BY DEF GoodMap, Merge

\* What a transaction is committed with are entries of its write set.
LEMMA KeptLemma ==
    ASSUME NEW t, GoodSet(exec[t].wset)
    PROVE  /\ DOMAIN Kept(t) = DOMAIN exec[t].wset.cache
           /\ GoodCache(Kept(t))
           /\ \A a \in DOMAIN Kept(t) : KeepsNonce(t, a) => DOMAIN Kept(t)[a] = {NonceKey}
<1>. DEFINE c == exec[t].wset.cache
<1>1. DOMAIN Kept(t) = DOMAIN c
      /\ \A a \in DOMAIN c : Kept(t)[a] = IF KeepsNonce(t, a) THEN OnlyNonce(c[a]) ELSE c[a]
  BY DEF Kept
<1>2. GoodCache(c) /\ \A a : KeepsNonce(t, a) => NonceKey \in DOMAIN c[a]
  BY DEF GoodSet, KeepsNonce
<1>. HIDE DEF c
<1>3. \A a \in DOMAIN c : /\ NonceKey \in DOMAIN c[a] => DOMAIN OnlyNonce(c[a]) = {NonceKey}
                          /\ GoodMap(OnlyNonce(c[a]))
  BY <1>2 DEF OnlyNonce, GoodCache, GoodMap
<1>4. \A a \in DOMAIN c : GoodMap(Kept(t)[a])
  BY <1>1, <1>2, <1>3 DEF GoodCache
<1>. QED
  BY <1>1, <1>2, <1>3, <1>4 DEF GoodCache, c

\* What Detect knows when the first n records have been looked at.
DetectUpTo(n, acc) ==
    /\ DOMAIN acc = {"written", "committed", "conflicts", "results"}
    /\ GoodCache(acc.written)
    /\ acc.committed \in Seq(Elements(order)) /\ acc.conflicts \in Seq(Elements(order))
    /\ acc.results \in Seq(Txs \X BOOLEAN)
    /\ \A i \in DOMAIN acc.results : LET t == acc.results[i][1] IN Finished(t) /\ ~exec[t].err
    /\ \A i \in 1 .. n : \/ order[i] \in Elements(acc.conflicts)
                         \/ exec[order[i]].err
                         \/ In(order[i], acc.results)
    /\ \A t : In(t, results) => In(t, acc.results)
    /\ \A t \in Elements(acc.conflicts) : ~exec[t].err
    /\ DOMAIN acc.written # {} => acc.results # <<>>
    /\ acc.conflicts # <<>> => DOMAIN acc.written # {}
    /\ \A t \in Elements(acc.committed) : \A a :
           <<a, BalanceKey>> \in Entries(Kept(t)) => <<a, BalanceKey>> \in Entries(acc.written)
    /\ Fresh(acc.committed)

\* What Merged writes for an account.
Entry(old, cache, t, a) ==
    IF a \in DOMAIN old /\ ~KeepsNonce(t, a) THEN Merge(old[a], cache[a]) ELSE cache[a]

\* A transaction that does not conflict is merged: the balances written before
\* stay recorded, since one that replaces an account's entries by its nonce has
\* read the account's balance.
LEMMA WrittenLemma ==
    ASSUME NEW t, NEW ts, NEW from, GoodExec(exec[t], ts, from), NEW acc,
           DOMAIN acc = {"written", "committed", "conflicts", "results"},
           GoodCache(acc.written), ~HasConflict(t, acc.written)
    PROVE  LET w == Merged(acc, t).written
           IN  /\ GoodCache(w) /\ DOMAIN w = DOMAIN acc.written \cup DOMAIN exec[t].wset.cache
               /\ \A a : <<a, BalanceKey>> \in Entries(acc.written) => <<a, BalanceKey>> \in Entries(w)
               /\ \A e \in Entries(Kept(t)) : e \in Entries(w)
<1>. DEFINE old == acc.written
            cache == Kept(t)
            put == [a \in DOMAIN cache |-> Entry(old, cache, t, a)]
            w == Merge(old, put)
<1>1. Merged(acc, t).written = w
  BY DEF Merged, Entry
<1>2. GoodSet(exec[t].wset) /\ GoodCache(old)
      /\ Entries(exec[t].rset.cache) \subseteq Account \X {BalanceKey}
      /\ \A a \in Account : <<a, NonceKey>> \in Entries(exec[t].wset.cache)
                                => <<a, BalanceKey>> \in Entries(exec[t].rset.cache)
  BY DEF GoodExec
<1>3. /\ DOMAIN cache = DOMAIN exec[t].wset.cache /\ GoodCache(cache)
      /\ \A a \in DOMAIN cache : KeepsNonce(t, a) => DOMAIN cache[a] = {NonceKey}
  BY <1>2, KeptLemma
<1>4. ASSUME NEW a, KeepsNonce(t, a), a \in DOMAIN cache, a \in DOMAIN old
      PROVE  BalanceKey \notin DOMAIN old[a]
  <2>1. <<a, NonceKey>> \in Entries(exec[t].wset.cache) /\ a \in Account
    BY <1>3, <1>4 DEF KeepsNonce, Entries, GoodCache
  <2>2. <<a, BalanceKey>> \notin Entries(old)
    BY <1>2, <2>1, ConflictLemma
  <2>. QED
    BY <1>4, <2>2 DEF Entries
<1>. HIDE DEF old, cache
<1>5. /\ DOMAIN w = DOMAIN old \cup DOMAIN cache
      /\ \A a \in DOMAIN cache : w[a] = Entry(old, cache, t, a)
      /\ \A a \in DOMAIN old : a \notin DOMAIN cache => w[a] = old[a]
  BY DEF Merge
<1>6. ASSUME NEW a \in DOMAIN cache
      PROVE  /\ GoodMap(Entry(old, cache, t, a))
             /\ DOMAIN cache[a] \subseteq DOMAIN Entry(old, cache, t, a)
             /\ a \in DOMAIN old /\ BalanceKey \in DOMAIN old[a]
                    => BalanceKey \in DOMAIN Entry(old, cache, t, a)
  <2>1. CASE a \in DOMAIN old /\ ~KeepsNonce(t, a)
    <3>. DEFINE m == Merge(old[a], cache[a])
    <3>1. Entry(old, cache, t, a) = m /\ GoodMap(old[a]) /\ GoodMap(cache[a])
      BY <1>2, <1>3, <2>1 DEF GoodCache, old, Entry
    <3>2. GoodMap(m) /\ DOMAIN m = DOMAIN old[a] \cup DOMAIN cache[a]
      BY <3>1, GoodMerge, MergeLemma
    <3>. HIDE DEF m
    <3>. QED
      BY <3>1, <3>2
  <2>2. CASE ~(a \in DOMAIN old /\ ~KeepsNonce(t, a))
    <3>1. Entry(old, cache, t, a) = cache[a]
      BY <2>2 DEF Entry
    <3>. QED
      BY <1>3, <1>4, <2>2, <3>1 DEF GoodCache
  <2>. QED
    BY <2>1, <2>2
<1>. HIDE DEF w
<1>7. GoodCache(w)
  BY <1>2, <1>3, <1>5, <1>6 DEF GoodCache, old
<1>8. \A a : <<a, BalanceKey>> \in Entries(old) => <<a, BalanceKey>> \in Entries(w)
  BY <1>5, <1>6 DEF Entries
<1>9. \A e \in Entries(cache) : e \in Entries(w)
  BY <1>5, <1>6 DEF Entries
<1>. QED
  BY <1>1, <1>3, <1>5, <1>7, <1>8, <1>9 DEF old, cache

\* What the results hold after n more for t.
LEMMA ResultsLemma ==
    ASSUME NEW rs \in Seq(Txs \X BOOLEAN), NEW t \in Txs, NEW n \in Nat,
           NEW new, new = rs \o [i \in 1 .. n |-> <<t, FALSE>>]
    PROVE  /\ new \in Seq(Txs \X BOOLEAN) /\ Len(new) = Len(rs) + n
           /\ \A i \in DOMAIN new : (n > 0 /\ new[i][1] = t) \/ \E j \in DOMAIN rs : new[i] = rs[j]
           /\ \A j \in DOMAIN rs : j \in DOMAIN new /\ new[j] = rs[j]
           /\ n > 0 => In(t, new)
<1>. DEFINE x == <<t, FALSE>>
            more == [i \in 1 .. n |-> x]
<1>1. new = rs \o more /\ x \in Txs \X BOOLEAN /\ x[1] = t
  OBVIOUS
<1>. HIDE DEF x
<1>2. more \in Seq(Txs \X BOOLEAN) /\ Len(more) = n /\ \A i \in 1 .. n : more[i] = x
  BY <1>1
<1>. HIDE DEF more
<1>. DEFINE both == rs \o more
<1>3. /\ both \in Seq(Txs \X BOOLEAN) /\ Len(both) = Len(rs) + Len(more)
      /\ \A i \in 1 .. Len(rs) + Len(more) :
            both[i] = IF i <= Len(rs) THEN rs[i] ELSE more[i - Len(rs)]
  BY <1>2, ConcatProperties
<1>. HIDE DEF both
<1>4. new = both
  BY <1>1 DEF both
<1>5. /\ new \in Seq(Txs \X BOOLEAN) /\ Len(new) = Len(rs) + n /\ Len(rs) \in Nat
      /\ \A i \in 1 .. Len(rs) + n : new[i] = IF i <= Len(rs) THEN rs[i] ELSE more[i - Len(rs)]
  <2>1. Len(more) = n /\ Len(rs) \in Nat
    BY <1>2
  <2>. QED
    BY <1>3, <1>4, <2>1, Zenon
<1>6. DOMAIN rs = 1 .. Len(rs) /\ DOMAIN new = 1 .. Len(rs) + n
  BY <1>5
<1>7. ASSUME NEW i \in DOMAIN new
      PROVE  (n > 0 /\ new[i][1] = t) \/ \E j \in DOMAIN rs : new[i] = rs[j]
  <2>1. CASE i <= Len(rs)
    BY <1>5, <1>6, <2>1
  <2>2. CASE ~(i <= Len(rs))
    <3>1. i - Len(rs) \in 1 .. n /\ n > 0
      BY <1>5, <1>6, <2>2
    <3>. QED
      BY <1>1, <1>2, <1>6, <1>5, <2>2, <3>1
  <2>. QED
    BY <2>1, <2>2
<1>8. \A j \in DOMAIN rs : j \in DOMAIN new /\ new[j] = rs[j]
  BY <1>5, <1>6
<1>9. n > 0 => In(t, new)
  <2>. SUFFICES ASSUME n > 0 PROVE In(t, new)
    OBVIOUS
  <2>1. Len(rs) + n \in DOMAIN new /\ ~(Len(rs) + n <= Len(rs)) /\ n \in 1 .. n
        /\ (Len(rs) + n) - Len(rs) = n
    BY <1>5, <1>6
  <2>2. new[Len(rs) + n] = more[n]
    BY <1>5, <1>6, <2>1
  <2>. QED
    BY <1>1, <1>2, <2>1, <2>2 DEF In
<1>. QED
  BY <1>5, <1>7, <1>8, <1>9

\* The members of a sequence of transactions have finished.
AllFinished(s) == s \in Seq(Txs) /\ \A t \in Elements(s) : Finished(t)

\* A conflict is noted ...
LEMMA ConflictNoted ==
    ASSUME Executions, AllFinished(order), NEW n \in DOMAIN order, NEW acc,
           DetectUpTo(n - 1, acc), HasConflict(order[n], acc.written)
    PROVE  DetectUpTo(n, [acc EXCEPT !.conflicts = Append(acc.conflicts, order[n])])
<1>. DEFINE t == order[n]
            new == [acc EXCEPT !.conflicts = Append(acc.conflicts, t)]
<1>1. n \in Nat /\ t \in Elements(order) /\ \A i \in 1 .. n : i \in 1 .. n - 1 \/ i = n
  <2>1. n \in 1 .. Len(order) /\ Len(order) \in Nat
    BY DEF AllFinished
  <2>. QED
    BY <2>1 DEF Elements
<1>2. DetectUpTo(n - 1, acc)
  OBVIOUS
<1>3. /\ DOMAIN acc = {"written", "committed", "conflicts", "results"}
      /\ acc.conflicts \in Seq(Elements(order))
  BY DEF DetectUpTo
<1>4. /\ DOMAIN new = {"written", "committed", "conflicts", "results"}
      /\ new.written = acc.written /\ new.committed = acc.committed /\ new.results = acc.results
      /\ new.conflicts = Append(acc.conflicts, t)
  BY <1>3
<1>5. /\ new.conflicts \in Seq(Elements(order))
      /\ Elements(new.conflicts) = Elements(acc.conflicts) \cup {t}
  BY <1>1, <1>3, <1>4, AppendLemma
<1>6. DOMAIN acc.written # {}
  BY DEF HasConflict
<1>. HIDE DEF new
<1>7. \A i \in 1 .. n : \/ order[i] \in Elements(new.conflicts)
                        \/ exec[order[i]].err
                        \/ In(order[i], new.results)
  BY <1>1, <1>2, <1>4, <1>5 DEF DetectUpTo
<1>8. ~exec[t].err
  <2>1. t \in Txs /\ DOMAIN exec[t].rset.cache # {}
    BY <1>1 DEF HasConflict, AllFinished, Elements
  <2>2. GoodExec(exec[t], Txs, From(t))
    BY <2>1 DEF Executions
  <2>. QED
    BY <2>1, <2>2, EmptySet DEF GoodExec
<1>9. \A u \in Elements(new.conflicts) : ~exec[u].err
  BY <1>2, <1>5, <1>8 DEF DetectUpTo
<1>. HIDE DEF t
<1>. QED
  BY <1>2, <1>4, <1>5, <1>6, <1>7, <1>9 DEF DetectUpTo, new, t

\* ... and what does not conflict is committed (cacheSet.go:188-233).
LEMMA CommitNoted ==
    ASSUME Executions, AllFinished(order), NEW n \in DOMAIN order, NEW acc,
           DetectUpTo(n - 1, acc), ~HasConflict(order[n], acc.written)
    PROVE  DetectUpTo(n, Merged(acc, order[n]))
<1>. DEFINE t == order[n]
            new == Merged(acc, t)
            size == Cardinality(DOMAIN Kept(t))
<1>1. n \in Nat /\ t \in Elements(order) /\ t \in Txs /\ \A i \in 1 .. n : i \in 1 .. n - 1 \/ i = n
  <2>1. n \in 1 .. Len(order) /\ Len(order) \in Nat
    BY DEF AllFinished
  <2>. QED
    BY <2>1 DEF Elements, AllFinished
<1>2. DetectUpTo(n - 1, acc)
  OBVIOUS
<1>3. GoodExec(exec[t], Txs, From(t)) /\ Finished(t) /\ exec[t].pc = "done"
  BY <1>1 DEF Executions, AllFinished, Finished
<1>4. /\ DOMAIN acc = {"written", "committed", "conflicts", "results"}
      /\ GoodCache(acc.written) /\ acc.results \in Seq(Txs \X BOOLEAN)
      /\ acc.committed \in Seq(Elements(order))
  BY DEF DetectUpTo
<1>5. /\ DOMAIN new = DOMAIN acc /\ new.conflicts = acc.conflicts
      /\ new.committed = Append(acc.committed, t)
      /\ new.results = acc.results \o [i \in 1 .. size |-> <<t, FALSE>>]
  BY <1>4 DEF Merged
<1>6. /\ GoodCache(new.written)
      /\ DOMAIN new.written = DOMAIN acc.written \cup DOMAIN exec[t].wset.cache
      /\ \A a : <<a, BalanceKey>> \in Entries(acc.written) => <<a, BalanceKey>> \in Entries(new.written)
      /\ \A e \in Entries(Kept(t)) : e \in Entries(new.written)
  BY <1>3, <1>4, WrittenLemma
<1>7. /\ DOMAIN Kept(t) = DOMAIN exec[t].wset.cache
      /\ IsFiniteSet(DOMAIN Kept(t)) /\ GoodCache(Kept(t))
  BY <1>3, KeptLemma DEF GoodExec, GoodSet
<1>8. size \in Nat /\ (size = 0 <=> DOMAIN Kept(t) = {})
  BY <1>7, FS_EmptySet, FS_CardinalityType
<1>9. size = 0 <=> exec[t].err
  <2>1. exec[t].err => DOMAIN exec[t].wset.cache = {}
    BY <1>3, EmptySet DEF GoodExec
  <2>2. ~exec[t].err => DOMAIN exec[t].wset.cache # {}
    BY <1>3 DEF GoodExec, Uncharged
  <2>. QED
    BY <1>7, <1>8, <2>1, <2>2
<1>. HIDE DEF new, size, t
<1>10. /\ new.results \in Seq(Txs \X BOOLEAN) /\ Len(new.results) = Len(acc.results) + size
       /\ \A i \in DOMAIN new.results :
             (size > 0 /\ new.results[i][1] = t) \/ \E j \in DOMAIN acc.results : new.results[i] = acc.results[j]
       /\ \A j \in DOMAIN acc.results : j \in DOMAIN new.results /\ new.results[j] = acc.results[j]
       /\ size > 0 => In(t, new.results)
  BY <1>1, <1>4, <1>5, <1>8, ResultsLemma
<1>11. \A u : In(u, acc.results) => In(u, new.results)
  BY <1>10 DEF In
<1>12. /\ new.committed \in Seq(Elements(order))
       /\ Len(new.committed) = Len(acc.committed) + 1
       /\ \A i \in 1 .. Len(acc.committed) : new.committed[i] = acc.committed[i]
       /\ new.committed[Len(acc.committed) + 1] = t
       /\ Elements(new.committed) = Elements(acc.committed) \cup {t}
  BY <1>1, <1>4, <1>5, AppendLemma
<1>13. \A i \in DOMAIN new.results : LET u == new.results[i][1] IN Finished(u) /\ ~exec[u].err
  <2>. SUFFICES ASSUME NEW i \in DOMAIN new.results
                PROVE  Finished(new.results[i][1]) /\ ~exec[new.results[i][1]].err
    OBVIOUS
  <2>1. CASE size > 0 /\ new.results[i][1] = t
    BY <1>3, <1>8, <1>9, <2>1
  <2>2. CASE \E j \in DOMAIN acc.results : new.results[i] = acc.results[j]
    BY <1>2, <2>2 DEF DetectUpTo
  <2>. QED
    BY <1>10, <2>1, <2>2
<1>14. \A i \in 1 .. n : \/ order[i] \in Elements(new.conflicts)
                         \/ exec[order[i]].err
                         \/ In(order[i], new.results)
  <2>. SUFFICES ASSUME NEW i \in 1 .. n
                PROVE  \/ order[i] \in Elements(new.conflicts)
                       \/ exec[order[i]].err
                       \/ In(order[i], new.results)
    OBVIOUS
  <2>1. CASE i \in 1 .. n - 1
    BY <1>2, <1>5, <1>11, <2>1 DEF DetectUpTo
  <2>2. CASE i = n
    BY <1>8, <1>9, <1>10, <2>2 DEF t
  <2>. QED
    BY <1>1, <2>1, <2>2
<1>15. DOMAIN new.written # {} => new.results # <<>>
  <2>. SUFFICES ASSUME DOMAIN new.written # {}, new.results = <<>> PROVE FALSE
    OBVIOUS
  <2>1. Len(acc.results) \in Nat /\ Len(new.results) = 0
    BY <1>4
  <2>2. size = 0 /\ Len(acc.results) = 0
    BY <1>8, <1>10, <2>1
  <2>3. acc.results = <<>> /\ DOMAIN exec[t].wset.cache = {}
    BY <1>4, <1>7, <1>8, <2>2
  <2>. QED
    BY <1>2, <1>6, <2>3 DEF DetectUpTo
<1>16. new.conflicts # <<>> => DOMAIN new.written # {}
  BY <1>2, <1>5, <1>6 DEF DetectUpTo
<1>17. \A u \in Elements(new.committed) : \A a :
           <<a, BalanceKey>> \in Entries(Kept(u)) => <<a, BalanceKey>> \in Entries(new.written)
  BY <1>2, <1>6, <1>12 DEF DetectUpTo
<1>18. Fresh(new.committed)
  <2>. SUFFICES ASSUME NEW i \in DOMAIN new.committed, NEW j \in DOMAIN new.committed, i < j,
                       NEW e \in Entries(Kept(new.committed[i])),
                       e \in Entries(exec[new.committed[j]].rset.cache)
                PROVE  FALSE
    BY DEF Fresh
  <2>1. /\ Len(acc.committed) \in Nat /\ DOMAIN acc.committed = 1 .. Len(acc.committed)
        /\ DOMAIN new.committed = 1 .. Len(acc.committed) + 1
    BY <1>4, <1>12
  <2>2. i \in DOMAIN acc.committed /\ new.committed[i] = acc.committed[i]
    BY <1>12, <2>1
  <2>3. CASE j \in DOMAIN acc.committed
    BY <1>2, <1>12, <2>1, <2>2, <2>3 DEF DetectUpTo, Fresh
  <2>4. CASE j = Len(acc.committed) + 1
    <3>1. e \in Entries(exec[t].rset.cache)
      BY <1>12, <2>4
    <3>2. e \in Account \X {BalanceKey}
      BY <1>3, <3>1 DEF GoodExec
    <3>3. PICK a \in Account : e = <<a, BalanceKey>>
      BY <3>2
    <3>4. acc.committed[i] \in Elements(acc.committed)
      BY <2>2 DEF Elements
    <3>5. e \in Entries(acc.written)
      BY <1>2, <2>2, <3>3, <3>4 DEF DetectUpTo
    <3>. QED
      BY <3>1, <3>5, ConflictLemma DEF t
  <2>. QED
    BY <2>1, <2>3, <2>4
<1>19. \A u : In(u, results) => In(u, new.results)
  BY <1>2, <1>11 DEF DetectUpTo
<1>20. new.conflicts \in Seq(Elements(order)) /\ DOMAIN new = {"written", "committed", "conflicts", "results"}
  BY <1>2, <1>4, <1>5 DEF DetectUpTo
<1>21. \A u \in Elements(new.conflicts) : ~exec[u].err
  BY <1>2, <1>5 DEF DetectUpTo
<1>22. DetectUpTo(n, new)
  BY <1>6, <1>10, <1>12, <1>13, <1>14, <1>15, <1>16, <1>17, <1>18, <1>19, <1>20, <1>21, Zenon
     DEF DetectUpTo
<1>. QED
  BY <1>22 DEF new, t

DetectStart == [written |-> NoEntries, committed |-> <<>>, conflicts |-> <<>>, results |-> results]
DetectEnd == FoldLeft(Checked, DetectStart, order)

Checking(t, acc) == Checked(acc, t)
DetectFold == INSTANCE FoldTheorems WITH
    op <- Checking, base <- DetectStart, f <- ItemOf, choose <- Latest, Good <- DetectUpTo

\* Before the first record.
LEMMA DetectStarts ==
    ASSUME results \in Seq(Txs \X BOOLEAN),
           \A i \in DOMAIN results : LET t == results[i][1] IN Finished(t) /\ ~exec[t].err
    PROVE  DetectUpTo(0, DetectStart)
<1>1. /\ DetectStart.written = NoEntries /\ DetectStart.committed = <<>>
      /\ DetectStart.conflicts = <<>> /\ DetectStart.results = results
      /\ DOMAIN DetectStart = {"written", "committed", "conflicts", "results"}
  BY DEF DetectStart
<1>2. GoodCache(NoEntries) /\ DOMAIN NoEntries = {} /\ Fresh(<<>>) /\ Elements(<<>>) = {}
      /\ \A S : <<>> \in Seq(S)
  BY DEF GoodCache, NoEntries, Fresh, Elements
<1>3. 1 .. 0 = {}
  OBVIOUS
<1>. HIDE DEF DetectStart
<1>. QED
  BY <1>1, <1>2, <1>3 DEF DetectUpTo

\* What DetectConflicts leaves behind when it has seen every record of a level.
LEMMA DetectLemma ==
    ASSUME Executions, AllFinished(order), results \in Seq(Txs \X BOOLEAN),
           \A i \in DOMAIN results : LET t == results[i][1] IN Finished(t) /\ ~exec[t].err
    PROVE  DetectUpTo(Len(order), DetectEnd)
<1>1. order \in Seq(Txs)
  BY DEF AllFinished
<1>2. Len(order) \in Nat /\ DOMAIN order = 1 .. Len(order)
  BY <1>1
<1>3. DetectUpTo(0, DetectStart)
  BY DetectStarts
<1>4. ASSUME NEW n \in 1 .. Len(order), NEW acc, DetectUpTo(n - 1, acc)
      PROVE  DetectUpTo(n, Checking(ItemOf(order, n), acc))
  <2>1. CASE HasConflict(order[n], acc.written)
    <3>1. Checking(ItemOf(order, n), acc) = [acc EXCEPT !.conflicts = Append(acc.conflicts, order[n])]
      BY <2>1 DEF Checking, ItemOf, Checked
    <3>. QED
      BY <1>2, <1>4, <2>1, <3>1, ConflictNoted
  <2>2. CASE ~HasConflict(order[n], acc.written)
    <3>1. Checking(ItemOf(order, n), acc) = Merged(acc, order[n])
      BY <2>2 DEF Checking, ItemOf, Checked
    <3>. QED
      BY <1>2, <1>4, <2>2, <3>1, CommitNoted
  <2>. QED
    BY <2>1, <2>2
<1>5. DetectUpTo(Len(order), DetectFold!Fold(order, 1 .. Len(order)))
  <2>1. \A n \in 1 .. Len(order) : \A acc : DetectUpTo(n - 1, acc)
              => DetectUpTo(n, Checking(ItemOf(order, n), acc))
    BY <1>4
  <2>. QED
    BY <1>2, <1>3, <2>1, LatestLemma, DetectFold!FoldInduction, Zenon
<1>6. DetectEnd = DetectFold!Fold(order, 1 .. Len(order))
  BY <1>2 DEF DetectEnd, FoldLeft, DetectFold!Fold, MapThenFoldSet, DetectFold!MapThenFoldSet,
              Checking, ItemOf, Latest
<1>. QED
  BY <1>5, <1>6

-----------------------------------------------------------------------------
(* The invariant.                                                          *)

\* The phases of the main goroutine behind wg.Wait.
Joined == {"detect", "redo", "reCall", "reCommit"}
Redoing == {"redo", "reCall", "reCommit"}

\* The transactions of level l.
Level(l) == Elements(plan.items[l + 1])

\* Every result is one of a transaction that finished and did not end in an error.
Receipts ==
    /\ results \in Seq(Txs \X BOOLEAN)
    /\ \A i \in DOMAIN results : LET t == results[i][1] IN Finished(t) /\ ~exec[t].err

\* The lists of transactions hold finished ones, and the conflicts none that
\* ended in an error.
Lists ==
    /\ AllFinished(arrived) /\ AllFinished(order) /\ AllFinished(committed) /\ AllFinished(conflicts)
    /\ Receipts
    /\ \A t \in Elements(conflicts) : ~exec[t].err
    /\ Fresh(committed)

\* The sets of the main goroutine, and what RelExecTx takes from the lists.
Sets ==
    /\ GoodCache(written)
    /\ DOMAIN retried \subseteq Txs /\ \A t \in DOMAIN retried : GoodSet(retried[t])
    /\ phase \in Redoing /\ conflicts # <<>> => results # <<>>
    /\ phase \in {"reCall", "reCommit"} => conflicts # <<>> /\ Head(conflicts) \in DOMAIN retried

\* The plan, and the loop variable within it.
Planned ==
    /\ phase = "fill" => PlanUpTo(0, plan) /\ level = 0
    /\ phase # "fill" => PlanUpTo(Len(block), plan)
    /\ level \in Nat /\ level <= plan.maxLevel + 1
    /\ phase \notin {"level", "done"} => level <= plan.maxLevel
    /\ level > 0 \/ phase \in Joined => Txs # {}

\* The levels behind the loop variable are over: what they hold has finished, and
\* with a result unless it ended in an error.  Those ahead have not begun.
Past == \A l \in 0 .. level - 1 : \A t \in Level(l) : Finished(t) /\ (exec[t].err \/ In(t, results))
Ahead ==
    /\ phase = "fill" => \A t \in Txs : ~Finished(t)
    /\ \A l \in 0 .. plan.maxLevel :
           l > level \/ (l = level /\ phase = "level") => \A t \in Level(l) : ~Finished(t)

\* The level at work.
Present ==
    /\ phase = "running" => \A t \in Level(level) : Finished(t) => t \in Elements(arrived)
    /\ phase \in Joined => \A t \in Level(level) : Finished(t)
    /\ phase = "detect" => \A t \in Level(level) : t \in Elements(order)
    /\ phase \in Redoing => \A t \in Level(level) :
           exec[t].err \/ In(t, results) \/ t \in Elements(conflicts)

Block == Lists /\ Sets /\ Planned /\ Past /\ Ahead /\ Present
IInv == Machine /\ Executions /\ Block

-----------------------------------------------------------------------------
(* A goroutine keeps what is said of the block.                            *)

\* A goroutine runs while its transaction has not finished; it changes its own
\* record, and only its last step adds to the answers that have arrived.
LEMMA GoroutineMoves ==
    ASSUME Executions, NEW t \in Txs, Goroutine(t)
    PROVE  /\ phase = "running" /\ phase' \in {"running", "crashed"} /\ t \in Current
           /\ UNCHANGED <<block, mainVars>>
           /\ ~Finished(t) /\ \A u \in Txs : u # t => exec'[u] = exec[u]
           /\ arrived' = IF exec'[t].pc = "done" THEN Append(arrived, t) ELSE arrived
<1>. DEFINE Moves(e) == /\ exec' = [exec EXCEPT ![t] = e] /\ e.pc # "done" /\ arrived' = arrived
<1>1. DOMAIN exec = Txs /\ DOMAIN exec[t] = Fields
  BY DEF Executions, GoodExec
<1>2. /\ phase = "running" /\ phase' \in {"running", "crashed"} /\ t \in Current
      /\ UNCHANGED <<block, mainVars>> /\ ~Finished(t)
  BY DEF Goroutine, IsAt, Finished, MakePool, PassPool, SetBalance, Have, LoadGas, SubGas, CanTransfer,
         Call, Credit, Refund, LoadPool, AddGas, PayTip, Send
<1>3. CASE \E e : Moves(e)
  BY <1>1, <1>2, <1>3
<1>4. CASE exec' = [exec EXCEPT ![t].pc = "done"] /\ arrived' = Append(arrived, t)
  BY <1>1, <1>2, <1>4 DEF Fields
<1>. DEFINE P(pc) == [exec[t] EXCEPT !.pc = pc]
<1>6. ASSUME NEW pc \in PC, pc # "done", exec' = [exec EXCEPT ![t].pc = pc], arrived' = arrived
      PROVE  \E e : Moves(e)
  <2>1. exec' = [exec EXCEPT ![t] = P(pc)] /\ P(pc).pc = pc
    BY <1>1, <1>6 DEF Fields
  <2>. QED
    BY <1>6, <2>1
<1>. HIDE DEF Moves
<1>7. CASE MakePool(t)
  BY <1>3, <1>6, <1>7 DEF MakePool, Goto, PC
<1>8. CASE PassPool(t)
  <2>. DEFINE e == [exec[t] EXCEPT !.pc = "setBalance", !.pool = gpVar]
  <2>1. exec' = [exec EXCEPT ![t] = e] /\ e.pc = "setBalance" /\ arrived' = arrived
    BY <1>1, <1>8 DEF PassPool, Fields
  <2>. QED
    BY <1>3, <2>1 DEF Moves
<1>9. CASE SetBalance(t)
  BY <1>3, <1>6, <1>9 DEF SetBalance, Goto, PC
<1>10. Failed(exec[t]).pc = "send"
  BY <1>1 DEF Failed, Fields
<1>11. CASE Have(t)
  <2>. DEFINE have == cp[From(t)].bal
              g == [exec[t] EXCEPT !.pc = "loadGas",
                                   !.rset = ReadUpdate(exec[t].rset, From(t), BalanceKey, have)]
              e == IF have < Want(t) THEN Failed(exec[t]) ELSE g
  <2>1. exec' = [exec EXCEPT ![t] = e] /\ g.pc = "loadGas" /\ arrived' = arrived
    BY <1>1, <1>11 DEF Have, Fields
  <2>. HIDE DEF g
  <2>2. e.pc # "done"
    BY <1>10, <2>1
  <2>. HIDE DEF e
  <2>. QED
    BY <1>3, <2>1, <2>2 DEF Moves
<1>12. CASE LoadGas(t)
  <2>. DEFINE v == pools[exec[t].pool]
              g == [exec[t] EXCEPT !.pc = "subGas", !.reg = v]
              e == IF v < TxGas THEN Failed(exec[t]) ELSE g
  <2>1. exec' = [exec EXCEPT ![t] = e] /\ g.pc = "subGas" /\ arrived' = arrived
    BY <1>1, <1>12 DEF LoadGas, Fields
  <2>. HIDE DEF g
  <2>2. e.pc # "done"
    BY <1>10, <2>1
  <2>. HIDE DEF e
  <2>. QED
    BY <1>3, <2>1, <2>2 DEF Moves
<1>13. CASE SubGas(t)
  <2>. DEFINE w == WriteUpdate(exec[t].wset, From(t), SubBalanceKey, TxGas * Price, 0)
              e == [exec[t] EXCEPT !.pc = "canTransfer", !.wset = w]
  <2>1. exec' = [exec EXCEPT ![t] = e] /\ e.pc = "canTransfer" /\ arrived' = arrived
    BY <1>1, <1>13 DEF SubGas, Fields
  <2>. HIDE DEF e
  <2>. QED
    BY <1>3, <2>1 DEF Moves
<1>14. CASE CanTransfer(t)
  <2>. DEFINE have == cp[From(t)]
              r == ReadUpdate(exec[t].rset, From(t), BalanceKey, have.bal)
              w == WriteUpdate(exec[t].wset, From(t), NonceKey, have.nonce + 1, 0)
              g == [exec[t] EXCEPT !.pc = "send", !.vmErr = TRUE, !.gas = CallStipend]
              h == [exec[t] EXCEPT !.pc = "call", !.rset = r, !.wset = w]
              e == IF Value(t) > 0 /\ have.bal < Value(t) THEN g ELSE h
  <2>1. exec' = [exec EXCEPT ![t] = e] /\ g.pc = "send" /\ h.pc = "call" /\ arrived' = arrived
    BY <1>1, <1>14 DEF CanTransfer, Fields
  <2>. HIDE DEF g, h
  <2>2. e.pc # "done"
    BY <2>1
  <2>. HIDE DEF e
  <2>. QED
    BY <1>3, <2>1, <2>2 DEF Moves
<1>15. CASE Call(t)
  <2>. DEFINE r == ReadUpdate(exec[t].rset, From(t), BalanceKey, Value(t))
              pc == IF Value(t) > 0 THEN "credit" ELSE "refund"
              g == [exec[t] EXCEPT !.pc = "refund", !.vmErr = TRUE]
              h == [exec[t] EXCEPT !.pc = pc, !.rset = r]
              e == IF Value(t) # 0 /\ cp[From(t)].bal < Value(t) THEN g ELSE h
  <2>1. exec' = [exec EXCEPT ![t] = e] /\ g.pc = "refund" /\ h.pc = pc /\ arrived' = arrived
    BY <1>1, <1>15 DEF Call, Fields
  <2>. HIDE DEF g, h
  <2>2. e.pc # "done"
    BY <2>1
  <2>. HIDE DEF e
  <2>. QED
    BY <1>3, <2>1, <2>2 DEF Moves
<1>16. CASE Credit(t)
  <2>. DEFINE r == ReadUpdate(exec[t].rset, To(t), BalanceKey, cp[To(t)].bal)
              w == Transfer(exec[t].wset, t, cp[To(t)].bal)
              e == [exec[t] EXCEPT !.pc = "refund", !.rset = r, !.wset = w]
  <2>1. exec' = [exec EXCEPT ![t] = e] /\ e.pc = "refund" /\ arrived' = arrived
    BY <1>1, <1>16 DEF Credit, Fields
  <2>. HIDE DEF e
  <2>. QED
    BY <1>3, <2>1 DEF Moves
<1>17. CASE Refund(t)
  <2>. DEFINE w == Refunded(exec[t].wset, t, cp[From(t)].bal)
              e == [exec[t] EXCEPT !.pc = "loadPool", !.wset = w]
  <2>1. exec' = [exec EXCEPT ![t] = e] /\ e.pc = "loadPool" /\ arrived' = arrived
    BY <1>1, <1>17 DEF Refund, Fields
  <2>. HIDE DEF e
  <2>. QED
    BY <1>3, <2>1 DEF Moves
<1>18. CASE LoadPool(t)
  <2>. DEFINE e == [exec[t] EXCEPT !.pc = "addGas", !.reg = pools[exec[t].pool]]
  <2>1. exec' = [exec EXCEPT ![t] = e] /\ e.pc = "addGas" /\ arrived' = arrived
    BY <1>1, <1>18 DEF LoadPool, Fields
  <2>. HIDE DEF e
  <2>. QED
    BY <1>3, <2>1 DEF Moves
<1>19. CASE AddGas(t)
  <2>. DEFINE pc == IF Tip = 0 THEN "send" ELSE "tip"
  <2>1. exec' = [exec EXCEPT ![t].pc = pc] /\ pc \in PC /\ pc # "done" /\ arrived' = arrived
    BY <1>19 DEF AddGas, Goto, PC
  <2>. HIDE DEF pc
  <2>. QED
    BY <1>3, <1>6, <2>1
<1>20. CASE PayTip(t)
  <2>. DEFINE w == Tipped(exec[t].wset, cp[Coinbase].bal)
              e == [exec[t] EXCEPT !.pc = "send", !.wset = w]
  <2>1. exec' = [exec EXCEPT ![t] = e] /\ e.pc = "send" /\ arrived' = arrived
    BY <1>1, <1>20 DEF PayTip, Fields
  <2>. HIDE DEF e
  <2>. QED
    BY <1>3, <2>1 DEF Moves
<1>21. CASE Send(t)
  BY <1>4, <1>21 DEF Send, Goto
<1>. QED
  BY <1>7, <1>8, <1>9, <1>11, <1>12, <1>13, <1>14, <1>15, <1>16, <1>17, <1>18, <1>19, <1>20, <1>21
     DEF Goroutine

\* The levels of a plan hold different transactions of the block, and all of them.
LEMMA LevelFacts ==
    ASSUME block \in Blocks, NEW c, PlanUpTo(Len(block), c)
    PROVE  /\ c.maxLevel \in Nat /\ c.maxLevel <= Larger(Len(block) - 1, 0)
           /\ \A l \in 0 .. c.maxLevel : Elements(c.items[l + 1]) \subseteq Txs
           /\ \A l, m \in 0 .. c.maxLevel : \A t \in Elements(c.items[l + 1]) :
                 t \in Elements(c.items[m + 1]) => l = m
           /\ \A t \in Txs : \E l \in 0 .. c.maxLevel : t \in Elements(c.items[l + 1])
           /\ \A l, m \in 0 .. c.maxLevel : l < m =>
                 \A t \in Elements(c.items[l + 1]), u \in Elements(c.items[m + 1]) : t < u
<1>1. /\ c.items \in Seq(Seq(Nat)) /\ c.maxLevel \in Nat /\ c.maxLevel + 1 <= Len(c.items)
      /\ c.maxLevel <= Larger(Len(block) - 1, 0)
  BY DEF PlanUpTo
<1>2. \A l \in 0 .. c.maxLevel : l + 1 \in DOMAIN c.items
  <2>1. DOMAIN c.items = 1 .. Len(c.items) /\ Len(c.items) \in Nat
    BY <1>1
  <2>. QED
    BY <1>1, <2>1
<1>3. ASSUME NEW l \in 0 .. c.maxLevel PROVE Elements(c.items[l + 1]) \subseteq Txs
  <2>1. \A i \in DOMAIN c.items[l + 1] : c.items[l + 1][i] \in 1 .. Len(block)
    BY <1>2 DEF PlanUpTo
  <2>. QED
    BY <2>1, BlockTypes DEF Elements
<1>4. ASSUME NEW l \in 0 .. c.maxLevel, NEW m \in 0 .. c.maxLevel,
             NEW t \in Elements(c.items[l + 1]), t \in Elements(c.items[m + 1])
      PROVE  l = m
  <2>1. PICK i \in DOMAIN c.items[l + 1] : t = c.items[l + 1][i]
    BY DEF Elements
  <2>2. PICK j \in DOMAIN c.items[m + 1] : t = c.items[m + 1][j]
    BY <1>4 DEF Elements
  <2>3. l + 1 = m + 1
    BY <1>2, <2>1, <2>2 DEF PlanUpTo
  <2>. QED
    BY <1>1, <2>3
<1>5. ASSUME NEW t \in Txs PROVE \E l \in 0 .. c.maxLevel : t \in Elements(c.items[l + 1])
  <2>1. t \in 1 .. Len(block)
    BY BlockTypes
  <2>2. PICK k \in 1 .. c.maxLevel + 1 : \E i \in DOMAIN c.items[k] : c.items[k][i] = t
    BY <2>1 DEF PlanUpTo, AllPlaced
  <2>3. k - 1 \in 0 .. c.maxLevel /\ (k - 1) + 1 = k
    BY <1>1
  <2>4. t \in Elements(c.items[k])
    BY <2>2 DEF Elements
  <2>. QED
    BY <2>3, <2>4
<1>6. ASSUME NEW l \in 0 .. c.maxLevel, NEW m \in 0 .. c.maxLevel, l < m,
             NEW t \in Elements(c.items[l + 1]), NEW u \in Elements(c.items[m + 1])
      PROVE  t < u
  <2>1. PICK i \in DOMAIN c.items[l + 1] : t = c.items[l + 1][i]
    BY DEF Elements
  <2>2. PICK j \in DOMAIN c.items[m + 1] : u = c.items[m + 1][j]
    BY DEF Elements
  <2>3. l + 1 < m + 1
    BY <1>1, <1>6
  <2>. QED
    BY <1>2, <2>1, <2>2, <2>3 DEF PlanUpTo, Rising
<1>. QED
  BY <1>1, <1>3, <1>4, <1>5, <1>6

\* A plan stays what it is.
LEMMA PlanStays ==
    ASSUME UNCHANGED <<block, plan>>, PlanUpTo(Len(block), plan)
    PROVE  PlanUpTo(Len(block), plan)'
<1>1. PlanUpTo(Len(block), plan)' <=> PlanUpTo(Len(block'), plan')
  BY DEF PlanUpTo, AllPlaced, Rising
<1>. QED
  BY <1>1

\* The transactions of the level at work.
LEMMA CurrentLevel == Current = Level(level)
BY DEF Current, Level, Elements, GetLevelItemWithMark

\* The lists stay as long as finished transactions do.
LEMMA ListsKept ==
    ASSUME Lists, UNCHANGED <<block, order, committed, conflicts, results>>, AllFinished(arrived)',
           \A u \in Txs : Finished(u) => exec'[u] = exec[u]
    PROVE  Lists'
<1>1. Txs' = Txs
  BY DEF Txs
<1>2. \A u \in Txs : Finished(u) => Finished(u)'
  BY DEF Finished
<1>3. ASSUME NEW s, AllFinished(s) PROVE \A u \in Elements(s) : u \in Txs /\ Finished(u)
  BY <1>3 DEF AllFinished, Elements
<1>4. AllFinished(order)' /\ AllFinished(committed)' /\ AllFinished(conflicts)'
  BY <1>1, <1>2, <1>3 DEF Lists, AllFinished, Elements
<1>5. Receipts'
  <2>1. results \in Seq(Txs \X BOOLEAN)
    BY DEF Lists, Receipts
  <2>2. ASSUME NEW i \in DOMAIN results
        PROVE  exec'[results[i][1]].pc = "done" /\ ~exec'[results[i][1]].err
    <3>1. results[i] \in Txs \X BOOLEAN
      BY <2>1
    <3>2. Finished(results[i][1]) /\ ~exec[results[i][1]].err
      BY DEF Lists, Receipts
    <3>. QED
      BY <1>2, <3>1, <3>2 DEF Finished
  <2>. QED
    BY <1>1, <2>1, <2>2 DEF Receipts, Finished
<1>6. \A u \in Elements(conflicts') : ~exec'[u].err
  BY <1>3 DEF Lists
<1>7. \A u \in Txs : Finished(u) => Kept(u)' = Kept(u)
  BY DEF Kept, KeepsNonce
<1>8. Fresh(committed)'
  <2>1. \A i \in DOMAIN committed : committed[i] \in Txs /\ Finished(committed[i])
    BY <1>3 DEF Lists, Elements
  <2>2. \A i, j \in DOMAIN committed : i < j =>
           Entries(Kept(committed[i])) \cap Entries(exec[committed[j]].rset.cache) = {}
    BY DEF Lists, Fresh
  <2>. QED
    BY <1>7, <2>1, <2>2 DEF Fresh
<1>. QED
  BY <1>4, <1>5, <1>6, <1>8 DEF Lists

\* A step of a goroutine keeps what is said of the block.
LEMMA BlockGoroutine ==
    ASSUME IInv, NEW t \in Txs, Goroutine(t)
    PROVE  Block'
<1>1. /\ phase = "running" /\ phase' \in {"running", "crashed"} /\ t \in Current
      /\ UNCHANGED <<block, mainVars>>
      /\ ~Finished(t) /\ \A u \in Txs : u # t => exec'[u] = exec[u]
      /\ arrived' = IF exec'[t].pc = "done" THEN Append(arrived, t) ELSE arrived
  BY GoroutineMoves DEF IInv
<1>2. UNCHANGED <<block, plan, level, order, written, committed, conflicts, results, retried>>
  BY <1>1 DEF mainVars
<1>3. Lists /\ Sets /\ Planned /\ Past /\ Ahead /\ Present /\ block \in Blocks
  BY DEF IInv, Block, Machine
<1>4. \A u \in Txs : Finished(u) => u # t /\ exec'[u] = exec[u] /\ Finished(u)'
  BY <1>1 DEF Finished
<1>5. PlanUpTo(Len(block), plan) /\ plan.maxLevel \in Nat /\ level \in 0 .. plan.maxLevel
      /\ t \in Level(level)
  <2>1. PlanUpTo(Len(block), plan) /\ level \in Nat /\ level <= plan.maxLevel
    BY <1>1, <1>3 DEF Planned
  <2>2. plan.maxLevel \in Nat
    BY <2>1, <1>3, LevelFacts
  <2>. QED
    BY <1>1, <2>1, <2>2, CurrentLevel
<1>6. \A l \in 0 .. plan.maxLevel : Level(l) \subseteq Txs /\ (t \in Level(l) => l = level)
  BY <1>3, <1>5, LevelFacts DEF Level
<1>7. Txs' = Txs /\ \A l : Level(l)' = Level(l)
  BY <1>2 DEF Txs, Level, Elements
<1>8. AllFinished(arrived)'
  <2>1. arrived \in Seq(Txs) /\ \A u \in Elements(arrived) : u \in Txs /\ Finished(u)
    BY <1>3 DEF Lists, AllFinished, Elements
  <2>2. CASE exec'[t].pc = "done"
    <3>1. arrived' \in Seq(Txs) /\ Elements(arrived') = Elements(arrived) \cup {t}
      BY <1>1, <2>1, <2>2, AppendLemma
    <3>2. Finished(t)'
      BY <2>2 DEF Finished
    <3>3. \A u \in Elements(arrived') : Finished(u)'
      BY <1>4, <2>1, <3>1, <3>2
    <3>. QED
      BY <1>7, <3>1, <3>3 DEF AllFinished, Elements
  <2>3. CASE exec'[t].pc # "done"
    BY <1>1, <1>4, <1>7, <2>1, <2>3 DEF AllFinished, Elements
  <2>. QED
    BY <2>2, <2>3
<1>9. Lists'
  BY <1>2, <1>3, <1>4, <1>8, ListsKept
<1>10. Sets'
  BY <1>1, <1>2, <1>3, <1>7 DEF Sets, Redoing
<1>11. Planned'
  <2>1. PlanUpTo(Len(block), plan)'
    BY <1>2, <1>5, PlanStays
  <2>. QED
    BY <1>1, <1>2, <1>3, <1>7, <2>1 DEF Planned, Joined
<1>12. Past'
  <2>. SUFFICES ASSUME NEW l \in 0 .. level - 1, NEW u \in Level(l)
                PROVE  Finished(u)' /\ (exec'[u].err \/ In(u, results))
    BY <1>2, <1>7 DEF Past, In
  <2>1. Finished(u) /\ (exec[u].err \/ In(u, results))
    BY <1>3 DEF Past
  <2>2. u \in Txs
    <3>1. l \in 0 .. plan.maxLevel
      BY <1>5
    <3>. QED
      BY <1>6, <3>1
  <2>. QED
    BY <1>4, <2>1, <2>2
<1>13. Ahead'
  <2>. SUFFICES ASSUME NEW l \in 0 .. plan.maxLevel, l > level, NEW u \in Level(l)
                PROVE  ~Finished(u)'
    BY <1>1, <1>2, <1>7 DEF Ahead
  <2>1. ~Finished(u) /\ u # t /\ u \in Txs
    BY <1>3, <1>5, <1>6 DEF Ahead
  <2>. QED
    BY <1>1, <2>1 DEF Finished
<1>14. Present'
  <2>. SUFFICES ASSUME NEW u \in Level(level), Finished(u)' PROVE u \in Elements(arrived)'
    BY <1>1, <1>2, <1>7 DEF Present, Joined, Redoing
  <2>0. u \in Txs /\ arrived \in Seq(Txs)
    BY <1>3, <1>5, <1>6 DEF Lists, AllFinished
  <2>1. CASE u = t
    <3>1. arrived' = Append(arrived, t)
      BY <1>1, <2>1 DEF Finished
    <3>2. Elements(arrived') = Elements(arrived) \cup {t}
      BY <2>0, <3>1, AppendLemma
    <3>. QED
      BY <2>1, <3>2 DEF Elements
  <2>2. CASE u # t
    <3>1. Finished(u)
      BY <1>1, <2>0, <2>2 DEF Finished
    <3>2. u \in Elements(arrived)
      BY <1>1, <1>3, <3>1 DEF Present
    <3>3. Elements(arrived') = Elements(arrived) \/ Elements(arrived') = Elements(arrived) \cup {t}
      BY <1>1, <2>0, AppendLemma
    <3>. QED
      BY <3>2, <3>3 DEF Elements
  <2>. QED
    BY <2>1, <2>2
<1>. QED
  BY <1>9, <1>10, <1>11, <1>12, <1>13, <1>14 DEF Block

-----------------------------------------------------------------------------
(* The initial state, and what the steps of the main goroutine keep.       *)

\* What the commit of w leaves of an account.
AccountAfter(state, w, a) ==
    IF a \notin DOMAIN w THEN state[a]
    ELSE LET m == w[a]
         IN  [bal   |-> (IF BalanceKey \in DOMAIN m THEN m[BalanceKey] ELSE state[a].bal)
                        - (IF SubBalanceKey \in DOMAIN m THEN m[SubBalanceKey] ELSE 0),
              nonce |-> IF NonceKey \in DOMAIN m THEN m[NonceKey] ELSE state[a].nonce]

\* The state a cache is committed to keeps its type.
LEMMA AppliedTypes ==
    ASSUME NEW state \in Objects, NEW w, GoodCache(w)
    PROVE  Applied(state, w) \in Objects
<1>1. ASSUME NEW a \in Account PROVE AccountAfter(state, w, a) \in [bal : Int, nonce : Nat]
  <2>1. state[a] \in [bal : Int, nonce : Nat]
    BY DEF Objects
  <2>2. CASE a \notin DOMAIN w
    BY <2>1, <2>2 DEF AccountAfter
  <2>3. CASE a \in DOMAIN w
    <3>. DEFINE m == w[a]
                bal == IF BalanceKey \in DOMAIN m THEN m[BalanceKey] ELSE state[a].bal
                sub == IF SubBalanceKey \in DOMAIN m THEN m[SubBalanceKey] ELSE 0
                nonce == IF NonceKey \in DOMAIN m THEN m[NonceKey] ELSE state[a].nonce
    <3>1. GoodMap(m)
      BY <2>3 DEF GoodCache
    <3>. HIDE DEF m
    <3>2. \A k \in DOMAIN m : m[k] \in IF k = NonceKey THEN Nat ELSE Int
      BY <3>1 DEF GoodMap
    <3>3. bal \in Int
      BY <2>1, <3>2, KeysAssumption
    <3>4. sub \in Int
      BY <3>2, KeysAssumption
    <3>5. nonce \in Nat
      BY <2>1, <3>2
    <3>6. AccountAfter(state, w, a) = [bal |-> bal - sub, nonce |-> nonce]
      BY <2>3, Zenon DEF m, AccountAfter
    <3>. HIDE DEF bal, sub, nonce
    <3>7. bal - sub \in Int
      BY <3>3, <3>4
    <3>. QED
      BY <3>5, <3>6, <3>7
  <2>. QED
    BY <2>2, <2>3
<1>2. Applied(state, w) = [a \in Account |-> AccountAfter(state, w, a)]
  BY Zenon DEF Applied, AccountAfter
<1>. QED
  BY <1>1, <1>2 DEF Objects

\* What a step keeps that changes neither the block nor the goroutines.
LEMMA ExecutionsKept ==
    ASSUME Executions, UNCHANGED <<block, exec>>
    PROVE  /\ Executions' /\ Txs' = Txs
           /\ \A t : Finished(t)' = Finished(t) /\ From(t)' = From(t)
           /\ \A s : AllFinished(s) => AllFinished(s)'
<1>1. Txs' = Txs /\ \A t \in Txs : From(t)' = From(t)
  BY DEF Txs, From
<1>2. \A t : Finished(t)' = Finished(t) /\ From(t)' = From(t)
  BY DEF Finished, From
<1>3. Executions'
  BY <1>1 DEF Executions
<1>4. \A s : AllFinished(s) => AllFinished(s)'
  BY <1>1, <1>2 DEF AllFinished, Elements
<1>. QED
  BY <1>1, <1>2, <1>3, <1>4

\* Initially.
LEMMA InitInvariant == Init => IInv
<1>. SUFFICES ASSUME Init PROVE IInv
  OBVIOUS
<1>1. block \in Blocks /\ phase = "fill" /\ level = 0 /\ gpVar = 0 /\ usedGas = 0
      /\ plan = [marks |-> [a \in Account |-> NoMark], items |-> NewItems, maxLevel |-> 0]
      /\ db = [a \in Account |-> [bal |-> Funds, nonce |-> 0]] /\ cp = db
      /\ pools = [p \in {0} \cup Txs |-> BlockGas] /\ exec = [t \in Txs |-> Idle]
      /\ arrived = <<>> /\ order = <<>> /\ committed = <<>> /\ conflicts = <<>> /\ results = <<>>
      /\ written = NoEntries /\ retried = NoEntries
  BY DEF Init
<1>2. Machine
  <2>1. Funds \in Nat /\ BlockGas \in 0 .. Wrap - 1 /\ 0 \in 0 .. Wrap - 1
    BY Constants
  <2>. QED
    BY <1>1, <2>1 DEF Machine, Objects, Phase
<1>3. Executions
  <2>1. GoodSet(NewSet) /\ Entries(NewSet.cache) = {} /\ 0 \in 0 .. Wrap - 1
    BY EmptySet, Constants
  <2>. QED
    BY <1>1, <2>1 DEF Executions, GoodExec, Idle, Fields, PC, Uncharged
<1>4. \A t \in Txs : ~Finished(t)
  BY <1>1 DEF Finished, Idle
<1>5. Elements(<<>>) = {} /\ AllFinished(<<>>) /\ DOMAIN NoEntries = {}
  BY DEF Elements, AllFinished, NoEntries
<1>6. Lists /\ Sets
  BY <1>1, <1>5 DEF Lists, Sets, Receipts, Fresh, GoodCache, Redoing
<1>7. PlanUpTo(0, plan)
  <2>. DEFINE marks == [a \in Account |-> NoMark]
  <2>1. NewItems \in Seq(Seq(Nat)) /\ Len(NewItems) = 2 /\ \A k \in DOMAIN NewItems : NewItems[k] = <<>>
    BY DEF NewItems
  <2>2. DOMAIN marks = Account /\ \A a \in Account : marks[a] = NoMark
    OBVIOUS
  <2>3. plan.marks = marks /\ plan.items = NewItems /\ plan.maxLevel = 0
    BY <1>1
  <2>4. \A k \in DOMAIN plan.items : DOMAIN plan.items[k] = {}
    BY <2>1, <2>3
  <2>5. Rising(plan)
    BY <2>4, Zenon DEF Rising
  <2>. HIDE DEF marks
  <2>. QED
    <3>1. AllPlaced(0, plan)
      BY DEF AllPlaced
    <3>2. plan.items \in Seq(Seq(Nat)) /\ plan.maxLevel \in Nat /\ plan.maxLevel + 1 <= Len(plan.items)
          /\ plan.maxLevel <= Larger(0 - 1, 0)
      <4>1. Larger(0 - 1, 0) = 0
        BY DEF Larger
      <4>2. Len(plan.items) = 2 /\ plan.items \in Seq(Seq(Nat))
        BY <2>1, <2>3, Zenon
      <4>. QED
        BY <2>3, <4>1, <4>2
    <3>3. DOMAIN plan.marks = Account /\ \A a \in Account : plan.marks[a] = NoMark
      BY <2>2, <2>3
    <3>. QED
      BY <2>4, <2>5, <3>1, <3>2, <3>3 DEF PlanUpTo
<1>8. Planned /\ Past /\ Present
  BY <1>1, <1>7 DEF Planned, Past, Present, Joined, Redoing
<1>9. Ahead
  <2>1. \A l \in 0 .. plan.maxLevel : ~(l > level \/ (l = level /\ phase = "level"))
    BY <1>1
  <2>. QED
    BY <1>4, <2>1 DEF Ahead
<1>. QED
  BY <1>2, <1>3, <1>6, <1>8, <1>9 DEF IInv, Block

\* The parts of the invariant.
LEMMA Parts ==
    ASSUME IInv
    PROVE  /\ Machine /\ Executions /\ Lists /\ Sets /\ Planned /\ Past /\ Ahead /\ Present
           /\ block \in Blocks /\ phase \in Phase /\ db \in Objects
           /\ plan.maxLevel \in Nat /\ level \in Nat
<1>1. /\ Machine /\ Executions /\ Lists /\ Sets /\ Planned /\ Past /\ Ahead /\ Present
      /\ block \in Blocks /\ phase \in Phase /\ db \in Objects
  BY DEF IInv, Block, Machine
<1>2. plan.maxLevel \in Nat /\ level \in Nat
  BY <1>1 DEF Planned, PlanUpTo
<1>. QED
  BY <1>1, <1>2

\* Filling the plan.
LEMMA KeptByFill == ASSUME IInv, Fill PROVE IInv'
<1>1. /\ Machine /\ Executions /\ Lists /\ Sets /\ Planned /\ Past /\ Ahead /\ Present
      /\ block \in Blocks
  BY Parts
<1>2. /\ phase = "fill" /\ phase' = "level"
      /\ UNCHANGED <<block, cp, gpVar, pools, exec, usedGas, arrived, level, db, order, written,
                     committed, conflicts, results, retried>>
  BY Zenon DEF Fill
<1>3. PlanUpTo(0, plan) /\ level = 0
  BY <1>1, <1>2 DEF Planned
<1>4. PlanUpTo(Len(block), plan')
  BY <1>1, <1>3, FillLemma
<1>5. /\ Executions' /\ Txs' = Txs /\ \A t : Finished(t)' = Finished(t)
      /\ \A s : AllFinished(s) => AllFinished(s)'
  BY <1>1, <1>2, ExecutionsKept
<1>6. Machine'
  BY <1>1, <1>2, <1>5 DEF Machine, Phase
<1>7. Lists'
  BY <1>1, <1>2, <1>5, ListsKept DEF Lists
<1>8. Sets'
  BY <1>1, <1>2, <1>5 DEF Sets, Redoing
<1>9. plan'.maxLevel \in Nat
      /\ \A l \in 0 .. plan'.maxLevel : Elements(plan'.items[l + 1]) \subseteq Txs
  BY <1>1, <1>4, LevelFacts
<1>10. Planned'
  <2>1. PlanUpTo(Len(block), plan)'
    BY <1>2, <1>4 DEF PlanUpTo, AllPlaced, Rising
  <2>. QED
    BY <1>2, <1>3, <1>9, <2>1 DEF Planned, Joined
<1>11. Past' /\ Present'
  BY <1>2, <1>3 DEF Past, Present, Joined, Redoing
<1>12. Ahead'
  <2>1. \A t \in Txs : ~Finished(t)
    BY <1>1, <1>2 DEF Ahead
  <2>2. \A l : Level(l)' = Elements(plan'.items[l + 1])
    BY DEF Level, Elements
  <2>. QED
    BY <1>2, <1>5, <1>9, <2>1, <2>2 DEF Ahead
<1>. QED
  BY <1>5, <1>6, <1>7, <1>8, <1>10, <1>11, <1>12 DEF IInv, Block

\* What a step of the main goroutine keeps that changes neither the block, the
\* plan, the loop variable nor the goroutines.
LEMMA PlanKept ==
    ASSUME IInv, UNCHANGED <<block, plan, level, exec>>, phase # "fill", phase' # "fill"
    PROVE  /\ Executions' /\ Txs' = Txs /\ \A t : Finished(t)' = Finished(t)
           /\ \A s : AllFinished(s) => AllFinished(s)'
           /\ \A l : Level(l)' = Level(l)
           /\ PlanUpTo(Len(block), plan)' /\ level' \in Nat /\ level' <= plan'.maxLevel + 1
           /\ plan.maxLevel \in Nat
           /\ (\A t : In(t, results) => In(t, results')) => Past'
           /\ phase' # "level" => Ahead'
<1>1. /\ Machine /\ Executions /\ Lists /\ Sets /\ Planned /\ Past /\ Ahead /\ Present
      /\ plan.maxLevel \in Nat
  BY Parts
<1>2. /\ Executions' /\ Txs' = Txs /\ \A t : Finished(t)' = Finished(t)
      /\ \A s : AllFinished(s) => AllFinished(s)'
  BY <1>1, ExecutionsKept
<1>3. \A l : Level(l)' = Level(l)
  BY DEF Level, Elements
<1>4. PlanUpTo(Len(block), plan)'
  BY <1>1, PlanStays DEF Planned
<1>5. level' \in Nat /\ level' <= plan'.maxLevel + 1
  BY <1>1 DEF Planned
<1>6. (\A t : In(t, results) => In(t, results')) => Past'
  <2>. SUFFICES ASSUME \A t : In(t, results) => In(t, results'),
                       NEW l \in 0 .. level - 1, NEW t \in Level(l)
                PROVE  Finished(t)' /\ (exec'[t].err \/ In(t, results'))
    BY <1>3 DEF Past, In
  <2>. QED
    BY <1>1, <1>2 DEF Past
<1>7. phase' # "level" => Ahead'
  BY <1>1, <1>2, <1>3 DEF Ahead
<1>. QED
  BY <1>1, <1>2, <1>3, <1>4, <1>5, <1>6, <1>7

\* Starting a level.
LEMMA KeptByStartLevel == ASSUME IInv, StartLevel PROVE IInv'
<1>1. /\ Machine /\ Executions /\ Lists /\ Sets /\ Planned /\ Past /\ Ahead /\ Present
      /\ db \in Objects
  BY Parts
<1>2. /\ phase = "level" /\ UNCHANGED <<block, gpVar, pools, exec, usedGas, plan, level, db, order,
                                        written, committed, conflicts, results, retried>>
      /\ \/ level < plan.maxLevel + 1 /\ phase' = "running" /\ cp' = db /\ arrived' = <<>>
         \/ phase' = "done" /\ UNCHANGED <<cp, arrived>>
  BY DEF StartLevel, GetMaxLevel, mainVars
<1>3. /\ Executions' /\ Txs' = Txs /\ \A t : Finished(t)' = Finished(t)
      /\ \A s : AllFinished(s) => AllFinished(s)'
      /\ \A l : Level(l)' = Level(l)
      /\ PlanUpTo(Len(block), plan)' /\ level' \in Nat /\ level' <= plan'.maxLevel + 1
      /\ plan.maxLevel \in Nat
  BY <1>2, PlanKept
<1>4. Past' /\ Ahead'
  BY <1>2, PlanKept
<1>5. Machine'
  BY <1>1, <1>2, <1>3 DEF Machine, Phase
<1>6. AllFinished(arrived)'
  <2>1. arrived' \in Seq(Txs) /\ \A i \in DOMAIN arrived' : exec[arrived'[i]].pc = "done"
    <3>1. arrived \in Seq(Txs) /\ \A i \in DOMAIN arrived : exec[arrived[i]].pc = "done"
      BY <1>1 DEF Lists, AllFinished, Elements, Finished
    <3>2. arrived' = <<>> \/ arrived' = arrived
      BY <1>2
    <3>3. CASE arrived' = <<>>
      BY <3>3
    <3>4. CASE arrived' = arrived
      BY <3>1, <3>4, Zenon
    <3>. QED
      BY <3>2, <3>3, <3>4
  <2>. QED
    BY <1>2, <1>3, <2>1 DEF AllFinished, Elements, Finished
<1>7. Lists'
  BY <1>1, <1>2, <1>6, ListsKept
<1>8. Sets'
  BY <1>1, <1>2, <1>3 DEF Sets, Redoing
<1>9. Planned'
  BY <1>1, <1>2, <1>3 DEF Planned, Joined
<1>10. Present'
  <2>1. CASE phase' = "done"
    BY <2>1 DEF Present, Joined, Redoing
  <2>2. CASE phase' = "running"
    <3>1. level \in 0 .. plan.maxLevel
      BY <1>2, <1>3, <2>2
    <3>2. \A t \in Level(level) : ~Finished(t)
      BY <1>1, <1>2, <3>1 DEF Ahead
    <3>. QED
      BY <1>2, <1>3, <2>2, <3>2 DEF Present, Joined, Redoing
  <2>. QED
    BY <1>2, <2>1, <2>2
<1>. QED
  BY <1>3, <1>4, <1>5, <1>7, <1>8, <1>9, <1>10 DEF IInv, Block

\* Joining the goroutines of a level.
LEMMA KeptByJoin == ASSUME IInv, Join PROVE IInv'
<1>1. /\ Machine /\ Executions /\ Lists /\ Sets /\ Planned /\ Past /\ Ahead /\ Present
      /\ block \in Blocks
  BY Parts
<1>2. /\ phase = "running" /\ phase' = "detect" /\ Current # {}
      /\ \A t \in Current : exec[t].pc = "done"
      /\ UNCHANGED <<block, cp, gpVar, pools, exec, usedGas, arrived, plan, level, db, written,
                     committed, conflicts, results, retried>>
  BY Zenon DEF Join
<1>3. /\ Executions' /\ Txs' = Txs /\ \A t : Finished(t)' = Finished(t)
      /\ \A s : AllFinished(s) => AllFinished(s)'
      /\ \A l : Level(l)' = Level(l)
      /\ PlanUpTo(Len(block), plan)' /\ level' \in Nat /\ level' <= plan'.maxLevel + 1
      /\ plan.maxLevel \in Nat
  BY <1>2, PlanKept
<1>4. Past' /\ Ahead'
  BY <1>2, PlanKept
<1>5. Machine'
  BY <1>1, <1>2, <1>3 DEF Machine, Phase
<1>6. arrived \in Seq(Txs) /\ \A t \in Elements(arrived) : Finished(t)
  BY <1>1 DEF Lists, AllFinished
<1>7. order' \in Seq(Txs) /\ Elements(order') = Elements(arrived)
  BY <1>6, OrderLemma
<1>8. AllFinished(order)'
  <2>1. \A i \in DOMAIN order' : order'[i] \in Elements(arrived)
    BY <1>7 DEF Elements
  <2>. QED
    BY <1>3, <1>6, <1>7, <2>1 DEF AllFinished, Elements
<1>9. Lists'
  <2>1. AllFinished(arrived)' /\ AllFinished(committed)' /\ AllFinished(conflicts)'
    BY <1>1, <1>2, <1>3 DEF Lists, AllFinished, Elements
  <2>2. Receipts' /\ \A t \in Elements(conflicts') : ~exec'[t].err
    BY <1>1, <1>2, <1>3 DEF Lists, Receipts
  <2>3. Fresh(committed)'
    BY <1>1, <1>2 DEF Lists, Fresh, Kept, KeepsNonce
  <2>. QED
    BY <1>8, <2>1, <2>2, <2>3 DEF Lists
<1>10. Sets'
  BY <1>1, <1>2, <1>3 DEF Sets, Redoing
<1>11. level \in 0 .. plan.maxLevel /\ Current = Level(level)
  BY <1>1, <1>2, <1>3, CurrentLevel DEF Planned
<1>12. Txs # {}
  <2>1. Level(level) \subseteq Txs
    BY <1>1, <1>2, <1>11, LevelFacts DEF Planned, Level
  <2>. QED
    BY <1>2, <1>11, <2>1
<1>13. Planned'
  BY <1>1, <1>2, <1>3, <1>12 DEF Planned, Joined
<1>14. Present'
  <2>1. \A t \in Level(level) : Finished(t)
    BY <1>2, <1>11 DEF Finished
  <2>2. \A t \in Level(level) : t \in Elements(order')
    BY <1>1, <1>2, <1>7, <2>1 DEF Present
  <2>. QED
    BY <1>2, <1>3, <2>1, <2>2 DEF Present, Joined, Redoing, Elements
<1>. QED
  BY <1>3, <1>4, <1>5, <1>9, <1>10, <1>13, <1>14 DEF IInv, Block

\* DetectConflicts and the commit.
LEMMA KeptByDetect == ASSUME IInv, Detect PROVE IInv'
<1>1. /\ Machine /\ Executions /\ Lists /\ Sets /\ Planned /\ Past /\ Ahead /\ Present
      /\ block \in Blocks /\ db \in Objects
  BY Parts
<1>. DEFINE end == DetectEnd
<1>2. /\ phase = "detect" /\ phase' \in {"stuck", "redo"}
      /\ db' = Applied(db, end.written) /\ written' = end.written /\ committed' = end.committed
      /\ conflicts' = end.conflicts /\ results' = end.results
      /\ UNCHANGED <<block, cp, gpVar, pools, exec, usedGas, arrived, plan, level, order, retried>>
  <2>1. phase' = IF DOMAIN end.written = {} THEN "stuck" ELSE "redo"
    BY Zenon DEF Detect, DetectEnd, DetectStart
  <2>. HIDE DEF end
  <2>. QED
    BY <2>1, Zenon DEF Detect, DetectEnd, DetectStart, end
<1>3. DetectUpTo(Len(order), end)
  <2>1. /\ AllFinished(order) /\ results \in Seq(Txs \X BOOLEAN)
        /\ \A i \in DOMAIN results : Finished(results[i][1]) /\ ~exec[results[i][1]].err
    BY <1>1 DEF Lists, Receipts
  <2>. QED
    BY <1>1, <2>1, DetectLemma
<1>. HIDE DEF end
<1>4. /\ Executions' /\ Txs' = Txs /\ \A t : Finished(t)' = Finished(t)
      /\ \A s : AllFinished(s) => AllFinished(s)'
      /\ \A l : Level(l)' = Level(l)
      /\ PlanUpTo(Len(block), plan)' /\ level' \in Nat /\ level' <= plan'.maxLevel + 1
      /\ plan.maxLevel \in Nat
  BY <1>2, PlanKept
<1>5. /\ GoodCache(end.written)
      /\ end.committed \in Seq(Elements(order)) /\ end.conflicts \in Seq(Elements(order))
      /\ end.results \in Seq(Txs \X BOOLEAN)
      /\ \A i \in DOMAIN end.results : Finished(end.results[i][1]) /\ ~exec[end.results[i][1]].err
      /\ \A i \in 1 .. Len(order) : \/ order[i] \in Elements(end.conflicts)
                                    \/ exec[order[i]].err
                                    \/ In(order[i], end.results)
      /\ \A t : In(t, results) => In(t, end.results)
      /\ \A t \in Elements(end.conflicts) : ~exec[t].err
      /\ end.conflicts # <<>> => end.results # <<>>
      /\ Fresh(end.committed)
  BY <1>3, Zenon DEF DetectUpTo
<1>6. Past' /\ Ahead'
  BY <1>2, <1>5, PlanKept
<1>7. Machine'
  <2>1. db' \in Objects
    BY <1>1, <1>2, <1>5, AppliedTypes
  <2>. QED
    BY <1>1, <1>2, <1>4, <2>1 DEF Machine, Phase
<1>8. Lists'
  <2>1. order \in Seq(Txs) /\ \A t \in Elements(order) : t \in Txs /\ exec[t].pc = "done"
    BY <1>1 DEF Lists, AllFinished, Elements, Finished
  <2>2. ASSUME NEW s \in Seq(Elements(order))
        PROVE  s \in Seq(Txs) /\ \A i \in DOMAIN s : exec[s[i]].pc = "done"
    BY <2>1
  <2>3. AllFinished(committed)' /\ AllFinished(conflicts)'
    <3>1. /\ end.committed \in Seq(Elements(order)) /\ end.conflicts \in Seq(Elements(order))
          /\ committed' = end.committed /\ conflicts' = end.conflicts
          /\ exec' = exec /\ Txs' = Txs
      BY <1>2, <1>4, <1>5
    <3>2. /\ committed' \in Seq(Txs) /\ \A i \in DOMAIN committed' : exec'[committed'[i]].pc = "done"
          /\ conflicts' \in Seq(Txs) /\ \A i \in DOMAIN conflicts' : exec'[conflicts'[i]].pc = "done"
      BY <2>2, <3>1
    <3>. QED
      BY <3>1, <3>2 DEF AllFinished, Elements, Finished
  <2>4. AllFinished(arrived)' /\ AllFinished(order)'
    BY <1>1, <1>2, <1>4 DEF Lists, AllFinished, Elements
  <2>5. Receipts'
    <3>1. \A i \in DOMAIN end.results : exec[end.results[i][1]].pc = "done" /\ ~exec[end.results[i][1]].err
      BY <1>5 DEF Finished
    <3>. QED
      BY <1>2, <1>4, <1>5, <3>1 DEF Receipts, Finished
  <2>6. Fresh(committed)'
    BY <1>2, <1>5 DEF Fresh, Kept, KeepsNonce
  <2>7. \A t \in Elements(conflicts') : ~exec'[t].err
    BY <1>2, <1>5
  <2>. QED
    BY <2>3, <2>4, <2>5, <2>6, <2>7 DEF Lists, Elements
<1>9. Sets'
  BY <1>1, <1>2, <1>4, <1>5 DEF Sets, Redoing
<1>10. Planned'
  BY <1>1, <1>2, <1>4 DEF Planned, Joined
<1>11. Present'
  <2>1. \A t \in Level(level) : Finished(t) /\ t \in Elements(order)
    BY <1>1, <1>2 DEF Present, Joined
  <2>2. DOMAIN order = 1 .. Len(order)
    BY <1>1 DEF Lists, AllFinished
  <2>3. \A t \in Level(level) : exec[t].err \/ In(t, end.results) \/ t \in Elements(end.conflicts)
    BY <1>5, <2>1, <2>2 DEF Elements
  <2>. QED
    BY <1>2, <1>4, <2>1, <2>3 DEF Present, Joined, Redoing, In, Elements
<1>. QED
  BY <1>4, <1>6, <1>7, <1>8, <1>9, <1>10, <1>11 DEF IInv, Block

\* The first conflicting transaction.
LEMMA HeadLemma ==
    ASSUME Lists, conflicts # <<>>
    PROVE  /\ Head(conflicts) \in Txs /\ Finished(Head(conflicts)) /\ ~exec[Head(conflicts)].err
           /\ AllFinished(Tail(conflicts))
           /\ Elements(conflicts) = {Head(conflicts)} \cup Elements(Tail(conflicts))
<1>. DEFINE h == Head(conflicts)
            r == Tail(conflicts)
<1>1. conflicts \in Seq(Txs) /\ \A t \in Elements(conflicts) : Finished(t) /\ ~exec[t].err
  BY DEF Lists, AllFinished
<1>2. Len(conflicts) \in Nat /\ Len(conflicts) > 0 /\ DOMAIN conflicts = 1 .. Len(conflicts)
      /\ h = conflicts[1] /\ h \in Txs
      /\ r \in Seq(Txs) /\ DOMAIN r = 1 .. Len(conflicts) - 1
      /\ \A i \in 1 .. Len(conflicts) - 1 : r[i] = conflicts[i + 1]
  BY <1>1
<1>. HIDE DEF h, r
<1>3. /\ 1 \in DOMAIN conflicts
      /\ \A i \in DOMAIN r : i + 1 \in DOMAIN conflicts
      /\ \A i \in DOMAIN conflicts : i # 1 => i - 1 \in DOMAIN r /\ (i - 1) + 1 = i
  BY <1>2
<1>4. ASSUME NEW i \in DOMAIN conflicts PROVE conflicts[i] \in {h} \cup Elements(r)
  <2>1. CASE i = 1
    BY <1>2, <2>1
  <2>2. CASE i # 1
    <3>1. i - 1 \in DOMAIN r /\ (i - 1) + 1 = i
      BY <1>3, <2>2
    <3>2. r[i - 1] = conflicts[i]
      BY <1>2, <3>1
    <3>. QED
      BY <3>1, <3>2 DEF Elements
  <2>. QED
    BY <2>1, <2>2
<1>5. Elements(conflicts) = {h} \cup Elements(r)
  BY <1>2, <1>3, <1>4 DEF Elements
<1>6. AllFinished(r)
  BY <1>1, <1>2, <1>5 DEF AllFinished
<1>. QED
  BY <1>1, <1>2, <1>5, <1>6 DEF h, r

\* What the execution of a transaction that conflicted keeps, whatever it does to
\* the pools and to the state, as long as it keeps the lists, the results and the
\* conflicts.
LEMMA RedoKept ==
    ASSUME IInv, phase \in Redoing, phase' \in Redoing \cup {"crashed"},
           UNCHANGED <<block, cp, gpVar, exec, usedGas, arrived, plan, level, order, committed,
                       results, conflicts>>,
           db' \in Objects, pools' \in [{0} \cup Txs -> 0 .. Wrap - 1], Sets'
    PROVE  IInv'
<1>1. Machine /\ Executions /\ Lists /\ Planned /\ Present
  BY Parts
<1>2. phase # "fill" /\ phase' # "fill" /\ phase' # "level"
  BY DEF Redoing
<1>3. /\ Executions' /\ Txs' = Txs /\ \A t : Finished(t)' = Finished(t)
      /\ \A s : AllFinished(s) => AllFinished(s)'
      /\ \A l : Level(l)' = Level(l)
      /\ PlanUpTo(Len(block), plan)' /\ level' \in Nat /\ level' <= plan'.maxLevel + 1
      /\ plan.maxLevel \in Nat
  BY <1>2, PlanKept
<1>4. Past' /\ Ahead'
  BY <1>2, PlanKept
<1>5. Machine'
  BY <1>1, <1>3 DEF Machine, Phase, Redoing
<1>6. Lists'
  <2>1. AllFinished(arrived)'
    BY <1>1, <1>3 DEF Lists, AllFinished, Elements
  <2>. QED
    BY <1>1, <2>1, ListsKept
<1>7. Planned'
  BY <1>1, <1>3 DEF Planned, Joined, Redoing
<1>8. Present'
  BY <1>1, <1>3 DEF Present, Joined, Redoing, In, Elements
<1>. QED
  BY <1>3, <1>4, <1>5, <1>6, <1>7, <1>8 DEF IInv, Block

\* The gas is bought once more.
LEMMA KeptByReBuyGas == ASSUME IInv, ReBuyGas PROVE IInv'
<1>. DEFINE t == Head(conflicts)
            gas == exec[results[1][1]].gas
            given == pools[gpVar] + gas
            cost == TxGas * Price
            w == WriteUpdate(NewSet, From(t), SubBalanceKey, cost, 0)
            paid == [db EXCEPT ![From(t)].bal = 2 * Want(t)]
<1>1. Machine /\ Executions /\ Lists /\ Sets
  BY Parts
<1>2. /\ phase = "redo" /\ conflicts # <<>>
      /\ UNCHANGED <<block, cp, gpVar, exec, usedGas, arrived, plan, level, order, written,
                     committed, conflicts, results>>
      /\ \/ /\ phase' = "crashed" /\ UNCHANGED <<pools, retried>>
            /\ db' = db \/ db' = paid
         \/ /\ phase' = "reCall" /\ db' = paid
            /\ ~Overflows(pools[gpVar], gas) /\ ~(given < TxGas)
            /\ pools' = [pools EXCEPT ![gpVar] = given - TxGas]
            /\ retried' = Put(retried, t, w)
  BY DEF ReBuyGas
<1>3. t \in Txs /\ From(t) \in Account /\ Want(t) \in Nat
  BY <1>1, <1>2, HeadLemma, AtLemma
<1>4. gas \in Nat
  <2>1. results \in Seq(Txs \X BOOLEAN) /\ results # <<>>
    BY <1>1, <1>2 DEF Lists, Receipts, Sets, Redoing
  <2>2. results[1][1] \in Txs
    <3>1. 1 \in 1 .. Len(results)
      BY <2>1
    <3>2. results[1] \in Txs \X BOOLEAN
      BY <2>1, <3>1, ElementOfSeq
    <3>. QED
      BY <3>2
  <2>. QED
    BY <1>1, <2>2 DEF Executions, GoodExec
<1>5. db \in Objects /\ paid \in Objects
  <2>1. db \in Objects /\ 2 * Want(t) \in Int
    BY <1>1, <1>3 DEF Machine
  <2>. QED
    BY <1>3, <2>1 DEF Objects
<1>6. GoodSet(w)
  <2>1. cost \in Int /\ 0 \in Int /\ GoodSet(NewSet)
    BY Amounts, EmptySet
  <2>2. SubBalanceKey \in Keys /\ SubBalanceKey # NonceKey
    BY KeysAssumption DEF Keys
  <2>. HIDE DEF cost
  <2>. QED
    BY <1>3, <2>1, <2>2, WriteLemma
<1>. HIDE DEF w, paid, t
<1>7. db' \in Objects
  BY <1>2, <1>5
<1>8. pools' \in [{0} \cup Txs -> 0 .. Wrap - 1]
  <2>1. pools \in [{0} \cup Txs -> 0 .. Wrap - 1] /\ gpVar \in {0} \cup Txs
        /\ pools[gpVar] \in 0 .. Wrap - 1
    BY <1>1 DEF Machine
  <2>2. Wrap \in Nat /\ TxGas \in Nat
    BY Constants
  <2>. HIDE DEF gas
  <2>3. ~Overflows(pools[gpVar], gas) /\ ~(given < TxGas) => given - TxGas \in 0 .. Wrap - 1
    BY <1>4, <2>1, <2>2 DEF Overflows
  <2>. HIDE DEF given
  <2>. QED
    BY <1>2, <2>1, <2>3
<1>9. Txs' = Txs
  BY <1>2 DEF Txs
<1>10. Sets'
  <2>1. CASE phase' = "crashed"
    BY <1>1, <1>2, <1>9, <2>1 DEF Sets, Redoing
  <2>2. CASE phase' = "reCall"
    <3>1. DOMAIN retried' = DOMAIN retried \cup {t} /\ retried'[t] = w
          /\ \A u \in DOMAIN retried : u # t => retried'[u] = retried[u]
      BY <1>2, <2>2 DEF Put
    <3>. QED
      BY <1>1, <1>2, <1>3, <1>6, <1>9, <2>2, <3>1 DEF Sets, Redoing, t
  <2>. QED
    BY <1>2, <2>1, <2>2
<1>11. phase \in Redoing /\ phase' \in Redoing \cup {"crashed"}
  BY <1>2 DEF Redoing
<1>. QED
  BY <1>2, <1>7, <1>8, <1>10, <1>11, RedoKept

\* The call is made once more.
LEMMA KeptByReCall == ASSUME IInv, ReCall PROVE IInv'
<1>. DEFINE t == Head(conflicts)
            charged == WriteUpdate(retried[t], From(t), SubBalanceKey, Value(t), 0)
            next == db[From(t)].nonce + 1
            counted == WriteUpdate(charged, From(t), NonceKey, next, 0)
            w == IF Value(t) > 0 THEN Transfer(counted, t, db[To(t)].bal) ELSE counted
<1>1. Machine /\ Executions /\ Lists /\ Sets
  BY Parts
<1>2. /\ phase = "reCall" /\ phase' = "reCommit" /\ retried' = Put(retried, t, w)
      /\ UNCHANGED <<block, cp, gpVar, pools, exec, usedGas, arrived, plan, level, db, order, written,
                     committed, conflicts, results>>
  BY DEF ReCall
<1>3. conflicts # <<>> /\ t \in DOMAIN retried /\ GoodSet(retried[t])
  BY <1>1, <1>2 DEF Sets
<1>4. t \in Txs /\ From(t) \in Account /\ To(t) \in Account /\ Value(t) \in Nat /\ next \in Nat
      /\ db[To(t)].bal \in Int
  <2>1. t \in Txs
    BY <1>1, <1>3, HeadLemma
  <2>. QED
    BY <1>1, <2>1, AtLemma
<1>5. {SubBalanceKey, NonceKey} \subseteq Keys /\ SubBalanceKey # NonceKey
  BY KeysAssumption DEF Keys
<1>. HIDE DEF t, next
<1>6. GoodSet(charged)
  <2>1. Value(t) \in Int /\ 0 \in Int /\ SubBalanceKey \in Keys
    BY <1>4, <1>5
  <2>. QED
    BY <1>3, <1>4, <1>5, <2>1, WriteLemma
<1>. HIDE DEF charged
<1>7. GoodSet(counted)
  <2>1. next \in Int /\ 0 \in Int /\ NonceKey \in Keys
    BY <1>4, <1>5
  <2>. QED
    BY <1>4, <1>6, <2>1, WriteLemma
<1>. HIDE DEF counted
<1>8. GoodSet(w)
  BY <1>1, <1>4, <1>7, TransferLemma
<1>. HIDE DEF w
<1>9. Txs' = Txs
  BY <1>2 DEF Txs
<1>10. Sets'
  <2>1. DOMAIN retried' = DOMAIN retried \cup {t} /\ retried'[t] = w
        /\ \A u \in DOMAIN retried : u # t => retried'[u] = retried[u]
    BY <1>2 DEF Put
  <2>. QED
    BY <1>1, <1>2, <1>3, <1>4, <1>8, <1>9, <2>1 DEF Sets, Redoing, t
<1>11. phase \in Redoing /\ phase' \in Redoing \cup {"crashed"}
  BY <1>2 DEF Redoing
<1>12. db' \in Objects /\ pools' \in [{0} \cup Txs -> 0 .. Wrap - 1]
  BY <1>1, <1>2 DEF Machine
<1>. QED
  BY <1>2, <1>10, <1>11, <1>12, RedoKept

\* The transaction executed again is committed.
LEMMA KeptByReCommit == ASSUME IInv, ReCommit PROVE IInv'
<1>. DEFINE t == Head(conflicts)
            back == Refunded(retried[t], t, db[From(t)].bal)
            w == Tipped(back, db[Coinbase].bal)
<1>1. /\ Machine /\ Executions /\ Lists /\ Sets /\ Planned /\ Past /\ Ahead /\ Present
      /\ db \in Objects
  BY Parts
<1>2. /\ phase = "reCommit"
      /\ UNCHANGED <<block, cp, gpVar, exec, usedGas, arrived, plan, level, order, committed>>
      /\ \/ phase' = "crashed" /\ UNCHANGED <<pools, retried, written, db, results, conflicts>>
         \/ /\ phase' = "redo" /\ ~Overflows(pools[gpVar], Left)
            /\ pools' = [pools EXCEPT ![gpVar] = pools[gpVar] + Left]
            /\ retried' = Put(retried, t, w)
            /\ written' = retried'[t].cache
            /\ db' = Applied(db, written')
            /\ results' = Append(results, <<t, TRUE>>)
            /\ conflicts' = Tail(conflicts)
  BY DEF ReCommit
<1>3. phase \in Redoing /\ phase # "fill" /\ phase' # "fill" /\ phase' # "level"
  BY <1>2 DEF Redoing
<1>4. conflicts # <<>> /\ t \in DOMAIN retried /\ GoodSet(retried[t])
  BY <1>1, <1>2 DEF Sets
<1>5. /\ t \in Txs /\ Finished(t) /\ ~exec[t].err /\ AllFinished(Tail(conflicts))
      /\ Elements(conflicts) = {t} \cup Elements(Tail(conflicts))
  BY <1>1, <1>4, HeadLemma
<1>6. From(t) \in Account /\ db[From(t)].bal \in Int /\ db[Coinbase].bal \in Int
  BY <1>1, <1>5, AtLemma, Constants
<1>7. GoodSet(w)
  <2>. HIDE DEF t
  <2>1. GoodSet(back)
    BY <1>1, <1>4, <1>5, <1>6, RefundedLemma DEF Credited
  <2>. HIDE DEF back
  <2>. QED
    BY <1>6, <2>1, TippedLemma DEF Credited
<1>. HIDE DEF w, back
<1>8. CASE phase' = "crashed"
  <2>1. UNCHANGED <<pools, retried, written, db, results, conflicts>>
    BY <1>2, <1>8
  <2>2. Txs' = Txs
    BY <1>2 DEF Txs
  <2>3. Sets'
    BY <1>1, <1>8, <2>1, <2>2 DEF Sets, Redoing
  <2>4. db' \in Objects /\ pools' \in [{0} \cup Txs -> 0 .. Wrap - 1]
    BY <1>1, <2>1 DEF Machine
  <2>. QED
    BY <1>2, <1>3, <1>8, <2>1, <2>3, <2>4, RedoKept
<1>9. CASE phase' = "redo"
  <2>1. /\ ~Overflows(pools[gpVar], Left)
        /\ pools' = [pools EXCEPT ![gpVar] = pools[gpVar] + Left]
        /\ retried' = Put(retried, t, w) /\ written' = retried'[t].cache
        /\ db' = Applied(db, written')
        /\ results' = Append(results, <<t, TRUE>>) /\ conflicts' = Tail(conflicts)
    BY <1>2, <1>9
  <2>2. /\ Executions' /\ Txs' = Txs /\ \A u : Finished(u)' = Finished(u)
        /\ \A s : AllFinished(s) => AllFinished(s)'
        /\ \A l : Level(l)' = Level(l)
        /\ PlanUpTo(Len(block), plan)' /\ level' \in Nat /\ level' <= plan'.maxLevel + 1
        /\ plan.maxLevel \in Nat
        /\ (\A u : In(u, results) => In(u, results')) => Past'
        /\ phase' # "level" => Ahead'
    BY <1>2, <1>3, PlanKept
  <2>. HIDE DEF t
  <2>3. DOMAIN retried' = DOMAIN retried \cup {t} /\ retried'[t] = w
        /\ \A u \in DOMAIN retried : u # t => retried'[u] = retried[u]
    BY <2>1 DEF Put
  <2>4. GoodCache(written')
    BY <1>7, <2>1, <2>3 DEF GoodSet
  <2>5. Machine'
    <3>1. db' \in Objects
      BY <1>1, <2>1, <2>4, AppliedTypes
    <3>2. pools \in [{0} \cup Txs -> 0 .. Wrap - 1] /\ gpVar \in {0} \cup Txs
          /\ pools[gpVar] \in 0 .. Wrap - 1 /\ Wrap \in Nat /\ Left \in Nat
      BY <1>1, Constants, Amounts DEF Machine
    <3>3. pools[gpVar] + Left \in 0 .. Wrap - 1
      BY <2>1, <3>2 DEF Overflows
    <3>4. pools' \in [{0} \cup Txs -> 0 .. Wrap - 1]
      BY <2>1, <3>2, <3>3
    <3>. QED
      BY <1>1, <1>2, <1>9, <2>2, <3>1, <3>4 DEF Machine, Phase
  <2>6. /\ results' \in Seq(Txs \X BOOLEAN) /\ results' # <<>>
        /\ \A i \in DOMAIN results' : i \in DOMAIN results \/ i = Len(results) + 1
        /\ \A i \in DOMAIN results : i \in DOMAIN results' /\ results'[i] = results[i]
        /\ Len(results) + 1 \in DOMAIN results' /\ results'[Len(results) + 1][1] = t
    <3>. DEFINE x == <<t, TRUE>>
    <3>1. results \in Seq(Txs \X BOOLEAN)
      BY <1>1 DEF Lists, Receipts
    <3>2. x \in Txs \X BOOLEAN /\ x[1] = t /\ results' = Append(results, x)
      BY <1>5, <2>1
    <3>. HIDE DEF x
    <3>3. /\ results' \in Seq(Txs \X BOOLEAN) /\ Len(results') = Len(results) + 1
          /\ \A i \in 1 .. Len(results) : results'[i] = results[i]
          /\ results'[Len(results) + 1] = x
      BY <3>1, <3>2, AppendLemma
    <3>4. DOMAIN results = 1 .. Len(results) /\ DOMAIN results' = 1 .. Len(results) + 1
          /\ Len(results) \in Nat
      BY <3>1, <3>3
    <3>. QED
      BY <3>2, <3>3, <3>4
  <2>7. In(t, results') /\ \A u : In(u, results) => In(u, results')
    BY <2>6 DEF In
  <2>8. Past' /\ Ahead'
    BY <1>3, <2>2, <2>7
  <2>9. Receipts'
    <3>1. \A i \in DOMAIN results : exec[results[i][1]].pc = "done" /\ ~exec[results[i][1]].err
      BY <1>1 DEF Lists, Receipts, Finished
    <3>2. exec[t].pc = "done" /\ ~exec[t].err
      BY <1>5 DEF Finished
    <3>3. \A i \in DOMAIN results' : exec'[results'[i][1]].pc = "done" /\ ~exec'[results'[i][1]].err
      BY <1>2, <2>6, <3>1, <3>2
    <3>. QED
      BY <2>2, <2>6, <3>3 DEF Receipts, Finished
  <2>10. Lists'
    <3>1. AllFinished(arrived)' /\ AllFinished(order)' /\ AllFinished(committed)'
      BY <1>1, <1>2, <2>2 DEF Lists, AllFinished, Elements
    <3>2. AllFinished(conflicts)'
      <4>1. Tail(conflicts) \in Seq(Txs) /\ \A u \in Elements(Tail(conflicts)) : exec[u].pc = "done"
        BY <1>5 DEF AllFinished, Finished
      <4>2. conflicts' \in Seq(Txs') /\ \A u \in Elements(conflicts') : exec'[u].pc = "done"
        BY <1>2, <2>1, <2>2, <4>1
      <4>. QED
        BY <4>2 DEF AllFinished, Finished, Elements
    <3>3. \A u \in Elements(conflicts') : ~exec'[u].err
      BY <1>1, <1>2, <1>5, <2>1 DEF Lists
    <3>4. Fresh(committed)'
      BY <1>1, <1>2 DEF Lists, Fresh, Kept, KeepsNonce
    <3>. QED
      BY <2>9, <3>1, <3>2, <3>3, <3>4 DEF Lists, Elements
  <2>11. Sets'
    BY <1>1, <1>5, <1>7, <1>9, <2>2, <2>3, <2>4, <2>6 DEF Sets, Redoing
  <2>12. Planned'
    BY <1>1, <1>2, <1>3, <1>9, <2>2 DEF Planned, Joined, Redoing
  <2>13. Present'
    <3>1. \A u \in Level(level) : Finished(u)
      BY <1>1, <1>2 DEF Present, Joined
    <3>2. \A u \in Level(level) : exec[u].err \/ In(u, results) \/ u \in {t} \cup Elements(Tail(conflicts))
      BY <1>1, <1>3, <1>5 DEF Present
    <3>3. \A u \in Level(level) : exec[u].err \/ In(u, results') \/ u \in Elements(conflicts')
      BY <2>1, <2>7, <3>2
    <3>. QED
      BY <1>2, <1>9, <2>2, <3>1, <3>3 DEF Present, Joined, Redoing, In, Elements
  <2>. QED
    BY <2>2, <2>5, <2>8, <2>10, <2>11, <2>12, <2>13 DEF IInv, Block
<1>. QED
  BY <1>2, <1>8, <1>9

\* The next level.
LEMMA KeptByNextLevel == ASSUME IInv, NextLevel PROVE IInv'
<1>1. /\ Machine /\ Executions /\ Lists /\ Sets /\ Planned /\ Past /\ Ahead /\ Present
      /\ block \in Blocks /\ level \in Nat /\ plan.maxLevel \in Nat
  BY Parts
<1>2. /\ phase = "redo" /\ conflicts = <<>> /\ phase' = "level" /\ level' = level + 1
      /\ UNCHANGED <<block, cp, gpVar, pools, exec, usedGas, arrived, plan, db, order, written,
                     committed, conflicts, results, retried>>
  BY DEF NextLevel
<1>3. /\ Executions' /\ Txs' = Txs /\ \A t : Finished(t)' = Finished(t)
      /\ \A s : AllFinished(s) => AllFinished(s)'
  BY <1>1, <1>2, ExecutionsKept
<1>4. Machine'
  BY <1>1, <1>2, <1>3 DEF Machine, Phase
<1>5. Lists'
  <2>1. AllFinished(arrived)'
    BY <1>1, <1>2, <1>3 DEF Lists, AllFinished, Elements
  <2>. QED
    BY <1>1, <1>2, <2>1, ListsKept
<1>6. Sets'
  BY <1>1, <1>2, <1>3 DEF Sets, Redoing
<1>7. Planned'
  <2>1. PlanUpTo(Len(block), plan)'
    BY <1>1, <1>2, PlanStays DEF Planned
  <2>. QED
    BY <1>1, <1>2, <1>3, <2>1 DEF Planned, Joined
<1>8. Past'
  <2>. SUFFICES ASSUME NEW l \in 0 .. level, NEW t \in Level(l)
                PROVE  Finished(t) /\ (exec[t].err \/ In(t, results))
    BY <1>1, <1>2 DEF Past, In, Level, Elements, Finished
  <2>1. CASE l \in 0 .. level - 1
    BY <1>1, <2>1 DEF Past
  <2>2. CASE l = level
    <3>1. Elements(conflicts) = {}
      BY <1>2 DEF Elements
    <3>. QED
      BY <1>1, <1>2, <2>2, <3>1 DEF Present, Joined, Redoing
  <2>. QED
    BY <1>1, <2>1, <2>2
<1>9. Ahead'
  <2>. SUFFICES ASSUME NEW l \in 0 .. plan.maxLevel, l > level, NEW t \in Level(l)
                PROVE  ~Finished(t)
    BY <1>1, <1>2 DEF Ahead, Level, Elements, Finished
  <2>. QED
    BY <1>1 DEF Ahead
<1>10. Present'
  BY <1>2 DEF Present, Joined, Redoing
<1>. QED
  BY <1>3, <1>4, <1>5, <1>6, <1>7, <1>8, <1>9, <1>10 DEF IInv, Block

\* A step that changes nothing.
LEMMA KeptByStuttering == ASSUME IInv, UNCHANGED vars PROVE IInv'
<1>1. UNCHANGED <<block, phase, plan, level, db, cp, gpVar, pools, exec, usedGas, arrived, order,
                  written, committed, conflicts, results, retried>>
  BY DEF vars, mainVars
<1>2. Executions' /\ Machine'
  BY <1>1, ExecutionsKept DEF IInv, Machine, Txs
<1>3. Lists'
  <2>1. AllFinished(arrived)'
    BY <1>1 DEF IInv, Block, Lists, AllFinished, Elements, Txs, Finished
  <2>. QED
    BY <1>1, <2>1, ListsKept DEF IInv, Block
<1>4. Sets' /\ Planned'
  BY <1>1 DEF IInv, Block, Sets, Planned, PlanUpTo, AllPlaced, Rising, Txs
<1>5. Past' /\ Ahead' /\ Present'
  BY <1>1 DEF IInv, Block, Past, Ahead, Present, Level, Elements, Finished, In, Txs
<1>. QED
  BY <1>2, <1>3, <1>4, <1>5 DEF IInv, Block

\* The invariant is inductive.
LEMMA NextInvariant == IInv /\ [Next]_vars => IInv'
<1>. SUFFICES ASSUME IInv, [Next]_vars PROVE IInv'
  OBVIOUS
<1>1. ASSUME NEW t \in Txs, Goroutine(t) PROVE IInv'
  BY <1>1, GoroutineKeeps, BlockGoroutine DEF IInv
<1>. QED
  BY <1>1, KeptByFill, KeptByStartLevel, KeptByJoin, KeptByDetect, KeptByReBuyGas, KeptByReCall,
     KeptByReCommit, KeptByNextLevel, KeptByStuttering DEF Next, Main

\* The invariant holds in every reachable state.
THEOREM Invariance == Spec => []IInv
BY InitInvariant, NextInvariant, PTL DEF Spec

\* Types; the counters of a read or write set count what is in its maps.
THEOREM TypeCorrectness == Spec => []TypeOK
<1>1. IInv => TypeOK
  <2>. SUFFICES ASSUME IInv PROVE TypeOK
    OBVIOUS
  <2>1. /\ Machine /\ Executions /\ Lists /\ Sets /\ Planned /\ block \in Blocks
        /\ plan.maxLevel \in Nat /\ level \in Nat
    BY Parts
  <2>2. level \in 0 .. Len(block)
    <3>1. CASE phase = "fill"
      BY <2>1, <3>1, BlockTypes DEF Planned
    <3>2. CASE phase # "fill"
      <4>1. plan.maxLevel <= Larger(Len(block) - 1, 0)
        BY <2>1, <3>2, LevelFacts DEF Planned
      <4>2. /\ level <= plan.maxLevel + 1 /\ (level > 0 => Txs # {})
            /\ Len(block) \in Nat /\ Txs = 1 .. Len(block)
        BY <2>1, BlockTypes DEF Planned
      <4>3. level > 0 => Len(block) > 0
        BY <4>2
      <4>. QED
        BY <2>1, <4>1, <4>2, <4>3 DEF Larger
    <3>. QED
      BY <3>1, <3>2
  <2>3. \A t \in Txs : /\ exec[t].pc \in PC /\ exec[t].pool \in {0} \cup Txs
                       /\ SetOf(exec[t].rset) /\ SetOf(exec[t].wset)
    BY <2>1 DEF Executions, GoodExec, GoodSet
  <2>4. \A i \in DOMAIN results : results[i] \in Txs \X BOOLEAN
    BY <2>1 DEF Lists, Receipts
  <2>5. (\A t \in DOMAIN retried : SetOf(retried[t])) /\ DOMAIN written \subseteq Account
    BY <2>1 DEF Sets, GoodSet, GoodCache
  <2>. QED
    BY <2>1, <2>2, <2>3, <2>4, <2>5 DEF TypeOK, Machine, Objects
<1>. QED
  BY <1>1, Invariance, PTL

\* No transaction is committed with its first execution that read an entry which
\* a transaction committed before it in the level has written: DetectConflicts
\* finds every such read, whatever the order of the answers (cacheSet.go:188-207).
THEOREM CommitsAreFresh == Spec => []CommittedReadsAreFresh
<1>1. IInv => CommittedReadsAreFresh
  BY DEF IInv, Block, Lists, Fresh, CommittedReadsAreFresh
<1>. QED
  BY <1>1, Invariance, PTL

\* When the block is done, every transaction that did not end in a consensus error
\* has a receipt: those committed at once and those executed again, none of which
\* gets lost between the lists (cacheSet.go:209-233, 252-253).
THEOREM ResultsAreComplete == Spec => []ReportedUnlessErred
<1>1. IInv => ReportedUnlessErred
  <2>. SUFFICES ASSUME IInv PROVE ReportedUnlessErred
    OBVIOUS
  <2>1. Lists /\ Past
    BY Parts
  <2>2. \A i \in DOMAIN results : ~exec[results[i][1]].err
    BY <2>1 DEF Lists, Receipts
  <2>3. ASSUME NEW l \in 0 .. level - 1, NEW i \in DOMAIN plan.items[l + 1]
        PROVE  Reported(plan.items[l + 1][i]) <=> ~Erred(plan.items[l + 1][i])
    <3>. DEFINE t == plan.items[l + 1][i]
    <3>1. t \in Level(l)
      BY DEF Level, Elements
    <3>. HIDE DEF t
    <3>2. Finished(t) /\ (exec[t].err \/ In(t, results))
      BY <2>1, <3>1 DEF Past
    <3>3. Reported(t) <=> ~Erred(t)
      BY <2>2, <3>2 DEF Reported, Erred, In
    <3>. QED
      BY <3>3 DEF t
  <2>. QED
    BY <2>2, <2>3 DEF ReportedUnlessErred
<1>. QED
  BY <1>1, Invariance, PTL

-----------------------------------------------------------------------------
(* The gas of the block.                                                   *)

\* Numbers that differ by a multiple of w have the same remainder.
LEMMA SameRemainder ==
    ASSUME NEW w \in Nat, w > 0, NEW a \in Int, NEW b \in Int, NEW q \in Int, a = b + w * q
    PROVE  a % w = b % w
<1>. DEFINE m == a \div w
            n == b \div w
            r == a % w
            s == b % w
<1>1. /\ m \in Int /\ n \in Int /\ r \in 0 .. w - 1 /\ s \in 0 .. w - 1
      /\ a = w * m + r /\ b = w * n + s
  OBVIOUS
<1>. HIDE DEF m, n, r, s
<1>. DEFINE d == (m - n) - q
<1>2. d \in Int /\ s - r = w * d
  BY <1>1
<1>. HIDE DEF d
<1>3. d = 0
  <2>1. s - r < w /\ s - r > -w
    BY <1>1
  <2>2. CASE d >= 1
    <3>1. w * d >= w
      BY <1>2, <2>2
    <3>. QED
      BY <1>2, <2>1, <3>1
  <2>3. CASE d <= -1
    <3>1. w * d <= -w
      BY <1>2, <2>3
    <3>. QED
      BY <1>2, <2>1, <3>1
  <2>. QED
    BY <1>2, <2>2, <2>3
<1>4. s - r = 0
  BY <1>2, <1>3
<1>5. r = s
  BY <1>1, <1>4
<1>. QED
  BY <1>5 DEF r, s

\* Wrapping a sum before adding to it makes no difference.
LEMMA AddRemainder ==
    ASSUME NEW w \in Nat, w > 0, NEW a \in Int, NEW g \in Int
    PROVE  ((a % w) + g) % w = (a + g) % w
<1>. DEFINE q == a \div w
            r == a % w
<1>1. q \in Int /\ r \in Int /\ a = w * q + r
  OBVIOUS
<1>. HIDE DEF q, r
<1>2. a + g = (r + g) + w * q /\ a + g \in Int /\ r + g \in Int
  BY <1>1
<1>. DEFINE x == a + g
            y == r + g
<1>3. x \in Int /\ y \in Int /\ x = y + w * q
  BY <1>2
<1>. HIDE DEF x, y
<1>4. x % w = y % w
  BY <1>1, <1>3, SameRemainder
<1>. QED
  BY <1>4 DEF x, y, r

\* The sum of the gas as a fold of FoldTheorems, over executions as they are now
\* or will be after a step.
GasIn(executions, t) == executions[t].gas
Add(a, b) == a + b
AnyOf(s) == CHOOSE x \in s : TRUE
Counted(n, acc) == acc \in Int
GasFold == INSTANCE FoldTheorems WITH
    op <- Add, base <- 0, f <- GasIn, choose <- AnyOf, Good <- Counted

\* The gas of the transactions S, and what it will be.
GasOf(S) == MapThenSumSet(LAMBDA t : exec[t].gas, S)

\* GasOf is that fold.
LEMMA GasIsFold == ASSUME NEW S PROVE GasOf(S) = GasFold!Fold(exec, S)
BY DEF GasOf, MapThenSumSet, GasFold!Fold, MapThenFoldSet, GasFold!MapThenFoldSet, GasIn, Add, AnyOf

\* What one more transaction adds, and what steps of others leave.
LEMMA GasAdds ==
    ASSUME Executions, block \in Blocks, NEW S \in SUBSET Txs
    PROVE  /\ S = {} => GasOf(S) = 0
           /\ GasOf(S) \in Int
           /\ \A t \in Txs \ S : GasOf(S \cup {t}) = exec[t].gas + GasOf(S)
<1>1. GasFold!Foldable(Txs) /\ GasFold!Foldable(S)
  <2>1. GasFold!IsFiniteSet(Txs)
    BY BlockTypes, 1 \in Int, Len(block) \in Int, GasFold!FS_Interval
  <2>2. GasFold!IsFiniteSet(S)
    BY <2>1, GasFold!FS_Subset
  <2>3. \A s : s # {} => AnyOf(s) \in s
    BY DEF AnyOf
  <2>. QED
    BY <2>1, <2>2, <2>3 DEF GasFold!Foldable
<1>2. \A t \in Txs : GasIn(exec, t) \in Nat
  BY DEF Executions, GoodExec, GasIn
<1>3. /\ 0 \in Int
      /\ \A x \in Txs : \A a \in Int : Add(GasIn(exec, x), a) \in Int
      /\ \A x, y \in Txs : \A a \in Int :
            Add(GasIn(exec, x), Add(GasIn(exec, y), a)) = Add(GasIn(exec, y), Add(GasIn(exec, x), a))
  BY <1>2 DEF Add
<1>4. /\ GasFold!Fold(exec, S) \in Int
      /\ \A x \in Txs \ S : GasFold!Fold(exec, S \cup {x}) = Add(GasIn(exec, x), GasFold!Fold(exec, S))
  <2>1. GasFold!Closed(exec, Txs, Int) /\ GasFold!Commutes(exec, Txs, Int)
    BY <1>3 DEF GasFold!Closed, GasFold!Commutes
  <2>. QED
    BY <1>1, <2>1, GasFold!FoldAdd
<1>5. S = {} => GasFold!Fold(exec, S) = 0
  BY <1>1, GasFold!FoldSteps
<1>. QED
  BY <1>4, <1>5, GasIsFold DEF Add, GasIn

\* The sum stays when the gas of the transactions in it does.
LEMMA GasStays ==
    ASSUME block \in Blocks, NEW S \in SUBSET Txs, \A t \in S : exec'[t].gas = exec[t].gas
    PROVE  MapThenSumSet(LAMBDA t : exec'[t].gas, S) = GasOf(S)
<1>1. GasFold!Foldable(S)
  <2>1. GasFold!IsFiniteSet(Txs)
    BY BlockTypes, 1 \in Int, Len(block) \in Int, GasFold!FS_Interval
  <2>2. GasFold!IsFiniteSet(S)
    BY <2>1, GasFold!FS_Subset
  <2>3. \A s : s # {} => AnyOf(s) \in s
    BY DEF AnyOf
  <2>. QED
    BY <2>1, <2>2, <2>3 DEF GasFold!Foldable
<1>2. GasFold!Fold(exec', S) = GasFold!Fold(exec, S)
  BY <1>1, GasFold!FoldSame DEF GasIn
<1>3. MapThenSumSet(LAMBDA t : exec'[t].gas, S) = GasFold!Fold(exec', S)
  BY DEF MapThenSumSet, MapThenFoldSet, GasFold!Fold, GasFold!MapThenFoldSet, GasIn, Add, AnyOf
<1>. QED
  BY <1>2, <1>3, GasIsFold

\* Only sending the result counts gas, and it is the last step.
LEMMA GoroutineGas ==
    ASSUME IInv, NEW t \in Txs, Goroutine(t)
    PROVE  \/ /\ exec'[t].pc = "done" /\ exec'[t].gas = exec[t].gas
              /\ usedGas' = (usedGas + exec[t].gas) % Wrap
           \/ exec'[t].pc # "done" /\ usedGas' = usedGas
<1>1. Executions /\ arrived \in Seq(Txs) /\ DOMAIN exec = Txs /\ DOMAIN exec[t] = Fields
  BY Parts DEF Lists, AllFinished, Executions, GoodExec
<1>2. CASE Send(t)
  BY <1>1, <1>2 DEF Send, Goto, Fields
<1>3. CASE ~Send(t)
  <2>1. arrived' = arrived /\ usedGas' = usedGas
    BY <1>3 DEF Goroutine, MakePool, PassPool, SetBalance, Have, LoadGas, SubGas, CanTransfer,
                Call, Credit, Refund, LoadPool, AddGas, PayTip
  <2>2. Append(arrived, t) # arrived
    <3>1. Len(Append(arrived, t)) = Len(arrived) + 1 /\ Len(arrived) \in Nat
      BY <1>1
    <3>. QED
      BY <3>1
  <2>. QED
    BY <1>1, <2>1, <2>2, GoroutineMoves
<1>. QED
  BY <1>2, <1>3

\* The gas stays counted.
LEMMA GasKept == IInv /\ GasCountedOnce /\ [Next]_vars => GasCountedOnce'
<1>. SUFFICES ASSUME IInv, GasCountedOnce, [Next]_vars PROVE GasCountedOnce'
  OBVIOUS
<1>. DEFINE Done == {u \in Txs : Finished(u)}
            After(S) == MapThenSumSet(LAMBDA u : exec'[u].gas, S)
<1>1. Executions /\ block \in Blocks
  BY Parts
<1>2. usedGas = GasOf(Done) % Wrap
  BY DEF GasCountedOnce, GasOf
<1>3. UNCHANGED block
  <2>1. \A t \in Txs : Goroutine(t) => UNCHANGED block
    BY <1>1, GoroutineMoves
  <2>. QED
    BY <2>1 DEF Next, Main, Fill, StartLevel, Join, Detect, ReBuyGas, ReCall, ReCommit, NextLevel, vars
<1>4. Txs' = Txs
  BY <1>3 DEF Txs
<1>5. ASSUME usedGas' = After({u \in Txs : exec'[u].pc = "done"}) % Wrap PROVE GasCountedOnce'
  <2>1. {t \in Txs : Finished(t)}' = {u \in Txs : exec'[u].pc = "done"}
    BY <1>4 DEF Finished
  <2>2. GasCountedOnce' <=> usedGas' = After({t \in Txs : Finished(t)}') % Wrap
    BY DEF GasCountedOnce, MapThenSumSet, MapThenFoldSet
  <2>. HIDE DEF After
  <2>. QED
    BY <1>5, <2>1, <2>2, Zenon
<1>6. CASE UNCHANGED <<exec, usedGas>>
  <2>1. {u \in Txs : exec'[u].pc = "done"} = Done
    BY <1>6 DEF Finished
  <2>2. After(Done) = GasOf(Done)
    BY <1>1, <1>6, GasStays
  <2>. QED
    BY <1>2, <1>5, <1>6, <2>1, <2>2
<1>7. ASSUME NEW t \in Txs, Goroutine(t) PROVE GasCountedOnce'
  <2>1. ~Finished(t) /\ \A u \in Txs : u # t => exec'[u] = exec[u]
    BY <1>1, <1>7, GoroutineMoves
  <2>2. Done \in SUBSET Txs /\ t \in Txs \ Done
    BY <2>1
  <2>3. /\ GasOf(Done) \in Int /\ GasOf(Done \cup {t}) = exec[t].gas + GasOf(Done)
        /\ exec[t].gas \in Nat
    BY <1>1, <2>2, GasAdds DEF Executions, GoodExec
  <2>4. CASE exec'[t].pc # "done" /\ usedGas' = usedGas
    <3>1. {u \in Txs : exec'[u].pc = "done"} = Done
      BY <2>1, <2>4 DEF Finished
    <3>2. \A u \in Done : exec'[u].gas = exec[u].gas
      BY <2>1
    <3>3. After(Done) = GasOf(Done)
      BY <1>1, <2>2, <3>2, GasStays
    <3>. QED
      BY <1>2, <1>5, <2>4, <3>1, <3>3
  <2>5. CASE /\ exec'[t].pc = "done" /\ exec'[t].gas = exec[t].gas
             /\ usedGas' = (usedGas + exec[t].gas) % Wrap
    <3>. DEFINE Now == Done \cup {t}
    <3>1. {u \in Txs : exec'[u].pc = "done"} = Now
      BY <2>1, <2>5 DEF Finished
    <3>2. Now \in SUBSET Txs /\ \A u \in Now : exec'[u].gas = exec[u].gas
      BY <2>1, <2>5
    <3>3. GasOf(Now) = exec[t].gas + GasOf(Done)
      BY <2>3
    <3>. HIDE DEF Now
    <3>4. After(Now) = GasOf(Now)
      BY <1>1, <3>2, GasStays
    <3>5. usedGas' = GasOf(Now) % Wrap
      <4>. DEFINE sum == GasOf(Done)
                  gas == exec[t].gas
      <4>1. sum \in Int /\ gas \in Int /\ Wrap \in Nat /\ Wrap > 0
        BY <2>3, Constants
      <4>2. usedGas = sum % Wrap /\ usedGas' = (usedGas + gas) % Wrap /\ GasOf(Now) = gas + sum
        BY <1>2, <2>5, <3>3
      <4>. HIDE DEF sum, gas
      <4>3. ((sum % Wrap) + gas) % Wrap = (sum + gas) % Wrap
        BY <4>1, AddRemainder
      <4>4. sum + gas = gas + sum
        BY <4>1
      <4>. QED
        BY <4>2, <4>3, <4>4
    <3>. QED
      BY <1>5, <3>1, <3>4, <3>5
  <2>. QED
    BY <1>7, <2>4, <2>5, GoroutineGas
<1>8. CASE Main \/ UNCHANGED vars
  <2>1. UNCHANGED <<exec, usedGas>>
    BY <1>8 DEF Main, Fill, StartLevel, Join, Detect, ReBuyGas, ReCall, ReCommit, NextLevel, vars
  <2>. QED
    BY <1>6, <2>1
<1>. QED
  BY <1>7, <1>8 DEF Next

\* At first nothing is counted.
LEMMA GasInit == Init => GasCountedOnce
<1>. SUFFICES ASSUME Init PROVE GasCountedOnce
  OBVIOUS
<1>1. Executions /\ block \in Blocks
  BY InitInvariant, Parts
<1>2. {u \in Txs : Finished(u)} = {} /\ usedGas = 0
  BY DEF Init, Idle, Finished
<1>3. GasOf({}) = 0
  BY <1>1, {} \in SUBSET Txs, GasAdds
<1>4. 0 % Wrap = 0
  <2>1. Wrap \in Nat /\ Wrap > 0
    BY Constants
  <2>. QED
    BY <2>1
<1>. QED
  BY <1>2, <1>3, <1>4 DEF GasCountedOnce, GasOf

\* The gas of the block is what the first executions used, modulo 2^64, however the
\* goroutines interleave: every goroutine adds its own once, and what is executed
\* again adds nothing (process.go:336, cacheSet.go:254).
THEOREM GasIsCounted == Spec => []GasCountedOnce
BY InitInvariant, NextInvariant, GasInit, GasKept, PTL DEF Spec

-----------------------------------------------------------------------------
(* What is frozen while a goroutine is at work.                            *)

\* Behind wg.Wait every goroutine of the level has answered.
Answered == phase \in Joined => \A t \in Current : Finished(t)

\* Initially there is nothing to wait for.
LEMMA AnsweredInit == Init => Answered
BY DEF Init, Answered, Joined

\* A goroutine leaves what the main goroutine keeps, the real state and the
\* results among it; it ends in the level loop or in a panic.
LEMMA GoroutineStep ==
    ASSUME NEW t \in Txs, Goroutine(t)
    PROVE  /\ phase = "running"
           /\ phase' \in {"running", "crashed"}
           /\ UNCHANGED mainVars
BY DEF Goroutine, IsAt, MakePool, PassPool, SetBalance, Have, LoadGas, SubGas, CanTransfer,
       Call, Credit, Refund, LoadPool, AddGas, PayTip, Send

\* Only Join leads behind wg.Wait, and what runs there starts no goroutine.
LEMMA AnsweredStep == Answered /\ [Next]_vars => Answered'
<1> SUFFICES ASSUME Answered, [Next]_vars PROVE Answered'
    OBVIOUS
<1>1. CASE Fill
    BY <1>1 DEF Fill, Answered, Joined
<1>2. CASE StartLevel
    BY <1>2 DEF StartLevel, Answered, Joined
<1>3. CASE Join
  <2>1. (\A t \in Current : exec[t].pc = "done") /\ UNCHANGED <<plan, level, exec>>
      BY <1>3, Zenon DEF Join
  <2> QED
      BY <2>1 DEF Answered, Current, Finished
<1>4. CASE Detect
  <2>1. phase = "detect" /\ UNCHANGED <<plan, level, exec>>
      BY <1>4, Zenon DEF Detect
  <2> QED
      BY <2>1 DEF Answered, Joined, Current, Finished
<1>5. CASE ReBuyGas
    BY <1>5 DEF ReBuyGas, Answered, Joined, Current, Finished
<1>6. CASE ReCall
    BY <1>6 DEF ReCall, Answered, Joined, Current, Finished
<1>7. CASE ReCommit
    BY <1>7 DEF ReCommit, Answered, Joined, Current, Finished
<1>8. CASE NextLevel
    BY <1>8 DEF NextLevel, Answered, Joined
<1>9. CASE \E t \in Txs : Goroutine(t)
    BY <1>9, GoroutineStep DEF Answered, Joined
<1>10. CASE UNCHANGED vars
    BY <1>10 DEF vars, mainVars, Answered, Current, Finished
<1> QED
    BY <1>1, <1>2, <1>3, <1>4, <1>5, <1>6, <1>7, <1>8, <1>9, <1>10 DEF Next, Main

\* In every reachable state the main goroutine is behind wg.Wait only when all
\* goroutines of the level have answered (process.go:176).
THEOREM JoinWaits == Spec => []Answered
BY AnsweredInit, AnsweredStep, PTL DEF Spec

\* No step changes the real state or the results while a goroutine of the level
\* has not answered: the goroutines change the copy, and everything that commits
\* or executes again is behind wg.Wait (process.go:161-221).
THEOREM StateIsFrozen == Spec => FrozenWhileRunning
<1>1. ASSUME Answered, [Next]_vars,
             phase \notin {"fill", "level", "done"},
             NEW u \in Current, ~Finished(u)
      PROVE  UNCHANGED <<db, results>>
  <2> phase \notin Joined
      BY <1>1 DEF Answered
  <2>1. CASE Main
      BY <2>1, <1>1 DEF Main, Fill, StartLevel, Join, Detect, ReBuyGas, ReCall, ReCommit,
                        NextLevel, Joined
  <2>2. CASE \E t \in Txs : Goroutine(t)
      BY <2>2, GoroutineStep DEF mainVars
  <2>3. CASE UNCHANGED vars
      BY <2>3 DEF vars, mainVars
  <2> QED
      BY <1>1, <2>1, <2>2, <2>3 DEF Next
<1>2. Answered /\ [Next]_vars
        => [(phase \notin {"fill", "level", "done"} /\ \E t \in Current : ~Finished(t))
               => UNCHANGED <<db, results>>]_vars
    BY <1>1
<1> QED
    BY <1>2, JoinWaits, PTL DEF Spec, FrozenWhileRunning

-----------------------------------------------------------------------------
(* Nonces.                                                                 *)
(*                                                                         *)
(* Two transactions of one sender that are both committed in place would   *)
(* move its nonce once.  They conflict: the refund of the first writes the *)
(* balance, which the second has read.                                     *)

\* The nonces a set holds: who has one, and that from's is n.
HasNonce(cache, a) == <<a, NonceKey>> \in Entries(cache)
SameNonces(new, old) ==
    \A a : /\ HasNonce(new, a) <=> HasNonce(old, a)
           /\ HasNonce(old, a) => new[a][NonceKey] = old[a][NonceKey]
OnlyCounts(cache, from, n) ==
    \A a : HasNonce(cache, a) => a = from /\ cache[a][NonceKey] = n

\* Other keys leave the nonces alone, and a nonce is stored as it is.
LEMMA StoredNonces ==
    ASSUME NEW set, GoodSet(set), NEW a \in Account, NEW k \in Keys,
           NEW v \in Int, k = NonceKey => v \in Nat
    PROVE  /\ k # NonceKey => SameNonces(Stored(set, a, k, v).cache, set.cache)
           /\ k = NonceKey =>
                 /\ Stored(set, a, k, v).cache[a][NonceKey] = v
                 /\ \A b : b # a /\ HasNonce(set.cache, b)
                              => Stored(set, a, k, v).cache[b][NonceKey] = set.cache[b][NonceKey]
<1>. DEFINE cache == set.cache
            put == Put(At(cache, a), k, v)
            new == Stored(set, a, k, v).cache
<1>1. new = Put(cache, a, put)
  BY DEF Stored
<1>2. new[a] = put /\ \A b \in DOMAIN cache : b # a => new[b] = cache[b]
  BY <1>1 DEF Put
<1>3. put[k] = v /\ \A x \in DOMAIN At(cache, a) : x # k => put[x] = At(cache, a)[x]
  BY DEF Put
<1>4. Entries(new) = Entries(cache) \cup {<<a, k>>}
  BY StoredLemma
<1>5. \A b : HasNonce(cache, b) => b \in DOMAIN cache /\ NonceKey \in DOMAIN cache[b]
  <2>. HIDE DEF cache
  <2>. QED
    BY DEF HasNonce, Entries
<1>6. ASSUME NEW b, HasNonce(cache, b), b # a PROVE new[b][NonceKey] = cache[b][NonceKey]
  BY <1>2, <1>5, <1>6
<1>7. ASSUME k # NonceKey, HasNonce(cache, a) PROVE new[a][NonceKey] = cache[a][NonceKey]
  <2>1. At(cache, a) = cache[a] /\ NonceKey \in DOMAIN At(cache, a)
    BY <1>5, <1>7 DEF At
  <2>. QED
    BY <1>2, <1>3, <1>7, <2>1
<1>. HIDE DEF new, cache, put
<1>8. k # NonceKey => SameNonces(new, cache)
  BY <1>4, <1>6, <1>7 DEF SameNonces, HasNonce
<1>. QED
  BY <1>2, <1>3, <1>6, <1>8 DEF new, cache

\* A write set after an update of a balance, a debit or a nonce.
LEMMA WriteNonces ==
    ASSUME NEW set, GoodSet(set), NEW a \in Account, NEW k \in Keys,
           NEW v \in Int, k = NonceKey => v \in Nat, NEW base \in Int
    PROVE  /\ k # NonceKey => SameNonces(WriteUpdate(set, a, k, v, base).cache, set.cache)
           /\ k = NonceKey =>
                 /\ WriteUpdate(set, a, k, v, base).cache[a][NonceKey] = v
                 /\ \A b : b # a /\ HasNonce(set.cache, b)
                      => WriteUpdate(set, a, k, v, base).cache[b][NonceKey] = set.cache[b][NonceKey]
<1>. DEFINE sum == CASE k = BalanceKey    -> (IF Has(set, a, k) THEN ValueOf(set, a, k) ELSE base) + v
                     [] k = SubBalanceKey -> (IF Has(set, a, k) THEN ValueOf(set, a, k) ELSE 0) + v
                     [] OTHER             -> v
<1>1. Has(set, a, k) => ValueOf(set, a, k) \in Int
  BY ValueLemma
<1>2. sum \in Int /\ (k = NonceKey => sum = v)
  <2>1. CASE k = BalanceKey
    BY <2>1, <1>1, KeysAssumption
  <2>2. CASE k = SubBalanceKey
    BY <2>2, <1>1, KeysAssumption
  <2>3. CASE k \notin {SubBalanceKey, BalanceKey}
    BY <2>3
  <2>. QED
    BY <2>1, <2>2, <2>3
<1>3. WriteUpdate(set, a, k, v, base) = Stored(set, a, k, sum)
  BY DEF WriteUpdate
<1>. HIDE DEF sum
<1>. QED
  BY <1>2, <1>3, StoredNonces

\* The same nonces twice.
LEMMA SameNoncesTwice ==
    ASSUME NEW x, NEW y, NEW z, SameNonces(x, y), SameNonces(y, z)
    PROVE  SameNonces(x, z)
BY DEF SameNonces

\* Whose nonce a set has does not change with the other keys.
LEMMA CountsStay ==
    ASSUME NEW new, NEW old, SameNonces(new, old), NEW from, NEW n, OnlyCounts(old, from, n)
    PROVE  OnlyCounts(new, from, n)
BY DEF SameNonces, OnlyCounts

\* The transfer, the refund and the tip write no nonce.
LEMMA NoncesOfParts ==
    ASSUME Machine, Executions, NEW t \in Txs, NEW set, GoodSet(set), NEW b \in Int
    PROVE  /\ SameNonces(Transfer(set, t, b).cache, set.cache)
           /\ SameNonces(Refunded(set, t, b).cache, set.cache)
           /\ SameNonces(Tipped(set, b).cache, set.cache)
<1>1. /\ From(t) \in Account /\ To(t) \in Account /\ Coinbase \in Account
      /\ Value(t) \in Int /\ Left * Price \in Int /\ Fee \in Int /\ 0 \in Int
  BY AtLemma, Amounts, Constants
<1>2. /\ BalanceKey \in Keys /\ SubBalanceKey \in Keys
      /\ BalanceKey # NonceKey /\ SubBalanceKey # NonceKey
  BY KeysAssumption DEF Keys
<1>3. SameNonces(Transfer(set, t, b).cache, set.cache)
  <2>. DEFINE s == WriteUpdate(set, From(t), SubBalanceKey, Value(t), 0)
              w == WriteUpdate(s, To(t), BalanceKey, Value(t), b)
  <2>1. GoodSet(s) /\ SameNonces(s.cache, set.cache)
    BY <1>1, <1>2, WriteLemma, WriteNonces
  <2>2. Transfer(set, t, b) = w
    BY DEF Transfer
  <2>. HIDE DEF s
  <2>3. SameNonces(w.cache, s.cache)
    BY <1>1, <1>2, <2>1, WriteNonces
  <2>. HIDE DEF w
  <2>. QED
    BY <2>1, <2>2, <2>3, SameNoncesTwice
<1>4. SameNonces(set.cache, set.cache)
  BY DEF SameNonces
<1>5. SameNonces(Refunded(set, t, b).cache, set.cache)
  <2>1. CASE Left * Price = 0
    BY <1>4, <2>1, Zenon DEF Refunded
  <2>2. CASE Left * Price # 0
    <3>. DEFINE s == WriteUpdate(set, From(t), BalanceKey, Left * Price, b)
    <3>1. Refunded(set, t, b) = s
      BY <2>2, Zenon DEF Refunded
    <3>2. SameNonces(s.cache, set.cache)
      BY <1>1, <1>2, WriteNonces
    <3>. HIDE DEF s
    <3>. QED
      BY <3>1, <3>2
  <2>. QED
    BY <2>1, <2>2
<1>6. SameNonces(Tipped(set, b).cache, set.cache)
  <2>1. CASE Tip = 0
    BY <1>4, <2>1, Zenon DEF Tipped
  <2>2. CASE Tip # 0
    <3>. DEFINE s == WriteUpdate(set, Coinbase, BalanceKey, Fee, b)
    <3>1. Tipped(set, b) = s
      BY <2>2, Zenon DEF Tipped
    <3>2. SameNonces(s.cache, set.cache)
      BY <1>1, <1>2, WriteNonces
    <3>. HIDE DEF s
    <3>. QED
      BY <3>1, <3>2
  <2>. QED
    BY <2>1, <2>2
<1>. QED
  BY <1>3, <1>5, <1>6

\* A refund that is not left out writes the balance of the sender.
LEMMA RefundWrites ==
    ASSUME Machine, Executions, NEW t \in Txs, NEW set, GoodSet(set), NEW b \in Int, Left * Price > 0
    PROVE  <<From(t), BalanceKey>> \in Entries(Refunded(set, t, b).cache)
<1>1. From(t) \in Account /\ Left * Price \in Int /\ BalanceKey \in Keys /\ BalanceKey # NonceKey
  BY AtLemma, Amounts, KeysAssumption DEF Keys
<1>. DEFINE s == WriteUpdate(set, From(t), BalanceKey, Left * Price, b)
<1>2. Refunded(set, t, b) = s
  BY <1>1 DEF Refunded
<1>3. Entries(s.cache) = Entries(set.cache) \cup {<<From(t), BalanceKey>>}
  BY <1>1, WriteLemma
<1>. HIDE DEF s
<1>. QED
  BY <1>2, <1>3


\* What the write set of a goroutine says of nonces at each program counter: it has
\* one for the sender only, n; and unless the transaction failed it has it from
\* ETHVM.Call on, and the balance of the sender from the refund on.
Counting == {"call", "credit", "refund", "loadPool", "addGas", "tip", "send", "done"}
Repaid == {"loadPool", "addGas", "tip", "send", "done"}
Succeeds(e) == ~e.err /\ ~e.vmErr
Sends(e, from, n) ==
    /\ OnlyCounts(e.wset.cache, from, n)
    /\ e.pc \in Counting /\ Succeeds(e) => HasNonce(e.wset.cache, from)
    /\ e.pc \in Repaid /\ Succeeds(e) => <<from, BalanceKey>> \in Entries(e.wset.cache)

\* A step that leaves the nonces and loses no entry.
LEMMA SendsOnwards ==
    ASSUME NEW e, NEW f, NEW from, NEW n, Sends(e, from, n),
           SameNonces(f.wset.cache, e.wset.cache),
           Entries(e.wset.cache) \subseteq Entries(f.wset.cache),
           Succeeds(f) => Succeeds(e),
           f.pc \in Counting /\ Succeeds(f) => e.pc \in Counting,
           f.pc \in Repaid /\ Succeeds(f) =>
               e.pc \in Repaid \/ <<from, BalanceKey>> \in Entries(f.wset.cache)
    PROVE  Sends(f, from, n)
<1>1. OnlyCounts(f.wset.cache, from, n)
  BY CountsStay DEF Sends
<1>2. f.pc \in Counting /\ Succeeds(f) => HasNonce(f.wset.cache, from)
  BY DEF Sends, SameNonces
<1>3. f.pc \in Repaid /\ Succeeds(f) => <<from, BalanceKey>> \in Entries(f.wset.cache)
  BY DEF Sends
<1>. QED
  BY <1>1, <1>2, <1>3 DEF Sends

\* No step of a goroutine changes a nonce of the copy, nor what its write set says.
LEMMA GoroutineSends ==
    ASSUME Machine, Executions, Left * Price > 0, NEW t \in Txs, Goroutine(t),
           Sends(exec[t], From(t), cp[From(t)].nonce + 1)
    PROVE  /\ Sends(exec'[t], From(t), cp[From(t)].nonce + 1)
           /\ \A a \in Account : cp'[a].nonce = cp[a].nonce
<1>. DEFINE e == exec[t]
            from == From(t)
            n == cp[from].nonce + 1
<1>1. /\ from \in Account /\ To(t) \in Account /\ Value(t) \in Nat
      /\ DOMAIN exec = Txs /\ GoodExec(e, Txs, from) /\ cp \in Objects
      /\ \A a \in Account : cp[a].bal \in Int /\ cp[a].nonce \in Nat
  BY AtLemma DEF Machine
<1>2. DOMAIN e = Fields /\ GoodSet(e.wset) /\ Sends(e, from, n)
  BY <1>1 DEF GoodExec
<1>3. BalanceKey \in Keys /\ SubBalanceKey \in Keys /\ NonceKey \in Keys
      /\ BalanceKey # NonceKey /\ SubBalanceKey # NonceKey
  BY KeysAssumption DEF Keys
<1>4. \A a \in Account : cp'[a].nonce = cp[a].nonce
  <2>1. CASE SetBalance(t)
    <3>1. cp' = [cp EXCEPT ![from].bal = 2 * Want(t)]
      BY <2>1 DEF SetBalance
    <3>2. cp \in [Account -> [bal : Int, nonce : Nat]]
      BY <1>1 DEF Objects
    <3>. QED
      BY <1>1, <3>1, <3>2
  <2>2. CASE ~SetBalance(t)
    <3>1. cp' = cp
      BY <2>2 DEF Goroutine, MakePool, PassPool, Have, LoadGas, SubGas, CanTransfer,
         Call, Credit, Refund, LoadPool, AddGas, PayTip, Send
    <3>. QED
      BY <3>1
  <2>. QED
    BY <2>1, <2>2
<1>5. SameNonces(e.wset.cache, e.wset.cache)
  BY DEF SameNonces
<1>6. ASSUME NEW f, exec' = [exec EXCEPT ![t] = f], f.wset = e.wset, Succeeds(f) => Succeeds(e),
             f.pc \in Counting /\ Succeeds(f) => e.pc \in Counting,
             f.pc \in Repaid /\ Succeeds(f) => e.pc \in Repaid
      PROVE  Sends(exec'[t], from, n)
  <2>1. Sends(f, from, n)
    BY <1>2, <1>5, <1>6, SendsOnwards
  <2>. QED
    BY <1>1, <1>6, <2>1
<1>7. ASSUME NEW pc, exec' = [exec EXCEPT ![t].pc = pc],
             pc \in Counting => e.pc \in Counting, pc \in Repaid => e.pc \in Repaid
      PROVE  Sends(exec'[t], from, n)
  <2>. DEFINE f == [e EXCEPT !.pc = pc]
  <2>1. exec' = [exec EXCEPT ![t] = f] /\ f.wset = e.wset /\ f.pc = pc /\ f.err = e.err /\ f.vmErr = e.vmErr
    BY <1>1, <1>2, <1>7 DEF Fields
  <2>. HIDE DEF f
  <2>. QED
    BY <1>6, <1>7, <2>1 DEF Succeeds
<1>. SUFFICES Sends(exec'[t], from, n)
  BY <1>4
<1>. HIDE DEF from, n
<1>8. CASE MakePool(t) \/ SetBalance(t) \/ Send(t)
  BY <1>7, <1>8 DEF MakePool, SetBalance, Send, Goto, IsAt, Counting, Repaid
<1>9. CASE AddGas(t)
  <2>1. exec' = [exec EXCEPT ![t].pc = IF Tip = 0 THEN "send" ELSE "tip"] /\ e.pc = "addGas"
    BY <1>9 DEF AddGas, Goto, IsAt
  <2>. QED
    BY <1>7, <2>1 DEF Counting, Repaid
<1>10. CASE PassPool(t)
  <2>. DEFINE f == [e EXCEPT !.pc = "setBalance", !.pool = gpVar]
  <2>1. exec' = [exec EXCEPT ![t] = f] /\ f.wset = e.wset /\ f.pc = "setBalance"
        /\ f.err = e.err /\ f.vmErr = e.vmErr
    BY <1>2, <1>10 DEF PassPool, Fields
  <2>. HIDE DEF f
  <2>. QED
    BY <1>6, <2>1 DEF Succeeds, Counting, Repaid
<1>11. CASE LoadPool(t)
  <2>. DEFINE f == [e EXCEPT !.pc = "addGas", !.reg = pools[e.pool]]
  <2>1. exec' = [exec EXCEPT ![t] = f] /\ f.wset = e.wset /\ f.pc = "addGas" /\ e.pc = "loadPool"
        /\ f.err = e.err /\ f.vmErr = e.vmErr
    BY <1>2, <1>11 DEF LoadPool, Fields, IsAt
  <2>. HIDE DEF f
  <2>. QED
    BY <1>6, <2>1 DEF Succeeds, Counting, Repaid
<1>12. ASSUME exec' = [exec EXCEPT ![t] = Failed(e)]
       PROVE  Sends(exec'[t], from, n)
  <2>1. exec'[t] = Failed(e)
    BY <1>1, <1>12
  <2>2. Failed(e).err = TRUE /\ Failed(e).wset = NewSet
    BY <1>2 DEF Failed, Fields
  <2>3. \A a : ~HasNonce(NewSet.cache, a)
    BY EmptySet DEF HasNonce
  <2>. QED
    BY <2>1, <2>2, <2>3 DEF Sends, Succeeds, OnlyCounts
<1>13. CASE Have(t)
  <2>. DEFINE have == cp[From(t)].bal
              f == [e EXCEPT !.pc = "loadGas",
                             !.rset = ReadUpdate(e.rset, From(t), BalanceKey, have)]
  <2>1. exec' = [exec EXCEPT ![t] = IF have < Want(t) THEN Failed(e) ELSE f]
    BY <1>13 DEF Have
  <2>2. f.wset = e.wset /\ f.pc = "loadGas" /\ f.err = e.err /\ f.vmErr = e.vmErr
    BY <1>2 DEF Fields
  <2>. HIDE DEF f
  <2>3. CASE have < Want(t)
    BY <1>12, <2>1, <2>3
  <2>4. CASE ~(have < Want(t))
    BY <1>6, <2>1, <2>2, <2>4 DEF Succeeds, Counting, Repaid
  <2>. QED
    BY <2>3, <2>4
<1>14. CASE LoadGas(t)
  <2>. DEFINE v == pools[e.pool]
              f == [e EXCEPT !.pc = "subGas", !.reg = v]
  <2>1. exec' = [exec EXCEPT ![t] = IF v < TxGas THEN Failed(e) ELSE f]
    BY <1>14 DEF LoadGas
  <2>2. f.wset = e.wset /\ f.pc = "subGas" /\ f.err = e.err /\ f.vmErr = e.vmErr
    BY <1>2 DEF Fields
  <2>. HIDE DEF f
  <2>3. CASE v < TxGas
    BY <1>12, <2>1, <2>3
  <2>4. CASE ~(v < TxGas)
    BY <1>6, <2>1, <2>2, <2>4 DEF Succeeds, Counting, Repaid
  <2>. QED
    BY <2>3, <2>4
<1>15. CASE SubGas(t)
  <2>. DEFINE cost == TxGas * Price
              w == WriteUpdate(e.wset, From(t), SubBalanceKey, cost, 0)
              f == [e EXCEPT !.pc = "canTransfer", !.wset = w]
  <2>1. exec' = [exec EXCEPT ![t] = f]
    BY <1>15 DEF SubGas
  <2>2. cost \in Int /\ 0 \in Int /\ From(t) \in Account /\ GoodSet(e.wset)
    BY <1>1, <1>2, Amounts DEF from
  <2>. HIDE DEF cost
  <2>3. SameNonces(w.cache, e.wset.cache) /\ Entries(e.wset.cache) \subseteq Entries(w.cache)
    <3>1. Entries(w.cache) = Entries(e.wset.cache) \cup {<<From(t), SubBalanceKey>>}
      BY <1>3, <2>2, WriteLemma
    <3>2. SameNonces(w.cache, e.wset.cache)
      BY <1>3, <2>2, WriteNonces
    <3>. QED
      BY <3>1, <3>2
  <2>. HIDE DEF w
  <2>4. f.wset = w /\ f.pc = "canTransfer" /\ f.err = e.err /\ f.vmErr = e.vmErr
    BY <1>2 DEF Fields
  <2>. HIDE DEF f
  <2>5. Sends(f, from, n)
    BY <1>2, <2>3, <2>4, SendsOnwards DEF Succeeds, Counting, Repaid
  <2>. QED
    BY <1>1, <2>1, <2>5
<1>16. CASE CanTransfer(t)
  <2>. DEFINE have == cp[From(t)]
              r == ReadUpdate(e.rset, From(t), BalanceKey, have.bal)
              w == WriteUpdate(e.wset, From(t), NonceKey, have.nonce + 1, 0)
              g == [e EXCEPT !.pc = "send", !.vmErr = TRUE, !.gas = CallStipend]
              h == [e EXCEPT !.pc = "call", !.rset = r, !.wset = w]
  <2>1. exec' = [exec EXCEPT ![t] = IF Value(t) > 0 /\ have.bal < Value(t) THEN g ELSE h]
    BY <1>16 DEF CanTransfer
  <2>2. g.wset = e.wset /\ g.vmErr = TRUE
    BY <1>2 DEF Fields
  <2>3. Sends(g, from, n)
    BY <1>2, <2>2 DEF Sends, Succeeds
  <2>. HIDE DEF g
  <2>4. /\ Entries(w.cache) = Entries(e.wset.cache) \cup {<<from, NonceKey>>}
        /\ w.cache[from][NonceKey] = n
        /\ \A b : b # from /\ HasNonce(e.wset.cache, b)
                     => w.cache[b][NonceKey] = e.wset.cache[b][NonceKey]
    <3>. DEFINE next == have.nonce + 1
                u == WriteUpdate(e.wset, From(t), NonceKey, next, 0)
    <3>1. next \in Nat /\ next \in Int /\ 0 \in Int /\ From(t) \in Account /\ next = n /\ from = From(t)
      BY <1>1 DEF from, n
    <3>2. w = u
      OBVIOUS
    <3>. HIDE DEF next
    <3>3. Entries(u.cache) = Entries(e.wset.cache) \cup {<<From(t), NonceKey>>}
      BY <1>2, <1>3, <3>1, WriteLemma
    <3>4. /\ u.cache[From(t)][NonceKey] = next
          /\ \A b : b # From(t) /\ HasNonce(e.wset.cache, b)
                     => u.cache[b][NonceKey] = e.wset.cache[b][NonceKey]
      BY <1>2, <1>3, <3>1, WriteNonces
    <3>. HIDE DEF u, w
    <3>. QED
      BY <3>1, <3>2, <3>3, <3>4
  <2>5. h.wset = w /\ h.pc = "call"
    BY <1>2 DEF Fields
  <2>. HIDE DEF h, w
  <2>6. Sends(h, from, n)
    <3>1. HasNonce(w.cache, from)
      BY <2>4 DEF HasNonce
    <3>2. OnlyCounts(w.cache, from, n)
      BY <1>2, <2>4 DEF Sends, OnlyCounts, HasNonce
    <3>. QED
      BY <2>5, <3>1, <3>2 DEF Sends, Repaid
  <2>. QED
    BY <1>1, <2>1, <2>3, <2>6
<1>17. CASE Call(t)
  <2>. DEFINE r == ReadUpdate(e.rset, From(t), BalanceKey, Value(t))
              pc == IF Value(t) > 0 THEN "credit" ELSE "refund"
              g == [e EXCEPT !.pc = "refund", !.vmErr = TRUE]
              h == [e EXCEPT !.pc = pc, !.rset = r]
  <2>1. exec' = [exec EXCEPT ![t] = IF Value(t) # 0 /\ cp[From(t)].bal < Value(t) THEN g ELSE h]
        /\ e.pc = "call"
    BY <1>17 DEF Call, IsAt
  <2>2. g.wset = e.wset /\ g.vmErr = TRUE
    BY <1>2 DEF Fields
  <2>3. Sends(g, from, n)
    BY <1>2, <2>2 DEF Sends, Succeeds
  <2>. HIDE DEF g
  <2>4. h.wset = e.wset /\ h.pc = pc /\ h.err = e.err /\ h.vmErr = e.vmErr
    BY <1>2 DEF Fields
  <2>5. pc \notin Repaid
    BY DEF Repaid
  <2>. HIDE DEF h, pc
  <2>6. Sends(h, from, n)
    BY <1>2, <1>5, <2>1, <2>4, <2>5, SendsOnwards DEF Succeeds, Counting
  <2>. QED
    BY <1>1, <2>1, <2>3, <2>6
<1>18. ASSUME NEW f, NEW w, exec' = [exec EXCEPT ![t] = f], f.wset = w, f.err = e.err, f.vmErr = e.vmErr,
              SameNonces(w.cache, e.wset.cache), Entries(e.wset.cache) \subseteq Entries(w.cache),
              e.pc \in Counting,
              f.pc \in Repaid => e.pc \in Repaid \/ <<from, BalanceKey>> \in Entries(w.cache)
       PROVE  Sends(exec'[t], from, n)
  <2>1. Sends(f, from, n)
    BY <1>2, <1>18, SendsOnwards DEF Succeeds
  <2>. QED
    BY <1>1, <1>18, <2>1
<1>19. CASE Credit(t)
  <2>. DEFINE bal == cp[To(t)].bal
              r == ReadUpdate(e.rset, To(t), BalanceKey, bal)
              w == Transfer(e.wset, t, bal)
              f == [e EXCEPT !.pc = "refund", !.rset = r, !.wset = w]
  <2>1. exec' = [exec EXCEPT ![t] = f] /\ e.pc = "credit"
    BY <1>19 DEF Credit, IsAt
  <2>2. bal \in Int
    BY <1>1
  <2>3. SameNonces(w.cache, e.wset.cache) /\ Entries(e.wset.cache) \subseteq Entries(w.cache)
    <3>1. bal \in Int /\ GoodSet(e.wset)
      BY <1>2, <2>2
    <3>. HIDE DEF bal, e
    <3>2. Entries(w.cache) = Entries(e.wset.cache) \cup {<<From(t), SubBalanceKey>>, <<To(t), BalanceKey>>}
      BY <3>1, TransferLemma
    <3>3. SameNonces(w.cache, e.wset.cache)
      BY <3>1, NoncesOfParts
    <3>. HIDE DEF w
    <3>. QED
      BY <3>2, <3>3
  <2>. HIDE DEF w
  <2>4. f.wset = w /\ f.pc = "refund" /\ f.err = e.err /\ f.vmErr = e.vmErr
    BY <1>2 DEF Fields
  <2>. HIDE DEF f
  <2>. QED
    BY <1>18, <2>1, <2>3, <2>4 DEF Counting, Repaid
<1>20. CASE Refund(t)
  <2>. DEFINE bal == cp[From(t)].bal
              w == Refunded(e.wset, t, bal)
              f == [e EXCEPT !.pc = "loadPool", !.wset = w]
  <2>1. exec' = [exec EXCEPT ![t] = f] /\ e.pc = "refund"
    BY <1>20 DEF Refund, IsAt
  <2>2. bal \in Int
    BY <1>1 DEF from
  <2>3. SameNonces(w.cache, e.wset.cache) /\ Entries(e.wset.cache) \subseteq Entries(w.cache)
    BY <1>2, <2>2, NoncesOfParts, RefundedLemma DEF Credited
  <2>4. <<from, BalanceKey>> \in Entries(w.cache)
    BY <1>2, <2>2, RefundWrites DEF from
  <2>. HIDE DEF w
  <2>5. f.wset = w /\ f.pc = "loadPool" /\ f.err = e.err /\ f.vmErr = e.vmErr
    BY <1>2 DEF Fields
  <2>. HIDE DEF f
  <2>. QED
    BY <1>18, <2>1, <2>3, <2>4, <2>5 DEF Counting, Repaid
<1>21. CASE PayTip(t)
  <2>. DEFINE bal == cp[Coinbase].bal
              w == Tipped(e.wset, bal)
              f == [e EXCEPT !.pc = "send", !.wset = w]
  <2>1. exec' = [exec EXCEPT ![t] = f] /\ e.pc = "tip"
    BY <1>21 DEF PayTip, IsAt
  <2>2. bal \in Int
    BY <1>1, Constants
  <2>3. SameNonces(w.cache, e.wset.cache) /\ Entries(e.wset.cache) \subseteq Entries(w.cache)
    BY <1>2, <2>2, NoncesOfParts, TippedLemma DEF Credited
  <2>. HIDE DEF w
  <2>4. f.wset = w /\ f.pc = "send" /\ f.err = e.err /\ f.vmErr = e.vmErr
    BY <1>2 DEF Fields
  <2>. HIDE DEF f
  <2>. QED
    BY <1>18, <2>1, <2>3, <2>4 DEF Counting, Repaid
<1>. QED
  BY <1>8, <1>9, <1>10, <1>11, <1>13, <1>14, <1>15, <1>16, <1>17, <1>19, <1>20, <1>21 DEF Goroutine

\* A transaction that did not fail is merged with all it wrote.
LEMMA MergedNonces ==
    ASSUME NEW t, GoodSet(exec[t].wset), Succeeds(exec[t]),
           NEW acc, DOMAIN acc = {"written", "committed", "conflicts", "results"},
           NEW a
    PROVE  LET c == exec[t].wset.cache
               w == Merged(acc, t).written
           IN  /\ HasNonce(w, a) <=> HasNonce(acc.written, a) \/ HasNonce(c, a)
               /\ HasNonce(w, a) => w[a][NonceKey] = IF HasNonce(c, a) THEN c[a][NonceKey]
                                                     ELSE acc.written[a][NonceKey]
               /\ Entries(Kept(t)) = Entries(c)
<1>. DEFINE c == exec[t].wset.cache
            old == acc.written
            cache == Kept(t)
            put == [b \in DOMAIN cache |-> Entry(old, cache, t, b)]
            w == Merge(old, put)
<1>1. Merged(acc, t).written = w
  BY DEF Merged, Entry
<1>2. \A b : ~KeepsNonce(t, b)
  BY DEF KeepsNonce, Succeeds
<1>3. DOMAIN cache = DOMAIN c /\ \A b \in DOMAIN c : cache[b] = c[b]
  BY <1>2 DEF Kept
<1>. HIDE DEF cache, c, old
<1>4. /\ DOMAIN w = DOMAIN old \cup DOMAIN c
      /\ \A b \in DOMAIN c : w[b] = IF b \in DOMAIN old THEN Merge(old[b], c[b]) ELSE c[b]
      /\ \A b \in DOMAIN old : b \notin DOMAIN c => w[b] = old[b]
  BY <1>2, <1>3 DEF Merge, Entry
<1>. HIDE DEF w
<1>5. \A x : HasNonce(x, a) <=> a \in DOMAIN x /\ NonceKey \in DOMAIN x[a]
  BY DEF HasNonce, Entries
<1>6. a \in DOMAIN c /\ a \in DOMAIN old =>
          /\ NonceKey \in DOMAIN w[a] <=> NonceKey \in DOMAIN old[a] \/ NonceKey \in DOMAIN c[a]
          /\ NonceKey \in DOMAIN c[a] => w[a][NonceKey] = c[a][NonceKey]
          /\ NonceKey \in DOMAIN old[a] /\ NonceKey \notin DOMAIN c[a]
                 => w[a][NonceKey] = old[a][NonceKey]
  BY <1>4 DEF Merge
<1>7. Entries(cache) = Entries(c)
  BY <1>3 DEF Entries
<1>8. HasNonce(w, a) <=> HasNonce(old, a) \/ HasNonce(c, a)
  BY <1>4, <1>5, <1>6
<1>9. HasNonce(w, a) => w[a][NonceKey] = IF HasNonce(c, a) THEN c[a][NonceKey] ELSE old[a][NonceKey]
  BY <1>4, <1>5, <1>6
<1>. QED
  BY <1>1, <1>7, <1>8, <1>9 DEF cache, c, old

\* What the first n records of the order say of nonces: the accounts that have one
\* are the senders of the committed, which have a result, and nobody else has a new
\* one.
FirstOf(n) == {order[i] : i \in 1 .. n}
CountUpTo(n, acc) ==
    /\ DetectUpTo(n, acc)
    /\ \A a : HasNonce(acc.written, a) =>
           acc.written[a][NonceKey] = db[a].nonce + 1 /\ \E t \in Elements(acc.committed) : From(t) = a
    /\ \A t \in Elements(acc.committed) : HasNonce(acc.written, From(t))
    /\ \A t : In(t, acc.results) <=> In(t, results) \/ t \in Elements(acc.committed)
    /\ Elements(acc.committed) \subseteq FirstOf(n) /\ Elements(acc.conflicts) \subseteq FirstOf(n)
    /\ Elements(acc.committed) \cap Elements(acc.conflicts) = {}
    /\ Distinct(acc.conflicts)

\* The records of a level without failures.
MovesNonce(t) == Succeeds(exec[t]) /\ Sends(exec[t], From(t), db[From(t)].nonce + 1)
Orderly == Distinct(order) /\ \A t \in Elements(order) : MovesNonce(t)

\* Each record is new.
LEMMA NextRecord ==
    ASSUME AllFinished(order), Distinct(order), NEW n \in DOMAIN order
    PROVE  /\ order[n] \in Elements(order) /\ order[n] \in Txs
           /\ order[n] \notin FirstOf(n - 1) /\ FirstOf(n) = FirstOf(n - 1) \cup {order[n]}
           /\ Len(order) \in Nat /\ DOMAIN order = 1 .. Len(order)
<1>1. Len(order) \in Nat /\ DOMAIN order = 1 .. Len(order) /\ \A i \in DOMAIN order : order[i] \in Txs
  BY DEF AllFinished
<1>2. \A i \in 1 .. n - 1 : i \in DOMAIN order /\ i # n
  BY <1>1
<1>3. order[n] \notin FirstOf(n - 1)
  BY <1>2 DEF FirstOf, Distinct
<1>4. \A i : i \in 1 .. n <=> i \in 1 .. n - 1 \/ i = n
  BY <1>1
<1>5. FirstOf(n) = FirstOf(n - 1) \cup {order[n]}
  BY <1>4 DEF FirstOf
<1>. QED
  BY <1>1, <1>3, <1>5 DEF Elements

\* A sequence of different things and one more.
LEMMA DistinctAppend ==
    ASSUME NEW R, NEW s \in Seq(R), NEW x \in R, Distinct(s), x \notin Elements(s)
    PROVE  Distinct(Append(s, x))
<1>. DEFINE a == Append(s, x)
<1>1. /\ Len(s) \in Nat /\ DOMAIN s = 1 .. Len(s) /\ DOMAIN a = 1 .. Len(s) + 1
      /\ \A i \in 1 .. Len(s) : a[i] = s[i]
      /\ a[Len(s) + 1] = x
  BY AppendLemma
<1>. HIDE DEF a
<1>2. \A i \in DOMAIN a : i \in DOMAIN s \/ i = Len(s) + 1
  BY <1>1
<1>3. \A i \in DOMAIN s : a[i] = s[i] /\ a[i] # x
  BY <1>1 DEF Elements
<1>4. \A i, j \in DOMAIN a : a[i] = a[j] => i = j
  BY <1>1, <1>2, <1>3 DEF Distinct
<1>. QED
  BY <1>4 DEF Distinct, a

\* A conflict leaves the nonces.
LEMMA ConflictCounted ==
    ASSUME Executions, AllFinished(order), Orderly, NEW n \in DOMAIN order, NEW acc,
           CountUpTo(n - 1, acc), HasConflict(order[n], acc.written)
    PROVE  CountUpTo(n, [acc EXCEPT !.conflicts = Append(acc.conflicts, order[n])])
<1>. DEFINE t == order[n]
            new == [acc EXCEPT !.conflicts = Append(acc.conflicts, t)]
<1>1. CountUpTo(n - 1, acc)
  OBVIOUS
<1>2. DetectUpTo(n - 1, acc)
  BY DEF CountUpTo
<1>3. DetectUpTo(n, new)
  BY <1>2, ConflictNoted
<1>4. /\ t \in Elements(order) /\ t \notin FirstOf(n - 1) /\ FirstOf(n) = FirstOf(n - 1) \cup {t}
  BY NextRecord DEF Orderly
<1>5. /\ new.written = acc.written /\ new.committed = acc.committed /\ new.results = acc.results
      /\ new.conflicts = Append(acc.conflicts, t) /\ acc.conflicts \in Seq(Elements(order))
  BY <1>2 DEF DetectUpTo
<1>. HIDE DEF new, t
<1>6. Elements(acc.conflicts) \subseteq FirstOf(n - 1) /\ Distinct(acc.conflicts)
      /\ Elements(acc.committed) \subseteq FirstOf(n - 1)
      /\ Elements(acc.committed) \cap Elements(acc.conflicts) = {}
  BY <1>1 DEF CountUpTo
<1>7. Elements(new.conflicts) = Elements(acc.conflicts) \cup {t}
  BY <1>4, <1>5, AppendLemma
<1>8. Distinct(new.conflicts)
  BY <1>4, <1>5, <1>6, DistinctAppend
<1>9. CountUpTo(n, new)
  BY <1>1, <1>3, <1>4, <1>5, <1>6, <1>7, <1>8 DEF CountUpTo
<1>. QED
  BY <1>9 DEF new, t

\* More results for t are results of t.
LEMMA ResultsGrow ==
    ASSUME NEW R, NEW rs \in Seq(R), NEW more \in Seq(R), more # <<>>, NEW t,
           \A i \in DOMAIN more : more[i][1] = t
    PROVE  \A u : In(u, rs \o more) <=> In(u, rs) \/ u = t
<1>. DEFINE both == rs \o more
<1>1. /\ both \in Seq(R) /\ Len(both) = Len(rs) + Len(more)
      /\ \A i \in 1 .. Len(rs) + Len(more) :
            both[i] = IF i <= Len(rs) THEN rs[i] ELSE more[i - Len(rs)]
  BY ConcatProperties
<1>2. /\ Len(rs) \in Nat /\ Len(more) \in Nat /\ Len(more) > 0
      /\ DOMAIN rs = 1 .. Len(rs) /\ DOMAIN more = 1 .. Len(more)
  OBVIOUS
<1>. HIDE DEF both
<1>3. DOMAIN both = 1 .. Len(rs) + Len(more)
  BY <1>1, <1>2
<1>4. ASSUME NEW i \in DOMAIN both PROVE both[i][1] = t \/ \E j \in DOMAIN rs : both[i] = rs[j]
  <2>1. CASE i <= Len(rs)
    BY <1>1, <1>2, <1>3, <2>1
  <2>2. CASE ~(i <= Len(rs))
    <3>1. i - Len(rs) \in DOMAIN more
      BY <1>2, <1>3, <2>2
    <3>. QED
      BY <1>1, <1>3, <2>2, <3>1
  <2>. QED
    BY <2>1, <2>2
<1>5. \A j \in DOMAIN rs : j \in DOMAIN both /\ both[j] = rs[j]
  BY <1>1, <1>2, <1>3
<1>6. In(t, both)
  <2>1. /\ Len(rs) + 1 \in DOMAIN both /\ ~(Len(rs) + 1 <= Len(rs))
        /\ (Len(rs) + 1) - Len(rs) = 1 /\ 1 \in DOMAIN more
    BY <1>2, <1>3
  <2>2. both[Len(rs) + 1] = more[1]
    BY <1>1, <1>3, <2>1
  <2>. QED
    BY <2>1, <2>2 DEF In
<1>7. ASSUME NEW u, NEW i \in DOMAIN both, both[i][1] = u PROVE In(u, rs) \/ u = t
  BY <1>4, <1>7 DEF In
<1>8. ASSUME NEW u, NEW j \in DOMAIN rs, rs[j][1] = u PROVE In(u, both)
  BY <1>5, <1>8 DEF In
<1>9. \A u : In(u, both) => In(u, rs) \/ u = t
  BY <1>7 DEF In
<1>10. \A u : In(u, rs) => In(u, both)
  BY <1>8 DEF In
<1>11. \A u : In(u, both) <=> In(u, rs) \/ u = t
  BY <1>6, <1>9, <1>10
<1>. QED
  BY <1>11 DEF both

\* What is committed in place counts the nonce of its sender, once.
LEMMA CommitCounted ==
    ASSUME Executions, AllFinished(order), Orderly, NEW n \in DOMAIN order, NEW acc,
           CountUpTo(n - 1, acc), ~HasConflict(order[n], acc.written)
    PROVE  CountUpTo(n, Merged(acc, order[n]))
<1>. DEFINE t == order[n]
            new == Merged(acc, t)
            size == Cardinality(DOMAIN Kept(t))
            c == exec[t].wset.cache
<1>1. CountUpTo(n - 1, acc)
  OBVIOUS
<1>2. DetectUpTo(n - 1, acc)
  BY DEF CountUpTo
<1>3. DetectUpTo(n, new)
  BY <1>2, CommitNoted
<1>4. /\ t \in Elements(order) /\ t \in Txs
      /\ t \notin FirstOf(n - 1) /\ FirstOf(n) = FirstOf(n - 1) \cup {t}
  BY NextRecord DEF Orderly
<1>5. /\ GoodExec(exec[t], Txs, From(t)) /\ exec[t].pc = "done"
      /\ Succeeds(exec[t]) /\ Sends(exec[t], From(t), db[From(t)].nonce + 1)
  BY <1>4 DEF Executions, AllFinished, Finished, Orderly, MovesNonce
<1>6. HasNonce(c, From(t)) /\ OnlyCounts(c, From(t), db[From(t)].nonce + 1)
  BY <1>5 DEF Sends, Counting
<1>7. /\ DOMAIN acc = {"written", "committed", "conflicts", "results"}
      /\ acc.results \in Seq(Txs \X BOOLEAN) /\ acc.committed \in Seq(Elements(order))
  BY <1>2 DEF DetectUpTo
<1>8. /\ new.conflicts = acc.conflicts /\ new.committed = Append(acc.committed, t)
      /\ new.results = acc.results \o [i \in 1 .. size |-> <<t, FALSE>>]
  BY <1>7 DEF Merged
<1>9. ASSUME NEW a
      PROVE  /\ HasNonce(new.written, a) <=> HasNonce(acc.written, a) \/ HasNonce(c, a)
             /\ HasNonce(new.written, a) => new.written[a][NonceKey] =
                    IF HasNonce(c, a) THEN c[a][NonceKey] ELSE acc.written[a][NonceKey]
  BY <1>5, <1>7, MergedNonces DEF GoodExec
<1>10. size \in Nat /\ size > 0
  <2>1. /\ DOMAIN Kept(t) = DOMAIN c /\ IsFiniteSet(DOMAIN Kept(t)) /\ From(t) \in DOMAIN c
    BY <1>5, KeptLemma DEF GoodExec, GoodSet, Succeeds, Uncharged
  <2>. HIDE DEF c
  <2>. QED
    BY <2>1, FS_EmptySet, FS_CardinalityType
<1>. HIDE DEF new, size, c, t
<1>11. \A u : In(u, new.results) <=> In(u, acc.results) \/ u = t
  <2>. DEFINE x == <<t, FALSE>>
              more == [i \in 1 .. size |-> x]
              rs == acc.results
  <2>1. x \in Txs \X BOOLEAN /\ x[1] = t
    BY <1>4
  <2>2. new.results = rs \o more /\ rs \in Seq(Txs \X BOOLEAN)
    BY <1>7, <1>8
  <2>. HIDE DEF x
  <2>3. /\ more \in Seq(Txs \X BOOLEAN) /\ more # <<>> /\ \A i \in DOMAIN more : more[i][1] = t
    BY <1>10, <2>1
  <2>. HIDE DEF more, rs
  <2>4. \A u : In(u, rs \o more) <=> In(u, rs) \/ u = t
    <3>1. ASSUME NEW R, NEW s \in Seq(R), NEW m \in Seq(R), m # <<>>,
                 \A i \in DOMAIN m : m[i][1] = t
          PROVE  \A u : In(u, s \o m) <=> In(u, s) \/ u = t
      BY <3>1, ResultsGrow
    <3>. QED
      BY <2>2, <2>3, <3>1
  <2>. QED
    BY <2>2, <2>4 DEF rs
<1>12. Elements(new.committed) = Elements(acc.committed) \cup {t}
  BY <1>4, <1>7, <1>8, AppendLemma
<1>13. ASSUME NEW a, HasNonce(new.written, a)
       PROVE  new.written[a][NonceKey] = db[a].nonce + 1 /\ \E u \in Elements(new.committed) : From(u) = a
  <2>1. CASE HasNonce(c, a)
    BY <1>6, <1>9, <1>12, <1>13, <2>1 DEF OnlyCounts
  <2>2. CASE ~HasNonce(c, a)
    BY <1>1, <1>9, <1>12, <1>13, <2>2 DEF CountUpTo
  <2>. QED
    BY <2>1, <2>2
<1>14. \A u \in Elements(new.committed) : HasNonce(new.written, From(u))
  BY <1>1, <1>6, <1>9, <1>12 DEF CountUpTo
<1>15. /\ \A u : In(u, new.results) <=> In(u, results) \/ u \in Elements(new.committed)
       /\ Elements(new.committed) \subseteq FirstOf(n) /\ Elements(new.conflicts) \subseteq FirstOf(n)
       /\ Elements(new.committed) \cap Elements(new.conflicts) = {}
       /\ Distinct(new.conflicts)
  BY <1>1, <1>4, <1>8, <1>11, <1>12 DEF CountUpTo
<1>16. CountUpTo(n, new)
  BY <1>3, <1>13, <1>14, <1>15, Zenon DEF CountUpTo
<1>. QED
  BY <1>16 DEF new, t

CountFold == INSTANCE FoldTheorems WITH
    op <- Checking, base <- DetectStart, f <- ItemOf, choose <- Latest, Good <- CountUpTo

\* The nonces when DetectConflicts has seen every record of a level.
LEMMA CountLemma ==
    ASSUME Executions, AllFinished(order), Orderly, results \in Seq(Txs \X BOOLEAN),
           \A i \in DOMAIN results : LET t == results[i][1] IN Finished(t) /\ ~exec[t].err
    PROVE  CountUpTo(Len(order), DetectEnd)
<1>1. order \in Seq(Txs)
  BY DEF AllFinished
<1>2. Len(order) \in Nat /\ DOMAIN order = 1 .. Len(order)
  BY <1>1
<1>3. CountUpTo(0, DetectStart)
  <2>1. DetectUpTo(0, DetectStart)
    BY DetectStarts
  <2>2. /\ DetectStart.written = NoEntries /\ DetectStart.committed = <<>>
        /\ DetectStart.conflicts = <<>> /\ DetectStart.results = results
    BY DEF DetectStart
  <2>3. (\A a : ~HasNonce(NoEntries, a)) /\ Elements(<<>>) = {} /\ Distinct(<<>>)
    BY DEF HasNonce, Entries, NoEntries, Elements, Distinct
  <2>. HIDE DEF DetectStart
  <2>. QED
    BY <2>1, <2>2, <2>3 DEF CountUpTo
<1>4. ASSUME NEW n \in 1 .. Len(order), NEW acc, CountUpTo(n - 1, acc)
      PROVE  CountUpTo(n, Checking(ItemOf(order, n), acc))
  <2>1. CASE HasConflict(order[n], acc.written)
    <3>1. Checking(ItemOf(order, n), acc) = [acc EXCEPT !.conflicts = Append(acc.conflicts, order[n])]
      BY <2>1 DEF Checking, ItemOf, Checked
    <3>. QED
      BY <1>2, <1>4, <2>1, <3>1, ConflictCounted
  <2>2. CASE ~HasConflict(order[n], acc.written)
    <3>1. Checking(ItemOf(order, n), acc) = Merged(acc, order[n])
      BY <2>2 DEF Checking, ItemOf, Checked
    <3>. QED
      BY <1>2, <1>4, <2>2, <3>1, CommitCounted
  <2>. QED
    BY <2>1, <2>2
<1>5. CountUpTo(Len(order), CountFold!Fold(order, 1 .. Len(order)))
  <2>1. \A n \in 1 .. Len(order) : \A acc : CountUpTo(n - 1, acc)
              => CountUpTo(n, Checking(ItemOf(order, n), acc))
    BY <1>4
  <2>. QED
    BY <1>2, <1>3, <2>1, LatestLemma, CountFold!FoldInduction, Zenon
<1>6. DetectEnd = CountFold!Fold(order, 1 .. Len(order))
  BY <1>2 DEF DetectEnd, FoldLeft, CountFold!Fold, MapThenFoldSet, CountFold!MapThenFoldSet,
              Checking, ItemOf, Latest
<1>. QED
  BY <1>5, <1>6

\* Two transactions of one sender are not both committed in place: the second has
\* read the balance that the refund of the first writes.
LEMMA OneOfEachSender ==
    ASSUME Machine, Executions, AllFinished(order), Orderly, NEW cs \in Seq(Elements(order)), Fresh(cs),
           NEW t \in Elements(cs), NEW u \in Elements(cs), From(t) = From(u)
    PROVE  t = u
<1>1. \A v \in Elements(cs) : v \in Elements(order)
  BY DEF Elements
<1>2. ASSUME NEW v \in Elements(cs)
      PROVE  /\ From(v) \in Account /\ <<From(v), BalanceKey>> \in Entries(Kept(v))
             /\ <<From(v), BalanceKey>> \in Entries(exec[v].rset.cache)
  <2>1. v \in Elements(order) /\ v \in Txs
    BY <1>1 DEF AllFinished, Elements
  <2>2. /\ GoodExec(exec[v], Txs, From(v)) /\ exec[v].pc = "done" /\ Succeeds(exec[v])
        /\ Sends(exec[v], From(v), db[From(v)].nonce + 1) /\ From(v) \in Account
    BY <2>1, AtLemma DEF Executions, AllFinished, Finished, Orderly, MovesNonce
  <2>3. /\ <<From(v), NonceKey>> \in Entries(exec[v].wset.cache)
        /\ <<From(v), BalanceKey>> \in Entries(exec[v].wset.cache)
    BY <2>2 DEF Sends, Counting, Repaid, HasNonce
  <2>4. Entries(Kept(v)) = Entries(exec[v].wset.cache)
    <3>1. \A b : ~KeepsNonce(v, b)
      BY <2>2 DEF KeepsNonce, Succeeds
    <3>2. DOMAIN Kept(v) = DOMAIN exec[v].wset.cache
          /\ \A b \in DOMAIN Kept(v) : Kept(v)[b] = exec[v].wset.cache[b]
      BY <3>1 DEF Kept
    <3>. QED
      BY <3>2 DEF Entries
  <2>. QED
    BY <2>2, <2>3, <2>4 DEF GoodExec
<1>3. PICK i \in DOMAIN cs : t = cs[i]
  BY DEF Elements
<1>4. PICK j \in DOMAIN cs : u = cs[j]
  BY DEF Elements
<1>5. i \in Int /\ j \in Int
  BY <1>3, <1>4
<1>6. ~(i < j)
  BY <1>2, <1>3, <1>4 DEF Fresh
<1>7. ~(j < i)
  BY <1>2, <1>3, <1>4 DEF Fresh
<1>. QED
  BY <1>3, <1>4, <1>5, <1>6, <1>7

\* The nonces after a commit.
LEMMA AppliedNonces ==
    ASSUME NEW state, NEW w, NEW a \in Account
    PROVE  Applied(state, w)[a].nonce = IF HasNonce(w, a) THEN w[a][NonceKey] ELSE state[a].nonce
<1>1. Applied(state, w)[a] = AccountAfter(state, w, a)
  BY DEF Applied, AccountAfter
<1>2. HasNonce(w, a) <=> a \in DOMAIN w /\ NonceKey \in DOMAIN w[a]
  BY DEF HasNonce, Entries
<1>3. CASE a \notin DOMAIN w
  BY <1>1, <1>2, <1>3 DEF AccountAfter
<1>4. CASE a \in DOMAIN w
  <2>. DEFINE m == w[a]
              n == IF NonceKey \in DOMAIN m THEN m[NonceKey] ELSE state[a].nonce
  <2>1. AccountAfter(state, w, a).nonce = n
    BY <1>4 DEF AccountAfter
  <2>. QED
    BY <1>1, <1>2, <1>4, <2>1
<1>. QED
  BY <1>3, <1>4

\* No execution has failed so far.
NoFailure == \A t \in Txs : ~Erred(t) /\ ~VmFailed(t)

\* While a level is at work its copy has the nonces of the state, and what its
\* goroutines have written of nonces is as Sends says.
Sending == phase \in {"running", "detect"} =>
    /\ \A a \in Account : cp[a].nonce = db[a].nonce
    /\ \A t \in Level(level) : Sends(exec[t], From(t), db[From(t)].nonce + 1)
Unsent ==
    /\ phase = "fill" => \A t \in Txs : exec[t] = Idle
    /\ \A l \in 0 .. plan.maxLevel :
           l > level \/ (l = level /\ phase = "level") => \A t \in Level(l) : exec[t] = Idle

\* The lists of a level hold transactions of the level, which have no result yet;
\* the conflicts have none until they are executed again, each of them once.
OfLevel ==
    /\ phase = "running" => Elements(arrived) \subseteq Level(level)
    /\ phase = "detect" => Elements(order) \subseteq Level(level) /\ Distinct(order)
    /\ phase \in {"running", "detect"} => \A t \in Level(level) : ~In(t, results)
Waiting == phase \in Redoing =>
    Distinct(conflicts) /\ \A t \in Elements(conflicts) : ~In(t, results)
Ended == phase = "done" => level = plan.maxLevel + 1

\* The nonce of a transaction that is executed again.
Again ==
    /\ phase = "reCall" => \A a : ~HasNonce(retried[Head(conflicts)].cache, a)
    /\ phase = "reCommit" =>
           LET t == Head(conflicts)
           IN  /\ HasNonce(retried[t].cache, From(t))
               /\ OnlyCounts(retried[t].cache, From(t), db[From(t)].nonce + 1)

\* Every nonce is the number of results of its account.
Sent(a) == {t \in Txs : From(t) = a /\ In(t, results)}
Counts == phase \notin {"stuck", "crashed"} => \A a \in Account : db[a].nonce = Cardinality(Sent(a))
Nonces == Sending /\ Unsent /\ OfLevel /\ Waiting /\ Ended /\ Again /\ Counts
Sound == NoFailure => Nonces

\* Only what has finished has a result.
LEMMA ResultsFinished == ASSUME Lists, NEW t, In(t, results) PROVE Finished(t)
BY DEF Lists, Receipts, In

\* The same number of results.
LEMMA CountsKept ==
    ASSUME Counts, UNCHANGED <<block, results>>, phase \notin {"stuck", "crashed"},
           \A a \in Account : db'[a].nonce = db[a].nonce
    PROVE  Counts'
<1>1. \A a : Sent(a)' = Sent(a)
  BY DEF Sent, Txs, From, In
<1>. QED
  BY <1>1 DEF Counts

\* Initially.
LEMMA NoncesInit == Init => Nonces
<1>. SUFFICES ASSUME Init PROVE Nonces
  OBVIOUS
<1>1. /\ phase = "fill" /\ level = 0 /\ plan.maxLevel = 0 /\ results = <<>>
      /\ db = [a \in Account |-> [bal |-> Funds, nonce |-> 0]]
      /\ exec = [t \in Txs |-> Idle]
  BY DEF Init
<1>2. Unsent
  <2>1. \A l \in 0 .. plan.maxLevel : ~(l > level \/ (l = level /\ phase = "level"))
    BY <1>1
  <2>. QED
    BY <1>1, <2>1 DEF Unsent
<1>3. \A a : Sent(a) = {}
  BY <1>1 DEF Sent, In
<1>4. Counts
  BY <1>1, <1>3, FS_EmptySet DEF Counts
<1>. QED
  BY <1>1, <1>2, <1>4 DEF Nonces, Sending, OfLevel, Waiting, Ended, Again, Redoing

\* Filling the plan.
LEMMA NoncesByFill == ASSUME IInv, Nonces, Fill PROVE Nonces'
<1>1. /\ phase = "fill" /\ phase' = "level"
      /\ UNCHANGED <<block, exec, level, db, results>>
  BY Zenon DEF Fill
<1>2. \A t \in Txs : exec[t] = Idle
  BY <1>1 DEF Nonces, Unsent
<1>3. \A l \in 0 .. plan'.maxLevel : Elements(plan'.items[l + 1]) \subseteq Txs
  <2>1. IInv' /\ Txs' = Txs
    BY <1>1, KeptByFill DEF Txs
  <2>2. PlanUpTo(Len(block), plan)' /\ block' \in Blocks
    BY <1>1, <2>1 DEF IInv, Block, Planned, Machine
  <2>3. PlanUpTo(Len(block), plan')
    BY <1>1, <2>2 DEF PlanUpTo, AllPlaced, Rising
  <2>4. block \in Blocks
    BY Parts
  <2>. QED
    BY <2>3, <2>4, LevelFacts
<1>4. Unsent'
  <2>1. \A l : Level(l)' = Elements(plan'.items[l + 1])
    BY DEF Level, Elements
  <2>. QED
    BY <1>1, <1>2, <1>3, <2>1 DEF Unsent
<1>5. Counts'
  BY <1>1, CountsKept DEF Nonces
<1>. QED
  BY <1>1, <1>4, <1>5 DEF Nonces, Sending, OfLevel, Waiting, Ended, Again, Redoing

\* The transactions of the levels, and their results, as long as they stay.
LEMMA LevelsStay ==
    ASSUME UNCHANGED <<block, plan>>
    PROVE  /\ Txs' = Txs /\ \A l : Level(l)' = Level(l)
           /\ \A t : From(t)' = From(t)
BY DEF Txs, From, Level, Elements

\* Starting a level.
LEMMA NoncesByStartLevel == ASSUME IInv, Nonces, StartLevel PROVE Nonces'
<1>1. /\ Machine /\ Executions /\ Lists /\ Planned /\ Ahead /\ block \in Blocks
      /\ level \in Nat /\ plan.maxLevel \in Nat
  BY Parts
<1>2. /\ phase = "level" /\ UNCHANGED <<block, exec, plan, level, db, order, results, retried, conflicts>>
      /\ \/ level < plan.maxLevel + 1 /\ phase' = "running" /\ cp' = db /\ arrived' = <<>>
         \/ phase' = "done" /\ ~(level < plan.maxLevel + 1)
  BY DEF StartLevel, GetMaxLevel, mainVars
<1>3. /\ Txs' = Txs /\ \A l : Level(l)' = Level(l)
      /\ \A t : From(t)' = From(t)
  BY <1>2, LevelsStay
<1>4. Counts'
  BY <1>2, CountsKept DEF Nonces
<1>5. Unsent'
  BY <1>2, <1>3 DEF Nonces, Unsent
<1>6. Ended'
  BY <1>1, <1>2 DEF Planned, Ended
<1>7. Sending' /\ OfLevel'
  <2>1. CASE phase' = "done"
    BY <2>1 DEF Sending, OfLevel
  <2>2. CASE phase' = "running"
    <3>1. level \in 0 .. plan.maxLevel
      BY <1>1, <1>2, <2>2
    <3>2. \A t \in Level(level) : exec[t] = Idle /\ ~Finished(t)
      BY <1>1, <1>2, <3>1 DEF Nonces, Unsent, Ahead
    <3>3. \A from, n : Sends(Idle, from, n)
      <4>1. Idle.wset = NewSet /\ Idle.pc = "start"
        BY DEF Idle
      <4>2. \A a : ~HasNonce(NewSet.cache, a)
        BY EmptySet DEF HasNonce
      <4>. QED
        BY <4>1, <4>2 DEF Sends, OnlyCounts, Counting, Repaid
    <3>4. Sending'
      BY <1>2, <1>3, <2>2, <3>2, <3>3 DEF Sending
    <3>5. \A t \in Level(level) : ~In(t, results)
      BY <1>1, <3>2, ResultsFinished
    <3>6. OfLevel'
      BY <1>2, <1>3, <2>2, <3>5 DEF OfLevel, Elements, In
    <3>. QED
      BY <3>4, <3>6
  <2>. QED
    BY <1>2, <2>1, <2>2
<1>. QED
  BY <1>2, <1>4, <1>5, <1>6, <1>7 DEF Nonces, Waiting, Again, Redoing

\* A goroutine.
LEMMA NoncesByGoroutine ==
    ASSUME IInv, Nonces, Left * Price > 0, NEW t \in Txs, Goroutine(t)
    PROVE  Nonces'
<1>1. /\ Machine /\ Executions /\ Lists /\ Planned /\ block \in Blocks
      /\ level \in Nat /\ plan.maxLevel \in Nat
  BY Parts
<1>2. /\ phase = "running" /\ phase' \in {"running", "crashed"} /\ t \in Current
      /\ UNCHANGED <<block, mainVars>>
      /\ ~Finished(t) /\ \A u \in Txs : u # t => exec'[u] = exec[u]
      /\ arrived' = IF exec'[t].pc = "done" THEN Append(arrived, t) ELSE arrived
  BY <1>1, GoroutineMoves
<1>3. UNCHANGED <<block, plan, level, db, order, conflicts, results, retried>>
  BY <1>2 DEF mainVars
<1>4. /\ Txs' = Txs /\ \A l : Level(l)' = Level(l)
      /\ \A u : From(u)' = From(u)
  BY <1>3, LevelsStay
<1>5. /\ level \in 0 .. plan.maxLevel /\ t \in Level(level)
      /\ \A l \in 0 .. plan.maxLevel : Level(l) \subseteq Txs /\ (t \in Level(l) => l = level)
  <2>1. PlanUpTo(Len(block), plan) /\ level \in 0 .. plan.maxLevel
    BY <1>1, <1>2 DEF Planned
  <2>. QED
    BY <1>1, <1>2, <2>1, CurrentLevel, LevelFacts DEF Level
<1>6. Counts'
  BY <1>2, <1>3, CountsKept DEF Nonces
<1>7. Unsent'
  <2>1. ASSUME NEW l \in 0 .. plan.maxLevel, l > level, NEW u \in Level(l) PROVE exec'[u] = Idle
    <3>1. u # t /\ u \in Txs
      BY <1>1, <1>5, <2>1
    <3>2. exec[u] = Idle
      BY <2>1 DEF Nonces, Unsent
    <3>. QED
      BY <1>2, <3>1, <3>2
  <2>. QED
    BY <1>2, <1>3, <1>4, <2>1 DEF Unsent
<1>8. Sending'
  <2>1. /\ \A a \in Account : cp[a].nonce = db[a].nonce
        /\ \A u \in Level(level) : Sends(exec[u], From(u), db[From(u)].nonce + 1)
    BY <1>2 DEF Nonces, Sending
  <2>2. From(t) \in Account
    BY <1>1, AtLemma
  <2>3. Sends(exec[t], From(t), cp[From(t)].nonce + 1)
    BY <1>5, <2>1, <2>2
  <2>4. /\ Sends(exec'[t], From(t), cp[From(t)].nonce + 1)
        /\ \A a \in Account : cp'[a].nonce = cp[a].nonce
    BY <1>1, <2>3, GoroutineSends
  <2>5. ASSUME NEW u \in Level(level) PROVE Sends(exec'[u], From(u), db[From(u)].nonce + 1)
    <3>1. CASE u = t
      BY <2>1, <2>2, <2>4, <3>1
    <3>2. CASE u # t
      BY <1>2, <1>5, <2>1, <3>2
    <3>. QED
      BY <3>1, <3>2
  <2>6. \A a \in Account : cp'[a].nonce = db'[a].nonce
    BY <1>3, <2>1, <2>4
  <2>. QED
    BY <1>3, <1>4, <2>5, <2>6 DEF Sending
<1>9. OfLevel'
  <2>1. Elements(arrived) \subseteq Level(level) /\ \A u \in Level(level) : ~In(u, results)
    BY <1>2 DEF Nonces, OfLevel
  <2>2. Elements(arrived') \subseteq Level(level)
    <3>1. arrived \in Seq(Txs)
      BY <1>1 DEF Lists, AllFinished
    <3>2. Elements(Append(arrived, t)) = Elements(arrived) \cup {t}
      BY <3>1, AppendLemma
    <3>. QED
      BY <1>2, <1>5, <2>1, <3>2
  <2>. QED
    BY <1>2, <1>3, <1>4, <2>1, <2>2 DEF OfLevel, Elements, In
<1>. QED
  BY <1>2, <1>6, <1>7, <1>8, <1>9 DEF Nonces, Waiting, Again, Ended, Redoing

\* Joining the goroutines of a level.
LEMMA NoncesByJoin == ASSUME IInv, Nonces, Join PROVE Nonces'
<1>1. /\ phase = "running" /\ phase' = "detect"
      /\ UNCHANGED <<block, cp, exec, plan, level, db, conflicts, results, retried>>
  BY Zenon DEF Join
<1>2. Elements(order') = Elements(arrived) /\ Distinct(order')
  <2>1. arrived \in Seq(Txs)
    BY Parts DEF Lists, AllFinished
  <2>. QED
    BY <2>1, OrderLemma
<1>3. /\ Txs' = Txs /\ \A l : Level(l)' = Level(l)
      /\ \A t : From(t)' = From(t)
  BY <1>1, LevelsStay
<1>4. Counts'
  BY <1>1, CountsKept DEF Nonces
<1>5. Unsent' /\ Sending'
  BY <1>1, <1>3 DEF Nonces, Unsent, Sending
<1>6. OfLevel'
  <2>1. Elements(order)' = Elements(order') /\ (Distinct(order)' <=> Distinct(order'))
    BY DEF Elements, Distinct
  <2>2. \A t : In(t, results)' <=> In(t, results)
    BY <1>1 DEF In
  <2>. QED
    BY <1>1, <1>2, <1>3, <2>1, <2>2 DEF Nonces, OfLevel
<1>. QED
  BY <1>1, <1>4, <1>5, <1>6 DEF Nonces, Waiting, Again, Ended, Redoing

\* The next level.
LEMMA NoncesByNextLevel == ASSUME IInv, Nonces, NextLevel PROVE Nonces'
<1>1. /\ phase = "redo" /\ phase' = "level" /\ level' = level + 1 /\ level \in Nat
      /\ UNCHANGED <<block, exec, plan, db, results>>
  BY Parts DEF NextLevel
<1>2. /\ Txs' = Txs /\ \A l : Level(l)' = Level(l)
  BY <1>1, LevelsStay
<1>3. Unsent'
  <2>1. \A l \in 0 .. plan.maxLevel : l > level => \A t \in Level(l) : exec[t] = Idle
    BY DEF Nonces, Unsent
  <2>2. \A l \in 0 .. plan.maxLevel : l > level + 1 \/ l = level + 1 => l > level
    BY <1>1
  <2>. QED
    BY <1>1, <1>2, <2>1, <2>2 DEF Unsent
<1>4. Counts'
  BY <1>1, CountsKept DEF Nonces
<1>. QED
  BY <1>1, <1>3, <1>4 DEF Nonces, Sending, OfLevel, Waiting, Ended, Again, Redoing

\* One more result of a.
LEMMA OneMore ==
    ASSUME block \in Blocks, NEW a, NEW t \in Txs, From(t) = a, ~In(t, results), NEW S,
           S = Sent(a) \cup {t}
    PROVE  Cardinality(S) = Cardinality(Sent(a)) + 1
<1>1. IsFiniteSet(Sent(a))
  <2>1. Len(block) \in Nat /\ Txs = 1 .. Len(block)
    BY BlockTypes
  <2>2. IsFiniteSet(Txs)
    BY <2>1, 1 \in Int, Len(block) \in Int, FS_Interval
  <2>3. Sent(a) \subseteq Txs
    BY DEF Sent
  <2>. QED
    BY <2>2, <2>3, FS_Subset
<1>2. t \notin Sent(a)
  BY DEF Sent
<1>. HIDE DEF Sent
<1>. QED
  BY <1>1, <1>2, FS_AddElement

\* DetectConflicts and the commit.
LEMMA NoncesByDetect == ASSUME IInv, Nonces, NoFailure, Left * Price > 0, Detect PROVE Nonces'
<1>1. /\ Machine /\ Executions /\ Lists /\ Planned /\ block \in Blocks
      /\ level \in Nat /\ plan.maxLevel \in Nat /\ AllFinished(order) /\ Receipts
  BY Parts DEF Lists
<1>. DEFINE end == DetectEnd
<1>2. /\ phase = "detect" /\ phase' \in {"stuck", "redo"} /\ db' = Applied(db, end.written)
      /\ conflicts' = end.conflicts /\ results' = end.results
      /\ UNCHANGED <<block, exec, plan, level>>
  <2>1. phase' = IF DOMAIN end.written = {} THEN "stuck" ELSE "redo"
    BY Zenon DEF Detect, DetectEnd, DetectStart
  <2>. HIDE DEF end
  <2>. QED
    BY <2>1, Zenon DEF Detect, DetectEnd, DetectStart, end
<1>3. /\ Txs' = Txs /\ \A l : Level(l)' = Level(l) /\ \A t : From(t)' = From(t)
  BY <1>2, LevelsStay
<1>4. Elements(order) \subseteq Level(level) /\ Distinct(order)
      /\ \A t \in Elements(order) : ~In(t, results)
  BY <1>2 DEF Nonces, OfLevel
<1>5. Elements(order) \subseteq Txs /\ \A t \in Elements(order) : Finished(t)
  BY <1>1 DEF AllFinished, Elements
<1>6. Orderly
  <2>1. \A t \in Level(level) : Sends(exec[t], From(t), db[From(t)].nonce + 1)
    BY <1>2 DEF Nonces, Sending
  <2>2. \A t \in Elements(order) : Succeeds(exec[t])
    BY <1>5 DEF NoFailure, Erred, VmFailed, Succeeds
  <2>. QED
    BY <1>4, <2>1, <2>2 DEF Orderly, MovesNonce
<1>7. CountUpTo(Len(order), end)
  BY <1>1, <1>6, CountLemma DEF Receipts
<1>. HIDE DEF end
<1>8. /\ \A a : HasNonce(end.written, a) =>
             end.written[a][NonceKey] = db[a].nonce + 1 /\ \E t \in Elements(end.committed) : From(t) = a
      /\ \A t \in Elements(end.committed) : HasNonce(end.written, From(t))
      /\ \A t : In(t, end.results) <=> In(t, results) \/ t \in Elements(end.committed)
      /\ Elements(end.committed) \cap Elements(end.conflicts) = {}
      /\ Distinct(end.conflicts)
      /\ end.committed \in Seq(Elements(order)) /\ end.conflicts \in Seq(Elements(order))
      /\ Fresh(end.committed)
  BY <1>7, Zenon DEF CountUpTo, DetectUpTo
<1>9. Elements(end.committed) \subseteq Elements(order) /\ Elements(end.conflicts) \subseteq Elements(order)
  BY <1>8 DEF Elements
<1>10. Waiting'
  <2>1. Distinct(conflicts') /\ \A t \in Elements(conflicts') : ~In(t, results')
    BY <1>2, <1>4, <1>8, <1>9
  <2>. QED
    BY <2>1 DEF Waiting, Distinct, Elements, In
<1>11. ASSUME phase' = "redo", NEW a \in Account
       PROVE  db'[a].nonce = Cardinality({t \in Txs : From(t) = a /\ In(t, results')})
  <2>. DEFINE S == {t \in Txs : From(t) = a /\ In(t, results')}
              new == {t \in Elements(end.committed) : From(t) = a}
  <2>1. S = Sent(a) \cup new
    BY <1>2, <1>5, <1>8, <1>9 DEF Sent
  <2>2. db[a].nonce = Cardinality(Sent(a)) /\ db[a].nonce \in Nat
    BY <1>1, <1>2 DEF Nonces, Counts, Machine, Objects
  <2>3. db'[a].nonce = IF HasNonce(end.written, a) THEN end.written[a][NonceKey] ELSE db[a].nonce
    BY <1>2, AppliedNonces
  <2>4. CASE HasNonce(end.written, a)
    <3>1. PICK t \in Elements(end.committed) : From(t) = a
      BY <1>8, <2>4
    <3>2. t \in Txs /\ ~In(t, results)
      BY <1>4, <1>5, <1>9
    <3>3. new = {t}
      <4>1. \A u \in Elements(end.committed) : From(u) = From(t) => u = t
        BY <1>1, <1>6, <1>8, OneOfEachSender
      <4>. QED
        BY <3>1, <4>1
    <3>. HIDE DEF S, new
    <3>4. S = Sent(a) \cup {t}
      BY <2>1, <3>3
    <3>5. Cardinality(S) = Cardinality(Sent(a)) + 1
      BY <1>1, <3>1, <3>2, <3>4, OneMore
    <3>6. db'[a].nonce = db[a].nonce + 1
      BY <1>8, <2>3, <2>4
    <3>. QED
      BY <2>2, <3>5, <3>6 DEF S
  <2>5. CASE ~HasNonce(end.written, a)
    <3>1. new = {}
      BY <1>8, <2>5
    <3>2. S = Sent(a)
      BY <2>1, <3>1
    <3>. QED
      BY <2>2, <2>3, <2>5, <3>2
  <2>. QED
    BY <2>4, <2>5
<1>12. Counts'
  <2>1. \A a : Sent(a)' = {t \in Txs : From(t) = a /\ In(t, results')}
    BY <1>3 DEF Sent, In
  <2>. QED
    BY <1>2, <1>11, <2>1 DEF Counts
<1>13. Unsent'
  BY <1>2, <1>3 DEF Nonces, Unsent
<1>. QED
  BY <1>2, <1>10, <1>12, <1>13 DEF Nonces, Sending, OfLevel, Ended, Again

\* The execution of a transaction again keeps what is said of the levels.
LEMMA RedoNonces ==
    ASSUME Nonces, phase \in Redoing, phase' \in Redoing \cup {"crashed"},
           UNCHANGED <<block, plan, level, exec>>, Waiting', Again', Counts'
    PROVE  Nonces'
<1>1. /\ Txs' = Txs /\ \A l : Level(l)' = Level(l)
  BY LevelsStay
<1>2. Unsent'
  BY <1>1 DEF Nonces, Unsent, Redoing
<1>. QED
  BY <1>2 DEF Nonces, Sending, OfLevel, Ended, Redoing

\* The gas is bought once more: no nonce is written yet.
LEMMA NoncesByReBuyGas == ASSUME IInv, Nonces, ReBuyGas PROVE Nonces'
<1>. DEFINE t == Head(conflicts)
            cost == TxGas * Price
            w == WriteUpdate(NewSet, From(t), SubBalanceKey, cost, 0)
            paid == [db EXCEPT ![From(t)].bal = 2 * Want(t)]
<1>1. Machine /\ Executions /\ Lists /\ Sets
  BY Parts
<1>2. /\ phase = "redo" /\ conflicts # <<>>
      /\ UNCHANGED <<block, exec, plan, level, conflicts, results>>
      /\ \/ phase' = "crashed"
         \/ phase' = "reCall" /\ db' = paid /\ retried' = Put(retried, t, w)
  BY DEF ReBuyGas
<1>3. t \in Txs /\ From(t) \in Account
  BY <1>1, <1>2, HeadLemma, AtLemma
<1>4. \A a \in Account : paid[a].nonce = db[a].nonce
  <2>1. db \in [Account -> [bal : Int, nonce : Nat]]
    BY <1>1 DEF Machine, Objects
  <2>. QED
    BY <1>3, <2>1
<1>5. \A a : ~HasNonce(w.cache, a)
  <2>1. cost \in Int /\ 0 \in Int /\ GoodSet(NewSet) /\ \A a : ~HasNonce(NewSet.cache, a)
    BY Amounts, EmptySet DEF HasNonce
  <2>2. SubBalanceKey \in Keys /\ SubBalanceKey # NonceKey
    BY KeysAssumption DEF Keys
  <2>. HIDE DEF cost, t
  <2>3. SameNonces(w.cache, NewSet.cache)
    BY <1>3, <2>1, <2>2, WriteNonces
  <2>. HIDE DEF w
  <2>. QED
    BY <2>1, <2>3 DEF SameNonces
<1>. HIDE DEF w, paid, t
<1>6. Again'
  <2>1. phase' = "reCall" => \A a : ~HasNonce(retried'[t].cache, a)
    BY <1>2, <1>5 DEF Put
  <2>. QED
    BY <1>2, <2>1 DEF Again, HasNonce, t
<1>7. Waiting'
  BY <1>2 DEF Nonces, Waiting, Redoing, Distinct, Elements, In
<1>8. Counts'
  <2>1. CASE phase' = "crashed"
    BY <2>1 DEF Counts
  <2>2. CASE phase' = "reCall"
    BY <1>2, <1>4, <2>2, CountsKept DEF Nonces
  <2>. QED
    BY <1>2, <2>1, <2>2
<1>. QED
  BY <1>2, <1>6, <1>7, <1>8, RedoNonces DEF Redoing

\* The call is made once more and the nonce of the sender counted.
LEMMA NoncesByReCall == ASSUME IInv, Nonces, ReCall PROVE Nonces'
<1>. DEFINE t == Head(conflicts)
            charged == WriteUpdate(retried[t], From(t), SubBalanceKey, Value(t), 0)
            next == db[From(t)].nonce + 1
            counted == WriteUpdate(charged, From(t), NonceKey, next, 0)
            w == IF Value(t) > 0 THEN Transfer(counted, t, db[To(t)].bal) ELSE counted
<1>1. Machine /\ Executions /\ Lists /\ Sets
  BY Parts
<1>2. /\ phase = "reCall" /\ phase' = "reCommit" /\ retried' = Put(retried, t, w)
      /\ UNCHANGED <<block, exec, plan, level, db, conflicts, results>>
  BY DEF ReCall
<1>3. conflicts # <<>> /\ t \in DOMAIN retried /\ GoodSet(retried[t])
      /\ \A a : ~HasNonce(retried[t].cache, a)
  BY <1>1, <1>2 DEF Sets, Nonces, Again
<1>4. t \in Txs /\ From(t) \in Account /\ To(t) \in Account /\ Value(t) \in Nat /\ next \in Nat
      /\ db[To(t)].bal \in Int
  <2>1. t \in Txs
    BY <1>1, <1>3, HeadLemma
  <2>. QED
    BY <1>1, <2>1, AtLemma
<1>5. /\ SubBalanceKey \in Keys /\ NonceKey \in Keys /\ SubBalanceKey # NonceKey
      /\ next \in Int /\ Value(t) \in Int /\ 0 \in Int
  BY <1>4, KeysAssumption DEF Keys
<1>. HIDE DEF t, next
<1>6. GoodSet(charged) /\ \A a : ~HasNonce(charged.cache, a)
  <2>1. GoodSet(charged)
    BY <1>3, <1>4, <1>5, WriteLemma
  <2>2. SameNonces(charged.cache, retried[t].cache)
    BY <1>3, <1>4, <1>5, WriteNonces
  <2>. HIDE DEF charged
  <2>. QED
    BY <1>3, <2>1, <2>2 DEF SameNonces
<1>. HIDE DEF charged
<1>7. GoodSet(counted) /\ HasNonce(counted.cache, From(t)) /\ OnlyCounts(counted.cache, From(t), next)
  <2>1. GoodSet(counted) /\ Entries(counted.cache) = Entries(charged.cache) \cup {<<From(t), NonceKey>>}
    BY <1>4, <1>5, <1>6, WriteLemma
  <2>2. counted.cache[From(t)][NonceKey] = next
    BY <1>4, <1>5, <1>6, WriteNonces
  <2>. HIDE DEF counted
  <2>. QED
    BY <1>6, <2>1, <2>2 DEF HasNonce, OnlyCounts
<1>. HIDE DEF counted
<1>8. SameNonces(w.cache, counted.cache)
  <2>1. CASE Value(t) > 0
    <3>. DEFINE u == Transfer(counted, t, db[To(t)].bal)
    <3>1. SameNonces(u.cache, counted.cache)
      BY <1>1, <1>4, <1>7, NoncesOfParts
    <3>2. w = u
      BY <2>1
    <3>. HIDE DEF u, w
    <3>. QED
      BY <3>1, <3>2
  <2>2. CASE ~(Value(t) > 0)
    BY <2>2 DEF SameNonces
  <2>. QED
    BY <2>1, <2>2
<1>. HIDE DEF w
<1>9. HasNonce(w.cache, From(t)) /\ OnlyCounts(w.cache, From(t), next)
  BY <1>7, <1>8, CountsStay DEF SameNonces
<1>10. Again'
  <2>1. HasNonce(retried'[t].cache, From(t)) /\ OnlyCounts(retried'[t].cache, From(t), next)
    BY <1>2, <1>9 DEF Put
  <2>2. Head(conflicts') = t /\ db'[From(t)].nonce + 1 = next /\ From(t)' = From(t)
    BY <1>2 DEF t, next, From
  <2>. QED
    BY <1>2, <2>1, <2>2 DEF Again, HasNonce, OnlyCounts, t, next, From
<1>11. Waiting'
  BY <1>2 DEF Nonces, Waiting, Redoing, Distinct, Elements, In
<1>12. Counts'
  BY <1>2, CountsKept DEF Nonces
<1>. QED
  BY <1>2, <1>10, <1>11, <1>12, RedoNonces DEF Redoing

\* The rest of a sequence of different things.
LEMMA DistinctTail ==
    ASSUME NEW R, NEW s \in Seq(R), s # <<>>, Distinct(s)
    PROVE  Distinct(Tail(s)) /\ Head(s) \notin Elements(Tail(s)) /\ Elements(Tail(s)) \subseteq Elements(s)
           /\ Head(s) \in Elements(s)
<1>. DEFINE r == Tail(s)
            h == Head(s)
<1>1. Len(s) \in Nat /\ Len(s) > 0 /\ DOMAIN s = 1 .. Len(s) /\ h = s[1]
      /\ DOMAIN r = 1 .. Len(s) - 1 /\ \A i \in 1 .. Len(s) - 1 : r[i] = s[i + 1]
  OBVIOUS
<1>. HIDE DEF r, h
<1>2. 1 \in DOMAIN s /\ \A i \in DOMAIN r : i + 1 \in DOMAIN s /\ i + 1 # 1 /\ r[i] = s[i + 1]
  BY <1>1
<1>3. \A i, j \in DOMAIN r : i + 1 = j + 1 => i = j
  BY <1>1
<1>4. Distinct(r)
  BY <1>2, <1>3 DEF Distinct
<1>5. \A i \in DOMAIN r : r[i] # h
  BY <1>1, <1>2 DEF Distinct
<1>. QED
  BY <1>1, <1>2, <1>4, <1>5 DEF Elements, r, h

\* The transaction executed again is committed.
LEMMA NoncesByReCommit == ASSUME IInv, Nonces, ReCommit PROVE Nonces'
<1>. DEFINE t == Head(conflicts)
            back == Refunded(retried[t], t, db[From(t)].bal)
            w == Tipped(back, db[Coinbase].bal)
<1>1. Machine /\ Executions /\ Lists /\ Sets /\ block \in Blocks
  BY Parts
<1>2. /\ phase = "reCommit" /\ UNCHANGED <<block, exec, plan, level>>
      /\ \/ phase' = "crashed"
         \/ /\ phase' = "redo" /\ retried' = Put(retried, t, w)
            /\ db' = Applied(db, retried'[t].cache)
            /\ results' = Append(results, <<t, TRUE>>)
            /\ conflicts' = Tail(conflicts)
  BY DEF ReCommit
<1>3. conflicts # <<>> /\ t \in DOMAIN retried /\ GoodSet(retried[t])
  BY <1>1, <1>2 DEF Sets
<1>4. /\ HasNonce(retried[t].cache, From(t))
      /\ OnlyCounts(retried[t].cache, From(t), db[From(t)].nonce + 1)
  BY <1>2 DEF Nonces, Again
<1>5. t \in Txs /\ From(t) \in Account /\ db[From(t)].bal \in Int /\ db[Coinbase].bal \in Int
  <2>1. t \in Txs
    BY <1>1, <1>3, HeadLemma
  <2>. QED
    BY <1>1, <2>1, AtLemma, Constants
<1>6. SameNonces(w.cache, retried[t].cache)
  <2>. HIDE DEF t
  <2>1. GoodSet(back)
    BY <1>1, <1>3, <1>5, RefundedLemma DEF Credited
  <2>2. SameNonces(back.cache, retried[t].cache)
    BY <1>1, <1>3, <1>5, NoncesOfParts
  <2>. HIDE DEF back
  <2>3. SameNonces(w.cache, back.cache)
    BY <1>1, <1>5, <2>1, NoncesOfParts
  <2>. HIDE DEF w
  <2>. QED
    BY <2>2, <2>3, SameNoncesTwice
<1>. HIDE DEF w, back
<1>7. HasNonce(w.cache, From(t)) /\ OnlyCounts(w.cache, From(t), db[From(t)].nonce + 1)
  BY <1>4, <1>6, CountsStay DEF SameNonces
<1>8. /\ Distinct(Tail(conflicts)) /\ t \notin Elements(Tail(conflicts))
      /\ \A u \in Elements(Tail(conflicts)) : ~In(u, results)
      /\ ~In(t, results)
  <2>1. Distinct(conflicts) /\ \A u \in Elements(conflicts) : ~In(u, results)
    BY <1>2 DEF Nonces, Waiting, Redoing
  <2>2. conflicts \in Seq(Txs)
    BY <1>1 DEF Lists, AllFinished
  <2>3. /\ Distinct(Tail(conflicts)) /\ t \notin Elements(Tail(conflicts))
        /\ Elements(Tail(conflicts)) \subseteq Elements(conflicts) /\ t \in Elements(conflicts)
    BY <1>3, <2>1, <2>2, DistinctTail
  <2>. HIDE DEF t
  <2>. QED
    BY <2>1, <2>3
<1>9. CASE phase' = "crashed"
  BY <1>2, <1>9, RedoNonces DEF Redoing, Waiting, Again, Counts
<1>10. CASE phase' = "redo"
  <2>1. /\ db' = Applied(db, w.cache) /\ results' = Append(results, <<t, TRUE>>)
        /\ conflicts' = Tail(conflicts)
    BY <1>2, <1>10 DEF Put
  <2>. HIDE DEF t
  <2>2. \A u : In(u, results') <=> In(u, results) \/ u = t
    <3>. DEFINE x == <<t, TRUE>>
    <3>1. results \in Seq(Txs \X BOOLEAN) /\ x \in Txs \X BOOLEAN /\ x[1] = t /\ results' = Append(results, x)
      BY <1>1, <1>5, <2>1 DEF Lists, Receipts
    <3>. HIDE DEF x
    <3>2. /\ Len(results) \in Nat /\ DOMAIN results = 1 .. Len(results)
          /\ DOMAIN results' = 1 .. Len(results) + 1
          /\ \A i \in 1 .. Len(results) : results'[i] = results[i]
          /\ results'[Len(results) + 1] = x
      <4>1. /\ results' \in Seq(Txs \X BOOLEAN) /\ Len(results') = Len(results) + 1
            /\ \A i \in 1 .. Len(results) : results'[i] = results[i]
            /\ results'[Len(results) + 1] = x
        BY <3>1, AppendLemma
      <4>. QED
        BY <3>1, <4>1
    <3>3. /\ \A i \in DOMAIN results' : i \in DOMAIN results \/ i = Len(results) + 1
          /\ \A i \in DOMAIN results : i \in DOMAIN results'
          /\ Len(results) + 1 \in DOMAIN results'
      BY <3>2
    <3>. QED
      BY <3>1, <3>2, <3>3 DEF In
  <2>3. Waiting'
    <3>1. Distinct(conflicts') /\ \A u \in Elements(conflicts') : ~In(u, results')
      BY <1>8, <2>1, <2>2
    <3>. QED
      BY <3>1 DEF Waiting, Distinct, Elements, In
  <2>4. ASSUME NEW a \in Account
        PROVE  db'[a].nonce = Cardinality({u \in Txs : From(u) = a /\ In(u, results')})
    <3>. DEFINE S == {u \in Txs : From(u) = a /\ In(u, results')}
    <3>1. db[a].nonce = Cardinality(Sent(a))
      BY <1>2 DEF Nonces, Counts
    <3>2. db'[a].nonce = IF HasNonce(w.cache, a) THEN w.cache[a][NonceKey] ELSE db[a].nonce
      BY <2>1, AppliedNonces
    <3>3. CASE a = From(t)
      <4>1. S = Sent(a) \cup {t}
        BY <1>5, <2>2, <3>3 DEF Sent
      <4>. HIDE DEF S
      <4>2. Cardinality(S) = Cardinality(Sent(a)) + 1
        BY <1>1, <1>5, <1>8, <3>3, <4>1, OneMore
      <4>3. db'[a].nonce = db[a].nonce + 1
        BY <1>7, <3>2, <3>3 DEF OnlyCounts
      <4>. QED
        BY <3>1, <4>2, <4>3 DEF S
    <3>4. CASE a # From(t)
      <4>1. S = Sent(a)
        BY <2>2, <3>4 DEF Sent
      <4>2. ~HasNonce(w.cache, a)
        BY <1>7, <3>4 DEF OnlyCounts
      <4>. QED
        BY <3>1, <3>2, <4>1, <4>2
    <3>. QED
      BY <3>3, <3>4
  <2>5. Counts'
    <3>1. \A a : Sent(a)' = {u \in Txs : From(u) = a /\ In(u, results')}
      BY <1>2 DEF Sent, In, Txs, From
    <3>. QED
      BY <2>4, <3>1 DEF Counts
  <2>6. Again'
    BY <1>10 DEF Again
  <2>. QED
    BY <1>2, <1>10, <2>3, <2>5, <2>6, RedoNonces DEF Redoing
<1>. QED
  BY <1>2, <1>9, <1>10

\* A step that changes nothing.
LEMMA NoncesByStuttering == ASSUME Nonces, UNCHANGED vars PROVE Nonces'
<1>1. UNCHANGED <<block, phase, plan, level, db, cp, exec, arrived, order, conflicts, results, retried>>
  BY DEF vars, mainVars
<1>2. /\ Txs' = Txs /\ \A l : Level(l)' = Level(l) /\ \A t : From(t)' = From(t)
  BY <1>1, LevelsStay
<1>3. Sending' /\ Unsent' /\ Ended'
  BY <1>1, <1>2 DEF Nonces, Sending, Unsent, Ended
<1>4. OfLevel' /\ Waiting'
  BY <1>1, <1>2 DEF Nonces, OfLevel, Waiting, Distinct, Elements, In
<1>5. Again'
  BY <1>1, <1>2 DEF Nonces, Again, HasNonce, OnlyCounts
<1>6. Counts'
  <2>1. \A a : Sent(a)' = Sent(a)
    BY <1>1, <1>2 DEF Sent, In
  <2>. QED
    BY <1>1, <2>1 DEF Nonces, Counts
<1>. QED
  BY <1>3, <1>4, <1>5, <1>6 DEF Nonces

\* A failure stays one.
LEMMA FailuresStay == ASSUME IInv, [Next]_vars, NoFailure' PROVE NoFailure
<1>1. Executions
  BY Parts
<1>2. ASSUME NEW t \in Txs, Goroutine(t) PROVE NoFailure
  <2>1. UNCHANGED block /\ \A u \in Txs : Finished(u) => exec'[u] = exec[u]
    BY <1>1, <1>2, GoroutineMoves
  <2>. QED
    BY <2>1 DEF NoFailure, Erred, VmFailed, Finished, Txs
<1>3. CASE UNCHANGED <<block, exec>>
  BY <1>3 DEF NoFailure, Erred, VmFailed, Finished, Txs
<1>4. CASE Main
  <2>1. UNCHANGED <<block, exec>>
    BY <1>4, Zenon DEF Main, Fill, StartLevel, Join, Detect, ReBuyGas, ReCall, ReCommit, NextLevel, mainVars
  <2>. QED
    BY <1>3, <2>1
<1>5. CASE UNCHANGED vars
  BY <1>3, <1>5 DEF vars
<1>. QED
  BY <1>2, <1>4, <1>5 DEF Next

\* What is said of nonces is inductive, if what a refund pays is not nothing.
LEMMA NextNonces == ASSUME IInv, Sound, Left * Price > 0, [Next]_vars PROVE Sound'
<1>. SUFFICES ASSUME NoFailure' PROVE Nonces'
  BY DEF Sound
<1>1. NoFailure /\ Nonces
  BY FailuresStay DEF Sound
<1>2. ASSUME NEW t \in Txs, Goroutine(t) PROVE Nonces'
  BY <1>1, <1>2, NoncesByGoroutine
<1>. QED
  BY <1>1, <1>2, NoncesByFill, NoncesByStartLevel, NoncesByJoin, NoncesByDetect, NoncesByReBuyGas,
     NoncesByReCall, NoncesByReCommit, NoncesByNextLevel, NoncesByStuttering DEF Next, Main

\* After a block without failures the nonce of every account is the number of its
\* transactions, whatever was committed in place and whatever was executed again
\* (process_transition.go:359-360, 443-450).  Two transactions of one sender that
\* are committed in place would count as one: the balance the first is refunded
\* conflicts with the second, so the gas left and its price must not be nothing.
THEOREM NoncesCount == ASSUME Left * Price > 0 PROVE Spec => []NonceCountsTransactions
<1>1. IInv /\ Sound => NonceCountsTransactions
  <2>. SUFFICES ASSUME IInv, Sound, phase = "done", NoFailure, NEW a \in Account
                PROVE  db[a].nonce = Cardinality({t \in Txs : From(t) = a})
    BY DEF NonceCountsTransactions, NoFailure
  <2>1. /\ Planned /\ Past /\ block \in Blocks /\ level \in Nat /\ plan.maxLevel \in Nat
    BY Parts
  <2>2. level = plan.maxLevel + 1 /\ db[a].nonce = Cardinality(Sent(a))
    BY DEF Sound, Nonces, Ended, Counts
  <2>3. ASSUME NEW t \in Txs PROVE In(t, results)
    <3>1. PICK l \in 0 .. plan.maxLevel : t \in Level(l)
      BY <2>1, LevelFacts DEF Planned, Level
    <3>2. l \in 0 .. level - 1
      BY <2>1, <2>2
    <3>3. Finished(t) /\ (exec[t].err \/ In(t, results))
      BY <2>1, <3>1, <3>2 DEF Past
    <3>. QED
      BY <3>3 DEF NoFailure, Erred
  <2>4. Sent(a) = {t \in Txs : From(t) = a}
    BY <2>3 DEF Sent
  <2>. QED
    BY <2>2, <2>4
<1>2. Init => Sound
  BY NoncesInit DEF Sound
<1>3. IInv /\ Sound /\ [Next]_vars => Sound'
  BY NextNonces
<1>. QED
  BY <1>1, <1>2, <1>3, InitInvariant, NextInvariant, PTL DEF Spec

-----------------------------------------------------------------------------
(* Levels take effect at once.                                             *)
(*                                                                         *)
(* A set holds v for the key k of account a.                               *)
Holds(cache, a, k, v) == <<a, k>> \in Entries(cache) /\ cache[a][k] = v

\* Where the entries of a set are.
LEMMA EntryLemma ==
    ASSUME NEW cache, NEW a, NEW k
    PROVE  <<a, k>> \in Entries(cache) <=> a \in DOMAIN cache /\ k \in DOMAIN cache[a]
BY DEF Entries

\* A stored value is there, and the others are what they were.
LEMMA StoredHolds ==
    ASSUME NEW set, GoodSet(set), NEW a \in Account, NEW k \in Keys,
           NEW v \in Int, k = NonceKey => v \in Nat
    PROVE  /\ Holds(Stored(set, a, k, v).cache, a, k, v)
           /\ \A b, l, x : Holds(set.cache, b, l, x) /\ <<b, l>> # <<a, k>>
                              => Holds(Stored(set, a, k, v).cache, b, l, x)
<1>. DEFINE cache == set.cache
            put == Put(At(cache, a), k, v)
            new == Stored(set, a, k, v).cache
<1>1. new = Put(cache, a, put)
  BY DEF Stored
<1>2. new[a] = put /\ \A b \in DOMAIN cache : b # a => new[b] = cache[b]
  BY <1>1 DEF Put
<1>3. put[k] = v /\ \A x \in DOMAIN At(cache, a) : x # k => put[x] = At(cache, a)[x]
  BY DEF Put
<1>4. Entries(new) = Entries(cache) \cup {<<a, k>>}
  BY StoredLemma
<1>. HIDE DEF new, cache, put
<1>5. ASSUME NEW b, NEW l, NEW x, Holds(cache, b, l, x), <<b, l>> # <<a, k>>
      PROVE  Holds(new, b, l, x)
  <2>1. <<b, l>> \in Entries(cache) /\ cache[b][l] = x
    BY <1>5 DEF Holds
  <2>2. b \in DOMAIN cache /\ l \in DOMAIN cache[b]
    BY <2>1, EntryLemma
  <2>3. CASE b = a
    <3>1. At(cache, a) = cache[a] /\ l # k
      BY <1>5, <2>2, <2>3 DEF At
    <3>2. new[b][l] = x
      BY <1>2, <1>3, <2>1, <2>2, <2>3, <3>1
    <3>. QED
      BY <1>4, <2>1, <3>2 DEF Holds
  <2>4. CASE b # a
    BY <1>2, <1>4, <2>1, <2>2, <2>4 DEF Holds
  <2>. QED
    BY <2>3, <2>4
<1>6. Holds(new, a, k, v)
  BY <1>2, <1>3, <1>4 DEF Holds
<1>. QED
  BY <1>5, <1>6 DEF new, cache

\* What the first update of a balance adds to, and a later one.
Base(set, a, k, base) ==
    IF <<a, k>> \in Entries(set.cache) THEN set.cache[a][k] ELSE IF k = BalanceKey THEN base ELSE 0

\* What a write set holds after an update.
LEMMA WriteHolds ==
    ASSUME NEW set, GoodSet(set), NEW a \in Account, NEW k \in Keys,
           NEW v \in Int, k = NonceKey => v \in Nat, NEW base \in Int
    PROVE  /\ Holds(WriteUpdate(set, a, k, v, base).cache, a, k,
                    IF k = NonceKey THEN v ELSE Base(set, a, k, base) + v)
           /\ \A b, l, x : Holds(set.cache, b, l, x) /\ <<b, l>> # <<a, k>>
                              => Holds(WriteUpdate(set, a, k, v, base).cache, b, l, x)
<1>. DEFINE sum == CASE k = BalanceKey    -> (IF Has(set, a, k) THEN ValueOf(set, a, k) ELSE base) + v
                     [] k = SubBalanceKey -> (IF Has(set, a, k) THEN ValueOf(set, a, k) ELSE 0) + v
                     [] OTHER             -> v
            total == IF k = NonceKey THEN v ELSE Base(set, a, k, base) + v
<1>1. Has(set, a, k) => ValueOf(set, a, k) \in Int
  BY ValueLemma
<1>2. Has(set, a, k) <=> <<a, k>> \in Entries(set.cache)
  BY HasEntry
<1>3. sum \in Int /\ (k = NonceKey => sum = v) /\ sum = total
  <2>1. CASE k = BalanceKey
    BY <2>1, <1>1, <1>2, KeysAssumption DEF Base, ValueOf
  <2>2. CASE k = SubBalanceKey
    BY <2>2, <1>1, <1>2, KeysAssumption DEF Base, ValueOf
  <2>3. CASE k \notin {SubBalanceKey, BalanceKey}
    BY <2>3 DEF Keys
  <2>. QED
    BY <2>1, <2>2, <2>3
<1>4. WriteUpdate(set, a, k, v, base) = Stored(set, a, k, sum)
  BY DEF WriteUpdate
<1>. HIDE DEF sum, total
<1>5. /\ Holds(Stored(set, a, k, sum).cache, a, k, sum)
      /\ \A b, l, x : Holds(set.cache, b, l, x) /\ <<b, l>> # <<a, k>>
                         => Holds(Stored(set, a, k, sum).cache, b, l, x)
  BY <1>3, StoredHolds
<1>. QED
  BY <1>3, <1>4, <1>5, Zenon DEF total

-----------------------------------------------------------------------------
(* What the write set of a transfer holds.                                 *)
Cost == TxGas * Price
Touches(t) == {From(t)} \cup (IF Value(t) > 0 THEN {To(t)} ELSE {})
Gain(t, a) == (IF a = From(t) THEN Left * Price ELSE 0) + (IF a = To(t) THEN Value(t) ELSE 0)

\* The write set of t: the debit s of its sender; then also the nonce n; then the
\* credit of the recipient, whose balance was one of V; in the end the new balance
\* of every account it touches.  Late is what counts of the write set of a
\* transaction that failed with its nonce counted.
Charged(c, t, s) == Entries(c) = {<<From(t), SubBalanceKey>>} /\ Holds(c, From(t), SubBalanceKey, s)
Numbered(c, t, s, n) ==
    /\ Entries(c) = {<<From(t), SubBalanceKey>>, <<From(t), NonceKey>>}
    /\ Holds(c, From(t), SubBalanceKey, s) /\ Holds(c, From(t), NonceKey, n)
Moved(c, t, s, n, V) ==
    /\ Entries(c) = {<<From(t), SubBalanceKey>>, <<From(t), NonceKey>>}
                       \cup (IF Value(t) > 0 THEN {<<To(t), BalanceKey>>} ELSE {})
    /\ Holds(c, From(t), SubBalanceKey, s) /\ Holds(c, From(t), NonceKey, n)
    /\ Value(t) > 0 => \E x \in V[To(t)] : Holds(c, To(t), BalanceKey, x + Value(t))
Whole(c, t, s, n, V) ==
    /\ Entries(c) = {<<From(t), SubBalanceKey>>, <<From(t), NonceKey>>} \cup (Touches(t) \X {BalanceKey})
    /\ Holds(c, From(t), SubBalanceKey, s) /\ Holds(c, From(t), NonceKey, n)
    /\ \A a \in Touches(t) : \E x \in V[a] : Holds(c, a, BalanceKey, x + Gain(t, a))
Late(c, t, n) == Entries(c) \subseteq {From(t)} \X Keys /\ Holds(c, From(t), NonceKey, n)

\* The types of a transaction, and the three keys.
LEMMA TxFacts ==
    ASSUME Machine, NEW t \in Txs
    PROVE  /\ From(t) \in Account /\ To(t) \in Account /\ Value(t) \in Nat /\ Cost \in Nat
           /\ BalanceKey \in Keys /\ SubBalanceKey \in Keys /\ NonceKey \in Keys
           /\ BalanceKey # SubBalanceKey /\ BalanceKey # NonceKey /\ SubBalanceKey # NonceKey
<1>1. block \in Blocks
  BY DEF Machine
<1>2. From(t) \in Account /\ To(t) \in Account /\ Value(t) \in Nat
  BY <1>1, BlockTypes
<1>3. Cost \in Nat
  BY Amounts DEF Cost
<1>. QED
  BY <1>2, <1>3, KeysAssumption DEF Keys

\* The charge of the gas, in a new set.
LEMMA ChargeWrites ==
    ASSUME Machine, NEW t \in Txs, NEW v \in Int
    PROVE  LET w == WriteUpdate(NewSet, From(t), SubBalanceKey, v, 0)
           IN  GoodSet(w) /\ Charged(w.cache, t, v)
<1>. DEFINE w == WriteUpdate(NewSet, From(t), SubBalanceKey, v, 0)
<1>1. /\ From(t) \in Account /\ SubBalanceKey \in Keys /\ SubBalanceKey # NonceKey
      /\ SubBalanceKey # BalanceKey /\ 0 \in Int
  BY TxFacts
<1>2. GoodSet(NewSet) /\ Entries(NewSet.cache) = {}
  BY EmptySet
<1>3. GoodSet(w) /\ Entries(w.cache) = Entries(NewSet.cache) \cup {<<From(t), SubBalanceKey>>}
  BY <1>1, <1>2, WriteLemma
<1>4. Holds(w.cache, From(t), SubBalanceKey, Base(NewSet, From(t), SubBalanceKey, 0) + v)
  <2>1. Holds(w.cache, From(t), SubBalanceKey,
              IF SubBalanceKey = NonceKey THEN v ELSE Base(NewSet, From(t), SubBalanceKey, 0) + v)
    BY <1>1, <1>2, WriteHolds
  <2>. HIDE DEF w
  <2>. QED
    BY <1>1, <2>1, Zenon
<1>. HIDE DEF w
<1>5. Base(NewSet, From(t), SubBalanceKey, 0) + v = v
  <2>1. Base(NewSet, From(t), SubBalanceKey, 0) = 0
    BY <1>1, <1>2, Zenon DEF Base
  <2>. QED
    BY <2>1
<1>6. GoodSet(w) /\ Charged(w.cache, t, v)
  BY <1>2, <1>3, <1>4, <1>5 DEF Charged
<1>. QED
  BY <1>6 DEF w

\* A debit added to the one that is there.
LEMMA DebitAdds ==
    ASSUME Machine, NEW t \in Txs, NEW set, GoodSet(set), NEW s \in Int,
           Holds(set.cache, From(t), SubBalanceKey, s)
    PROVE  LET w == WriteUpdate(set, From(t), SubBalanceKey, Value(t), 0)
           IN  /\ GoodSet(w) /\ Entries(w.cache) = Entries(set.cache)
               /\ Holds(w.cache, From(t), SubBalanceKey, s + Value(t))
               /\ \A b, l, x : Holds(set.cache, b, l, x) /\ <<b, l>> # <<From(t), SubBalanceKey>>
                                  => Holds(w.cache, b, l, x)
<1>. DEFINE w == WriteUpdate(set, From(t), SubBalanceKey, Value(t), 0)
<1>1. /\ From(t) \in Account /\ SubBalanceKey \in Keys /\ SubBalanceKey # NonceKey
      /\ SubBalanceKey # BalanceKey /\ 0 \in Int /\ Value(t) \in Int
  BY TxFacts
<1>2. <<From(t), SubBalanceKey>> \in Entries(set.cache) /\ set.cache[From(t)][SubBalanceKey] = s
  BY DEF Holds
<1>3. GoodSet(w) /\ Entries(w.cache) = Entries(set.cache) \cup {<<From(t), SubBalanceKey>>}
  BY <1>1, WriteLemma
<1>4. Base(set, From(t), SubBalanceKey, 0) = s
  BY <1>2, Zenon DEF Base
<1>5. /\ Holds(w.cache, From(t), SubBalanceKey,
              IF SubBalanceKey = NonceKey THEN Value(t) ELSE Base(set, From(t), SubBalanceKey, 0) + Value(t))
      /\ \A b, l, x : Holds(set.cache, b, l, x) /\ <<b, l>> # <<From(t), SubBalanceKey>>
                         => Holds(w.cache, b, l, x)
  BY <1>1, WriteHolds
<1>. HIDE DEF w
<1>6. Holds(w.cache, From(t), SubBalanceKey, s + Value(t))
  BY <1>1, <1>4, <1>5, Zenon
<1>7. Entries(w.cache) = Entries(set.cache)
  BY <1>2, <1>3
<1>8. /\ GoodSet(w) /\ Entries(w.cache) = Entries(set.cache)
      /\ Holds(w.cache, From(t), SubBalanceKey, s + Value(t))
      /\ \A b, l, x : Holds(set.cache, b, l, x) /\ <<b, l>> # <<From(t), SubBalanceKey>>
                         => Holds(w.cache, b, l, x)
  BY <1>3, <1>5, <1>6, <1>7
<1>. QED
  BY <1>8 DEF w

\* The value charged beside the gas, by a transaction that is executed again.
LEMMA ChargeMore ==
    ASSUME Machine, NEW t \in Txs, NEW set, GoodSet(set), NEW s \in Int, Charged(set.cache, t, s)
    PROVE  LET w == WriteUpdate(set, From(t), SubBalanceKey, Value(t), 0)
           IN  GoodSet(w) /\ Charged(w.cache, t, s + Value(t))
<1>. DEFINE w == WriteUpdate(set, From(t), SubBalanceKey, Value(t), 0)
<1>1. Holds(set.cache, From(t), SubBalanceKey, s) /\ Entries(set.cache) = {<<From(t), SubBalanceKey>>}
  BY DEF Charged
<1>2. /\ GoodSet(w) /\ Entries(w.cache) = Entries(set.cache)
      /\ Holds(w.cache, From(t), SubBalanceKey, s + Value(t))
  BY <1>1, DebitAdds
<1>. HIDE DEF w
<1>3. GoodSet(w) /\ Charged(w.cache, t, s + Value(t))
  BY <1>1, <1>2 DEF Charged
<1>. QED
  BY <1>3 DEF w

\* The nonce.
LEMMA NumberWrites ==
    ASSUME Machine, NEW t \in Txs, NEW set, GoodSet(set), NEW s \in Int, NEW n \in Nat,
           Charged(set.cache, t, s)
    PROVE  LET w == WriteUpdate(set, From(t), NonceKey, n, 0)
           IN  GoodSet(w) /\ Numbered(w.cache, t, s, n)
<1>. DEFINE w == WriteUpdate(set, From(t), NonceKey, n, 0)
<1>1. /\ From(t) \in Account /\ NonceKey \in Keys /\ SubBalanceKey # NonceKey /\ 0 \in Int /\ n \in Int
  BY TxFacts
<1>2. Holds(set.cache, From(t), SubBalanceKey, s) /\ Entries(set.cache) = {<<From(t), SubBalanceKey>>}
  BY DEF Charged
<1>3. GoodSet(w) /\ Entries(w.cache) = Entries(set.cache) \cup {<<From(t), NonceKey>>}
  BY <1>1, WriteLemma
<1>4. /\ Holds(w.cache, From(t), NonceKey,
               IF NonceKey = NonceKey THEN n ELSE Base(set, From(t), NonceKey, 0) + n)
      /\ \A b, l, x : Holds(set.cache, b, l, x) /\ <<b, l>> # <<From(t), NonceKey>>
                         => Holds(w.cache, b, l, x)
  BY <1>1, WriteHolds
<1>. HIDE DEF w
<1>5. <<From(t), SubBalanceKey>> # <<From(t), NonceKey>>
  BY <1>1
<1>6. Holds(w.cache, From(t), NonceKey, n) /\ Holds(w.cache, From(t), SubBalanceKey, s)
  BY <1>2, <1>4, <1>5, Zenon
<1>7. GoodSet(w) /\ Numbered(w.cache, t, s, n)
  BY <1>2, <1>3, <1>6 DEF Numbered
<1>. QED
  BY <1>7 DEF w

\* The debit of the value.
LEMMA DebitWrites ==
    ASSUME Machine, NEW t \in Txs, NEW set, GoodSet(set), NEW s \in Int, NEW n,
           Numbered(set.cache, t, s, n)
    PROVE  LET w == WriteUpdate(set, From(t), SubBalanceKey, Value(t), 0)
           IN  GoodSet(w) /\ Numbered(w.cache, t, s + Value(t), n)
<1>. DEFINE w == WriteUpdate(set, From(t), SubBalanceKey, Value(t), 0)
<1>1. Holds(set.cache, From(t), SubBalanceKey, s) /\ Holds(set.cache, From(t), NonceKey, n)
  BY DEF Numbered
<1>2. <<From(t), NonceKey>> # <<From(t), SubBalanceKey>>
  BY TxFacts
<1>3. /\ GoodSet(w) /\ Entries(w.cache) = Entries(set.cache)
      /\ Holds(w.cache, From(t), SubBalanceKey, s + Value(t))
      /\ \A b, l, x : Holds(set.cache, b, l, x) /\ <<b, l>> # <<From(t), SubBalanceKey>>
                         => Holds(w.cache, b, l, x)
  BY <1>1, DebitAdds
<1>. HIDE DEF w
<1>4. Holds(w.cache, From(t), NonceKey, n)
  BY <1>1, <1>2, <1>3, Zenon
<1>5. GoodSet(w) /\ Numbered(w.cache, t, s + Value(t), n)
  BY <1>3, <1>4 DEF Numbered
<1>. QED
  BY <1>5 DEF w

\* The credit of the recipient.
LEMMA CreditWrites ==
    ASSUME Machine, NEW t \in Txs, NEW set, GoodSet(set), NEW s, NEW n,
           Numbered(set.cache, t, s, n), NEW base \in Int
    PROVE  LET w == WriteUpdate(set, To(t), BalanceKey, Value(t), base)
           IN  /\ GoodSet(w) /\ Entries(w.cache) = Entries(set.cache) \cup {<<To(t), BalanceKey>>}
               /\ Holds(w.cache, To(t), BalanceKey, base + Value(t))
               /\ Holds(w.cache, From(t), SubBalanceKey, s) /\ Holds(w.cache, From(t), NonceKey, n)
<1>. DEFINE w == WriteUpdate(set, To(t), BalanceKey, Value(t), base)
<1>1. /\ To(t) \in Account /\ BalanceKey \in Keys /\ BalanceKey # NonceKey /\ BalanceKey # SubBalanceKey
      /\ Value(t) \in Int
  BY TxFacts
<1>2. /\ Holds(set.cache, From(t), SubBalanceKey, s) /\ Holds(set.cache, From(t), NonceKey, n)
      /\ Entries(set.cache) = {<<From(t), SubBalanceKey>>, <<From(t), NonceKey>>}
  BY DEF Numbered
<1>3. GoodSet(w) /\ Entries(w.cache) = Entries(set.cache) \cup {<<To(t), BalanceKey>>}
  BY <1>1, WriteLemma
<1>4. Base(set, To(t), BalanceKey, base) = base
  <2>1. <<To(t), BalanceKey>> \notin Entries(set.cache)
    BY <1>1, <1>2
  <2>. QED
    BY <2>1, Zenon DEF Base
<1>5. /\ Holds(w.cache, To(t), BalanceKey,
               IF BalanceKey = NonceKey THEN Value(t) ELSE Base(set, To(t), BalanceKey, base) + Value(t))
      /\ \A b, l, x : Holds(set.cache, b, l, x) /\ <<b, l>> # <<To(t), BalanceKey>>
                         => Holds(w.cache, b, l, x)
  BY <1>1, WriteHolds
<1>. HIDE DEF w
<1>6. <<From(t), SubBalanceKey>> # <<To(t), BalanceKey>> /\ <<From(t), NonceKey>> # <<To(t), BalanceKey>>
  BY <1>1
<1>7. /\ Holds(w.cache, To(t), BalanceKey, base + Value(t))
      /\ Holds(w.cache, From(t), SubBalanceKey, s) /\ Holds(w.cache, From(t), NonceKey, n)
  BY <1>1, <1>2, <1>4, <1>5, <1>6, Zenon
<1>. QED
  BY <1>3, <1>7 DEF w

\* The transfer.
LEMMA MoveWrites ==
    ASSUME Machine, NEW t \in Txs, NEW set, GoodSet(set), NEW s \in Int, NEW n, NEW V,
           Numbered(set.cache, t, s, n), NEW b \in Int, b \in V[To(t)], Value(t) > 0
    PROVE  LET w == Transfer(set, t, b)
           IN  GoodSet(w) /\ Moved(w.cache, t, s + Value(t), n, V)
<1>. DEFINE m == WriteUpdate(set, From(t), SubBalanceKey, Value(t), 0)
            w == WriteUpdate(m, To(t), BalanceKey, Value(t), b)
<1>1. GoodSet(m) /\ Numbered(m.cache, t, s + Value(t), n)
  BY DebitWrites
<1>2. Transfer(set, t, b) = w
  BY DEF Transfer
<1>. HIDE DEF m
<1>3. /\ GoodSet(w) /\ Entries(w.cache) = Entries(m.cache) \cup {<<To(t), BalanceKey>>}
      /\ Holds(w.cache, To(t), BalanceKey, b + Value(t))
      /\ Holds(w.cache, From(t), SubBalanceKey, s + Value(t)) /\ Holds(w.cache, From(t), NonceKey, n)
  BY <1>1, CreditWrites
<1>. HIDE DEF w
<1>4. Entries(m.cache) = {<<From(t), SubBalanceKey>>, <<From(t), NonceKey>>}
  BY <1>1 DEF Numbered
<1>5. Moved(w.cache, t, s + Value(t), n, V)
  BY <1>3, <1>4 DEF Moved
<1>. QED
  BY <1>2, <1>3, <1>5

\* A transfer of nothing.
LEMMA MoveNothing ==
    ASSUME NEW c, Machine, NEW t \in Txs, NEW s \in Int, NEW n, NEW V, Numbered(c, t, s, n), Value(t) = 0
    PROVE  Moved(c, t, s + Value(t), n, V)
<1>1. s + Value(t) = s
  OBVIOUS
<1>. QED
  BY <1>1 DEF Moved, Numbered

\* The refund.
LEMMA RefundIs ==
    ASSUME Machine, Left * Price > 0, NEW t \in Txs, NEW set, GoodSet(set), NEW b \in Int
    PROVE  LET w == Refunded(set, t, b)
           IN  /\ GoodSet(w) /\ Entries(w.cache) = Entries(set.cache) \cup {<<From(t), BalanceKey>>}
               /\ Holds(w.cache, From(t), BalanceKey, Base(set, From(t), BalanceKey, b) + Left * Price)
               /\ \A a, l, x : Holds(set.cache, a, l, x) /\ <<a, l>> # <<From(t), BalanceKey>>
                                  => Holds(w.cache, a, l, x)
<1>. DEFINE back == Left * Price
            w == WriteUpdate(set, From(t), BalanceKey, back, b)
<1>1. From(t) \in Account /\ BalanceKey \in Keys /\ BalanceKey # NonceKey /\ back \in Int
  BY TxFacts, Amounts
<1>2. Refunded(set, t, b) = w
  <2>1. back # 0
    BY <1>1
  <2>. QED
    BY <2>1, Zenon DEF Refunded
<1>. HIDE DEF back
<1>3. GoodSet(w) /\ Entries(w.cache) = Entries(set.cache) \cup {<<From(t), BalanceKey>>}
  BY <1>1, WriteLemma
<1>4. /\ Holds(w.cache, From(t), BalanceKey,
               IF BalanceKey = NonceKey THEN back ELSE Base(set, From(t), BalanceKey, b) + back)
      /\ \A a, l, x : Holds(set.cache, a, l, x) /\ <<a, l>> # <<From(t), BalanceKey>>
                         => Holds(w.cache, a, l, x)
  BY <1>1, WriteHolds
<1>. HIDE DEF w
<1>5. Holds(w.cache, From(t), BalanceKey, Base(set, From(t), BalanceKey, b) + back)
  BY <1>1, <1>4, Zenon
<1>. QED
  BY <1>2, <1>3, <1>4, <1>5 DEF back

\* What a write set holds after the refund.
LEMMA WholeWrites ==
    ASSUME Machine, Left * Price > 0, NEW t \in Txs, NEW set, GoodSet(set), NEW s, NEW n, NEW V,
           Moved(set.cache, t, s, n, V), NEW b \in Int, b \in V[From(t)], \A x \in V[To(t)] : x \in Int
    PROVE  Whole(Refunded(set, t, b).cache, t, s, n, V)
<1>. DEFINE back == Left * Price
            w == Refunded(set, t, b)
            from == From(t)
            to == To(t)
            v == Value(t)
<1>1. /\ v \in Nat /\ back \in Int /\ BalanceKey # SubBalanceKey /\ BalanceKey # NonceKey
  BY TxFacts, Amounts
<1>2. /\ Entries(w.cache) = Entries(set.cache) \cup {<<from, BalanceKey>>}
      /\ Holds(w.cache, from, BalanceKey, Base(set, from, BalanceKey, b) + back)
      /\ \A a, l, x : Holds(set.cache, a, l, x) /\ <<a, l>> # <<from, BalanceKey>>
                         => Holds(w.cache, a, l, x)
  BY RefundIs
<1>. HIDE DEF w, back
<1>3. /\ Entries(set.cache) = {<<from, SubBalanceKey>>, <<from, NonceKey>>}
                                \cup (IF v > 0 THEN {<<to, BalanceKey>>} ELSE {})
      /\ Holds(set.cache, from, SubBalanceKey, s) /\ Holds(set.cache, from, NonceKey, n)
      /\ v > 0 => \E x \in V[to] : Holds(set.cache, to, BalanceKey, x + v)
  BY DEF Moved
<1>4. Holds(w.cache, from, SubBalanceKey, s) /\ Holds(w.cache, from, NonceKey, n)
  BY <1>1, <1>2, <1>3
<1>5. Entries(w.cache) = {<<from, SubBalanceKey>>, <<from, NonceKey>>} \cup (Touches(t) \X {BalanceKey})
  BY <1>2, <1>3 DEF Touches
<1>6. ASSUME NEW a \in Touches(t)
      PROVE  \E x \in V[a] : Holds(w.cache, a, BalanceKey, x + Gain(t, a))
  <2>1. CASE a # from
    <3>1. a = to /\ v > 0
      BY <2>1 DEF Touches
    <3>2. PICK x \in V[to] : Holds(set.cache, to, BalanceKey, x + v)
      BY <1>3, <3>1
    <3>3. Holds(w.cache, to, BalanceKey, x + v)
      BY <1>2, <2>1, <3>1, <3>2
    <3>4. Gain(t, a) = v
      BY <2>1, <3>1, <1>1 DEF Gain
    <3>. QED
      BY <3>1, <3>2, <3>3, <3>4
  <2>2. CASE a = from /\ (from # to \/ v = 0)
    <3>1. <<from, BalanceKey>> \notin Entries(set.cache)
      BY <1>1, <1>3, <2>2
    <3>2. Base(set, from, BalanceKey, b) = b
      BY <3>1, Zenon DEF Base
    <3>3. Gain(t, a) = back
      BY <1>1, <2>2 DEF Gain, back
    <3>. QED
      BY <1>2, <2>2, <3>2, <3>3
  <2>3. CASE a = from /\ from = to /\ v > 0
    <3>1. PICK x \in V[to] : Holds(set.cache, to, BalanceKey, x + v)
      BY <1>3, <2>3
    <3>2. Base(set, from, BalanceKey, b) = x + v
      BY <2>3, <3>1 DEF Base, Holds
    <3>3. Gain(t, a) = back + v
      BY <1>1, <2>3 DEF Gain, back
    <3>4. x + v + back = x + (back + v)
      BY <1>1, <3>1
    <3>5. Holds(w.cache, a, BalanceKey, x + Gain(t, a))
      BY <1>2, <2>3, <3>2, <3>3, <3>4
    <3>. QED
      BY <2>3, <3>1, <3>5
  <2>. QED
    BY <1>1, <2>1, <2>2, <2>3
<1>7. Whole(w.cache, t, s, n, V)
  BY <1>4, <1>5, <1>6 DEF Whole
<1>. QED
  BY <1>7 DEF w

\* The refund of a transaction that failed with its nonce counted.
LEMMA LateStays ==
    ASSUME Machine, Left * Price > 0, NEW t \in Txs, NEW set, GoodSet(set), NEW n, NEW b \in Int,
           Late(set.cache, t, n)
    PROVE  Late(Refunded(set, t, b).cache, t, n)
<1>. DEFINE w == Refunded(set, t, b)
<1>1. BalanceKey # NonceKey /\ BalanceKey \in Keys
  BY TxFacts
<1>2. /\ Entries(w.cache) = Entries(set.cache) \cup {<<From(t), BalanceKey>>}
      /\ \A a, l, x : Holds(set.cache, a, l, x) /\ <<a, l>> # <<From(t), BalanceKey>>
                         => Holds(w.cache, a, l, x)
  BY RefundIs
<1>. HIDE DEF w
<1>3. Late(w.cache, t, n)
  BY <1>1, <1>2 DEF Late
<1>. QED
  BY <1>3 DEF w

\* A failure after the nonce was counted.
LEMMA LateNumbered ==
    ASSUME Machine, NEW t \in Txs, NEW c, NEW s, NEW n, Numbered(c, t, s, n)
    PROVE  Late(c, t, n)
BY TxFacts DEF Late, Numbered

-----------------------------------------------------------------------------
(* What a goroutine has read and written, at each program counter.         *)
(*                                                                         *)
(* Gifts: the balances buyGas gives to an account while the level runs.    *)
(* View: the balances of the accounts that t may see.  A sender sees one   *)
(* buyGas gave it.                                                         *)
Gifts(a) == {2 * Want(u) : u \in {v \in Level(level) : From(v) = a}}
View(t) == [a \in Account |-> IF a = From(t) THEN Gifts(a) ELSE {db[a].bal} \cup Gifts(a)]

\* buyGas gives its sender less than x.
Short(t, x) == \E u \in Level(level) : From(u) = From(t) /\ 2 * Want(u) < x

Beginning == {"start", "pool", "setBalance", "have"}
Reads(e, t) ==
    /\ Entries(e.rset.cache) \subseteq Names(t) \X {BalanceKey}
    /\ e.pc \notin Beginning /\ ~e.err => <<From(t), BalanceKey>> \in Entries(e.rset.cache)
    /\ e.pc \in {"refund"} \cup Repaid /\ Succeeds(e) /\ Value(t) > 0
          => <<To(t), BalanceKey>> \in Entries(e.rset.cache)
Writes(e, t, n, V) ==
    /\ e.pc \in Uncharged => e.wset = NewSet
    /\ e.pc = "canTransfer" => Charged(e.wset.cache, t, Cost)
    /\ e.pc \in {"call", "credit"} => Numbered(e.wset.cache, t, Cost, n)
    /\ e.pc = "refund" /\ Succeeds(e) => Moved(e.wset.cache, t, Cost + Value(t), n, V)
    /\ e.pc \in Repaid /\ Succeeds(e) => Whole(e.wset.cache, t, Cost + Value(t), n, V)
    /\ e.vmErr => \/ Late(e.wset.cache, t, n)
                  \/ e.pc \in {"send", "done"} /\ Charged(e.wset.cache, t, Cost)
Fails(e, t) ==
    /\ e.pc \in Uncharged \cup {"canTransfer", "call", "credit"} => Succeeds(e)
    /\ e.pc = "credit" => Value(t) > 0
    /\ e.vmErr => ~e.err /\ Short(t, Value(t))
    /\ e.err => Short(t, Want(t))
Stage(e, t, n, V) == Reads(e, t) /\ Writes(e, t, n, V) /\ Fails(e, t)

\* A step that changes neither set.
LEMMA StageOnwards ==
    ASSUME NEW e, NEW f, NEW t, NEW n, NEW V, Stage(e, t, n, V),
           f.rset = e.rset, f.wset = e.wset, f.err = e.err, f.vmErr = e.vmErr,
           f.pc \in Beginning \/ e.pc \notin Beginning,
           \/ f.pc \in Uncharged /\ e.pc \in Uncharged
           \/ f.pc \in Repaid /\ e.pc \in Repaid /\ (e.pc \in {"send", "done"} => f.pc \in {"send", "done"})
    PROVE  Stage(f, t, n, V)
<1>1. Succeeds(f) <=> Succeeds(e)
  BY DEF Succeeds
<1>2. Reads(f, t)
  BY <1>1 DEF Stage, Reads, Repaid, Uncharged
<1>3. Fails(f, t)
  BY <1>1 DEF Stage, Fails, Repaid, Uncharged
<1>4. Writes(f, t, n, V)
  BY <1>1 DEF Stage, Writes, Repaid, Uncharged
<1>. QED
  BY <1>2, <1>3, <1>4 DEF Stage

\* What t finds: the next nonce of its sender, and in the copy the balances of its
\* view; a pool that has gas for it.
Finds(t, n, V) ==
    /\ n \in Nat /\ n = cp[From(t)].nonce + 1 /\ \A x \in V[To(t)] : x \in Int
    /\ exec[t].pc \notin {"start", "pool", "setBalance"} =>
           /\ cp[From(t)].bal \in V[From(t)] /\ cp[To(t)].bal \in V[To(t)]
           /\ \E u \in Level(level) : From(u) = From(t) /\ cp[From(t)].bal = 2 * Want(u)
    /\ exec[t].pc = "loadGas" => pools[exec[t].pool] >= TxGas

\* Each step of a goroutine leads to the next stage.
LEMMA GoroutineStages ==
    ASSUME Machine, Executions, Left * Price > 0, Tip = 0, NEW t \in Txs, Goroutine(t),
           NEW n, NEW V, Finds(t, n, V), Stage(exec[t], t, n, V)
    PROVE  Stage(exec'[t], t, n, V)
<1>. DEFINE e == exec[t]
            from == From(t)
            to == To(t)
            v == Value(t)
<1>1. /\ from \in Account /\ to \in Account /\ v \in Nat /\ Cost \in Nat
      /\ DOMAIN exec = Txs /\ GoodExec(e, Txs, from)
      /\ \A a \in Account : cp[a].bal \in Int /\ cp[a].nonce \in Nat
  BY AtLemma, TxFacts
<1>2. DOMAIN e = Fields /\ GoodSet(e.wset) /\ GoodSet(e.rset) /\ Stage(e, t, n, V)
  BY <1>1 DEF GoodExec
<1>3. Reads(e, t) /\ Writes(e, t, n, V) /\ Fails(e, t)
  BY <1>2 DEF Stage
<1>4. n \in Nat /\ n = cp[from].nonce + 1 /\ (\A x \in V[to] : x \in Int)
  BY DEF Finds
<1>5. ASSUME e.pc \notin {"start", "pool", "setBalance"}
      PROVE  /\ cp[from].bal \in V[from] /\ cp[to].bal \in V[to]
             /\ \A x : cp[from].bal < x => Short(t, x)
  BY <1>5 DEF Finds, Short
<1>6. Names(t) = {from, to}
  BY DEF Names
<1>7. ASSUME NEW r, NEW a \in {from, to}, NEW b \in Int, r = ReadUpdate(e.rset, a, BalanceKey, b)
      PROVE  /\ Entries(r.cache) = Entries(e.rset.cache) \cup {<<a, BalanceKey>>}
             /\ Entries(r.cache) \subseteq Names(t) \X {BalanceKey}
  <2>1. Entries(ReadUpdate(e.rset, a, BalanceKey, b).cache) = Entries(e.rset.cache) \cup {<<a, BalanceKey>>}
    <3>1. a \in Account /\ GoodSet(e.rset)
      BY <1>1, <1>2, <1>7
    <3>. HIDE DEF e
    <3>. QED
      BY <3>1, <1>7, ReadLemma
  <2>2. Entries(r.cache) = Entries(e.rset.cache) \cup {<<a, BalanceKey>>}
    BY <1>7, <2>1, Zenon
  <2>3. Entries(e.rset.cache) \subseteq Names(t) \X {BalanceKey}
    BY <1>3 DEF Reads
  <2>. QED
    BY <1>6, <1>7, <2>2, <2>3
<1>8. ASSUME NEW f, exec' = [exec EXCEPT ![t] = f], Stage(f, t, n, V)
      PROVE  Stage(exec'[t], t, n, V)
  <2>1. exec'[t] = f
    BY <1>1, <1>8
  <2>. QED
    BY <1>8, <2>1
<1>9. ASSUME NEW pc, exec' = [exec EXCEPT ![t].pc = pc],
             pc \in Beginning \/ e.pc \notin Beginning,
             \/ pc \in Uncharged /\ e.pc \in Uncharged
             \/ pc \in Repaid /\ e.pc \in Repaid /\ (e.pc \in {"send", "done"} => pc \in {"send", "done"})
      PROVE  Stage(exec'[t], t, n, V)
  <2>. DEFINE f == [e EXCEPT !.pc = pc]
  <2>1. exec' = [exec EXCEPT ![t] = f] /\ f.pc = pc
        /\ f.rset = e.rset /\ f.wset = e.wset /\ f.err = e.err /\ f.vmErr = e.vmErr
    BY <1>1, <1>2, <1>9 DEF Fields
  <2>. HIDE DEF f, e
  <2>2. Stage(f, t, n, V)
    BY <1>2, <1>9, <2>1, StageOnwards
  <2>. QED
    BY <1>8, <2>1, <2>2
<1>10. CASE MakePool(t)
  BY <1>9, <1>10 DEF MakePool, Goto, IsAt, Beginning, Uncharged
<1>11. CASE SetBalance(t)
  BY <1>9, <1>11 DEF SetBalance, Goto, IsAt, Beginning, Uncharged
<1>12. CASE Send(t)
  BY <1>9, <1>12 DEF Send, Goto, IsAt, Beginning, Repaid
<1>13. CASE AddGas(t)
  <2>1. exec' = [exec EXCEPT ![t].pc = "send"] /\ e.pc = "addGas"
    BY <1>13 DEF AddGas, Goto, IsAt
  <2>. QED
    BY <1>9, <2>1 DEF Beginning, Repaid
<1>14. CASE PassPool(t)
  <2>. DEFINE f == [e EXCEPT !.pc = "setBalance", !.pool = gpVar]
  <2>1. exec' = [exec EXCEPT ![t] = f] /\ f.pc = "setBalance" /\ e.pc = "pool"
        /\ f.rset = e.rset /\ f.wset = e.wset /\ f.err = e.err /\ f.vmErr = e.vmErr
    BY <1>2, <1>14 DEF PassPool, Fields, IsAt
  <2>. HIDE DEF f, e
  <2>2. Stage(f, t, n, V)
    BY <1>2, <2>1, StageOnwards DEF Beginning, Uncharged
  <2>. QED
    BY <1>8, <2>1, <2>2
<1>15. CASE LoadPool(t)
  <2>. DEFINE f == [e EXCEPT !.pc = "addGas", !.reg = pools[e.pool]]
  <2>1. exec' = [exec EXCEPT ![t] = f] /\ f.pc = "addGas" /\ e.pc = "loadPool"
        /\ f.rset = e.rset /\ f.wset = e.wset /\ f.err = e.err /\ f.vmErr = e.vmErr
    BY <1>2, <1>15 DEF LoadPool, Fields, IsAt
  <2>. HIDE DEF f, e
  <2>2. Stage(f, t, n, V)
    BY <1>2, <2>1, StageOnwards DEF Beginning, Repaid
  <2>. QED
    BY <1>8, <2>1, <2>2
<1>16. CASE PayTip(t)
  <2>. DEFINE w == Tipped(e.wset, cp[Coinbase].bal)
              f == [e EXCEPT !.pc = "send", !.wset = w]
  <2>1. w = e.wset
    BY Zenon DEF Tipped
  <2>2. exec' = [exec EXCEPT ![t] = f] /\ e.pc = "tip"
    BY <1>16 DEF PayTip, IsAt
  <2>. HIDE DEF w
  <2>3. f.pc = "send" /\ f.rset = e.rset /\ f.wset = e.wset /\ f.err = e.err /\ f.vmErr = e.vmErr
    BY <1>2, <2>1 DEF Fields
  <2>. HIDE DEF f, e
  <2>4. Stage(f, t, n, V)
    BY <1>2, <2>2, <2>3, StageOnwards DEF Beginning, Repaid
  <2>. QED
    BY <1>8, <2>2, <2>4
<1>17. ASSUME exec' = [exec EXCEPT ![t] = Failed(e)], Short(t, Want(t)), ~e.vmErr
       PROVE  Stage(exec'[t], t, n, V)
  <2>. DEFINE f == Failed(e)
  <2>1. f.pc = "send" /\ f.err = TRUE /\ f.rset = NewSet /\ f.wset = NewSet /\ f.vmErr = e.vmErr
    BY <1>2 DEF Failed, Fields
  <2>2. Entries(NewSet.cache) = {}
    BY EmptySet
  <2>. HIDE DEF f, e
  <2>3. Reads(f, t)
    BY <2>1, <2>2 DEF Reads, Succeeds
  <2>4. Writes(f, t, n, V)
    BY <1>17, <2>1 DEF Writes, Succeeds, Uncharged
  <2>5. Fails(f, t)
    BY <1>17, <2>1 DEF Fails, Uncharged
  <2>6. Stage(f, t, n, V)
    BY <2>3, <2>4, <2>5 DEF Stage
  <2>. QED
    BY <1>8, <1>17, <2>6 DEF f
<1>18. CASE Have(t)
  <2>. DEFINE have == cp[from].bal
              r == ReadUpdate(e.rset, from, BalanceKey, have)
              f == [e EXCEPT !.pc = "loadGas", !.rset = r]
  <2>1. exec' = [exec EXCEPT ![t] = IF have < Want(t) THEN Failed(e) ELSE f] /\ e.pc = "have"
    BY <1>18 DEF Have, IsAt
  <2>2. f.wset = e.wset /\ f.pc = "loadGas" /\ f.err = e.err /\ f.vmErr = e.vmErr /\ f.rset = r
    BY <1>2 DEF Fields
  <2>3. Succeeds(e) /\ e.wset = NewSet
    BY <1>3, <2>1 DEF Fails, Writes, Uncharged
  <2>4. have \in Int /\ \A x : have < x => Short(t, x)
    BY <1>1, <1>5, <2>1
  <2>5. /\ Entries(r.cache) = Entries(e.rset.cache) \cup {<<from, BalanceKey>>}
        /\ Entries(r.cache) \subseteq Names(t) \X {BalanceKey}
    BY <1>7, <2>4
  <2>. HIDE DEF f, r, e, have
  <2>6. CASE have < Want(t)
    BY <1>17, <2>1, <2>3, <2>4, <2>6 DEF Succeeds
  <2>7. CASE ~(have < Want(t))
    <3>1. Reads(f, t)
      BY <2>2, <2>5 DEF Reads, Repaid
    <3>2. Writes(f, t, n, V)
      BY <2>2, <2>3 DEF Writes, Succeeds, Uncharged, Repaid
    <3>3. Fails(f, t)
      BY <2>2, <2>3 DEF Fails, Succeeds
    <3>4. Stage(f, t, n, V)
      BY <3>1, <3>2, <3>3 DEF Stage
    <3>. QED
      BY <1>8, <2>1, <2>7, <3>4
  <2>. QED
    BY <2>6, <2>7
<1>19. CASE LoadGas(t)
  <2>. DEFINE g == pools[e.pool]
              f == [e EXCEPT !.pc = "subGas", !.reg = g]
  <2>1. exec' = [exec EXCEPT ![t] = IF g < TxGas THEN Failed(e) ELSE f] /\ e.pc = "loadGas"
    BY <1>19 DEF LoadGas, IsAt
  <2>2. f.rset = e.rset /\ f.wset = e.wset /\ f.pc = "subGas" /\ f.err = e.err /\ f.vmErr = e.vmErr
    BY <1>2 DEF Fields
  <2>3. ~(g < TxGas)
    <3>1. g >= TxGas
      BY <2>1 DEF Finds
    <3>2. g \in Int /\ TxGas \in Int
      <4>1. e.pool \in {0} \cup Txs
        BY <1>1 DEF GoodExec
      <4>2. \A p \in {0} \cup Txs : pools[p] \in 0 .. Wrap - 1
        BY AtLemma
      <4>3. g \in 0 .. Wrap - 1
        BY <4>1, <4>2
      <4>. HIDE DEF g
      <4>. QED
        BY <4>3, Constants
    <3>. HIDE DEF g
    <3>. QED
      BY <3>1, <3>2
  <2>. HIDE DEF f, e, g
  <2>4. Stage(f, t, n, V)
    BY <1>2, <2>1, <2>2, StageOnwards DEF Beginning, Uncharged
  <2>. QED
    BY <1>8, <2>1, <2>3, <2>4
<1>20. CASE SubGas(t)
  <2>. DEFINE w == WriteUpdate(e.wset, from, SubBalanceKey, Cost, 0)
              f == [e EXCEPT !.pc = "canTransfer", !.wset = w]
  <2>1. exec' = [exec EXCEPT ![t] = f] /\ e.pc = "subGas"
    BY <1>20 DEF SubGas, IsAt, Cost
  <2>2. f.rset = e.rset /\ f.wset = w /\ f.pc = "canTransfer" /\ f.err = e.err /\ f.vmErr = e.vmErr
    BY <1>2 DEF Fields
  <2>3. Succeeds(e) /\ e.wset = NewSet
    BY <1>3, <2>1 DEF Fails, Writes, Uncharged
  <2>4. Charged(w.cache, t, Cost)
    <3>1. Charged(WriteUpdate(NewSet, From(t), SubBalanceKey, Cost, 0).cache, t, Cost)
      <4>1. Cost \in Int
        BY <1>1
      <4>. HIDE DEF Cost
      <4>. QED
        BY <4>1, ChargeWrites
    <3>. QED
      BY <2>3, <3>1, Zenon
  <2>. HIDE DEF f, e, w
  <2>5. Reads(f, t)
    BY <1>3, <2>1, <2>2 DEF Reads, Repaid, Beginning
  <2>6. Writes(f, t, n, V)
    BY <2>2, <2>3, <2>4 DEF Writes, Succeeds, Uncharged, Repaid
  <2>7. Fails(f, t)
    BY <2>2, <2>3 DEF Fails, Succeeds
  <2>8. Stage(f, t, n, V)
    BY <2>5, <2>6, <2>7 DEF Stage
  <2>. QED
    BY <1>8, <2>1, <2>8
<1>21. CASE CanTransfer(t)
  <2>. DEFINE have == cp[from]
              r == ReadUpdate(e.rset, from, BalanceKey, have.bal)
              w == WriteUpdate(e.wset, from, NonceKey, have.nonce + 1, 0)
              g == [e EXCEPT !.pc = "send", !.vmErr = TRUE, !.gas = CallStipend]
              h == [e EXCEPT !.pc = "call", !.rset = r, !.wset = w]
  <2>1. exec' = [exec EXCEPT ![t] = IF v > 0 /\ have.bal < v THEN g ELSE h] /\ e.pc = "canTransfer"
    BY <1>21 DEF CanTransfer, IsAt
  <2>2. Charged(e.wset.cache, t, Cost) /\ Succeeds(e)
    BY <1>3, <2>1 DEF Writes, Fails
  <2>3. have.bal \in Int /\ \A x : have.bal < x => Short(t, x)
    BY <1>1, <1>5, <2>1
  <2>4. g.pc = "send" /\ g.vmErr = TRUE /\ g.err = e.err /\ g.rset = e.rset /\ g.wset = e.wset
    BY <1>2 DEF Fields
  <2>5. h.pc = "call" /\ h.vmErr = e.vmErr /\ h.err = e.err /\ h.rset = r /\ h.wset = w
    BY <1>2 DEF Fields
  <2>6. /\ Entries(r.cache) = Entries(e.rset.cache) \cup {<<from, BalanceKey>>}
        /\ Entries(r.cache) \subseteq Names(t) \X {BalanceKey}
    BY <1>7, <2>3
  <2>7. Numbered(w.cache, t, Cost, n)
    <3>1. Numbered(WriteUpdate(e.wset, From(t), NonceKey, n, 0).cache, t, Cost, n)
      <4>1. Cost \in Int /\ n \in Nat /\ GoodSet(e.wset) /\ Charged(e.wset.cache, t, Cost)
        BY <1>1, <1>2, <1>4, <2>2
      <4>. HIDE DEF Cost, e
      <4>. QED
        BY <4>1, NumberWrites
    <3>. QED
      BY <1>4, <3>1, Zenon
  <2>. HIDE DEF g, h, r, w, e
  <2>8. ASSUME v > 0 /\ have.bal < v PROVE Stage(g, t, n, V)
    <3>1. Reads(g, t)
      BY <1>3, <2>1, <2>4 DEF Reads, Succeeds, Beginning
    <3>2. Writes(g, t, n, V)
      BY <2>2, <2>4 DEF Writes, Succeeds, Uncharged
    <3>3. Fails(g, t)
      BY <2>2, <2>3, <2>4, <2>8 DEF Fails, Succeeds, Uncharged
    <3>. QED
      BY <3>1, <3>2, <3>3 DEF Stage
  <2>9. Stage(h, t, n, V)
    <3>1. Reads(h, t)
      BY <2>5, <2>6 DEF Reads, Repaid
    <3>2. Writes(h, t, n, V)
      BY <2>2, <2>5, <2>7 DEF Writes, Succeeds, Uncharged, Repaid
    <3>3. Fails(h, t)
      BY <2>2, <2>5 DEF Fails, Succeeds
    <3>. QED
      BY <3>1, <3>2, <3>3 DEF Stage
  <2>. QED
    <3>1. CASE v > 0 /\ have.bal < v
      BY <1>8, <2>1, <2>8, <3>1
    <3>2. CASE ~(v > 0 /\ have.bal < v)
      BY <1>8, <2>1, <2>9, <3>2
    <3>. QED
      BY <3>1, <3>2
<1>22. CASE Call(t)
  <2>. DEFINE r == ReadUpdate(e.rset, from, BalanceKey, v)
              pc == IF v > 0 THEN "credit" ELSE "refund"
              g == [e EXCEPT !.pc = "refund", !.vmErr = TRUE]
              h == [e EXCEPT !.pc = pc, !.rset = r]
  <2>1. exec' = [exec EXCEPT ![t] = IF v # 0 /\ cp[from].bal < v THEN g ELSE h] /\ e.pc = "call"
    BY <1>22 DEF Call, IsAt
  <2>2. Numbered(e.wset.cache, t, Cost, n) /\ Succeeds(e)
    BY <1>3, <2>1 DEF Writes, Fails
  <2>3. cp[from].bal \in Int /\ \A x : cp[from].bal < x => Short(t, x)
    BY <1>1, <1>5, <2>1
  <2>4. g.pc = "refund" /\ g.vmErr = TRUE /\ g.err = e.err /\ g.rset = e.rset /\ g.wset = e.wset
    BY <1>2 DEF Fields
  <2>5. h.pc = pc /\ h.vmErr = e.vmErr /\ h.err = e.err /\ h.rset = r /\ h.wset = e.wset
    BY <1>2 DEF Fields
  <2>6. /\ Entries(r.cache) = Entries(e.rset.cache) \cup {<<from, BalanceKey>>}
        /\ Entries(r.cache) \subseteq Names(t) \X {BalanceKey}
    <3>1. v \in Int
      BY <1>1
    <3>. QED
      BY <1>7, <3>1
  <2>. HIDE DEF g, h, r, e
  <2>7. ASSUME cp[from].bal < v PROVE Stage(g, t, n, V)
    <3>1. Reads(g, t)
      BY <1>3, <2>1, <2>4 DEF Reads, Succeeds, Beginning, Repaid
    <3>2. Late(g.wset.cache, t, n)
      BY <2>2, <2>4, LateNumbered
    <3>3. Writes(g, t, n, V)
      BY <2>4, <3>2 DEF Writes, Succeeds, Uncharged
    <3>4. Fails(g, t)
      BY <2>2, <2>3, <2>4, <2>7 DEF Fails, Succeeds, Uncharged
    <3>. QED
      BY <3>1, <3>3, <3>4 DEF Stage
  <2>8. Stage(h, t, n, V)
    <3>1. Reads(h, t)
      <4>1. h.pc \in {"refund"} \cup Repaid => ~(v > 0)
        BY <2>5 DEF Repaid
      <4>. QED
        BY <2>5, <2>6, <4>1 DEF Reads
    <3>2. h.pc = "refund" => Moved(h.wset.cache, t, Cost + Value(t), n, V)
      <4>1. h.pc = "refund" => v = 0
        BY <1>1, <2>5
      <4>2. v = 0 => Moved(e.wset.cache, t, Cost + Value(t), n, V)
        <5>1. Cost \in Int
          BY <1>1
        <5>. HIDE DEF Cost
        <5>. QED
          BY <2>2, <5>1, MoveNothing
      <4>. QED
        BY <2>5, <4>1, <4>2
    <3>3. Writes(h, t, n, V)
      BY <2>2, <2>5, <3>2 DEF Writes, Succeeds, Uncharged, Repaid
    <3>4. Fails(h, t)
      BY <1>1, <2>2, <2>5 DEF Fails, Succeeds
    <3>. QED
      BY <3>1, <3>3, <3>4 DEF Stage
  <2>. QED
    <3>1. CASE v # 0 /\ cp[from].bal < v
      BY <1>8, <2>1, <2>7, <3>1
    <3>2. CASE ~(v # 0 /\ cp[from].bal < v)
      BY <1>8, <2>1, <2>8, <3>2
    <3>. QED
      BY <3>1, <3>2
<1>23. CASE Credit(t)
  <2>. DEFINE bal == cp[to].bal
              r == ReadUpdate(e.rset, to, BalanceKey, bal)
              w == Transfer(e.wset, t, bal)
              f == [e EXCEPT !.pc = "refund", !.rset = r, !.wset = w]
  <2>1. exec' = [exec EXCEPT ![t] = f] /\ e.pc = "credit"
    BY <1>23 DEF Credit, IsAt
  <2>2. Numbered(e.wset.cache, t, Cost, n) /\ Succeeds(e) /\ v > 0
    BY <1>3, <2>1 DEF Writes, Fails
  <2>3. bal \in Int /\ bal \in V[to]
    BY <1>1, <1>5, <2>1
  <2>4. f.pc = "refund" /\ f.vmErr = e.vmErr /\ f.err = e.err /\ f.rset = r /\ f.wset = w
    BY <1>2 DEF Fields
  <2>5. /\ Entries(r.cache) = Entries(e.rset.cache) \cup {<<to, BalanceKey>>}
        /\ Entries(r.cache) \subseteq Names(t) \X {BalanceKey}
    BY <1>7, <2>3
  <2>6. Moved(w.cache, t, Cost + Value(t), n, V)
    <3>1. Cost \in Int /\ GoodSet(e.wset)
      BY <1>1, <1>2
    <3>. HIDE DEF Cost, e, bal
    <3>. QED
      BY <2>2, <2>3, <3>1, MoveWrites
  <2>. HIDE DEF f, r, w, e, bal
  <2>7. Reads(f, t)
    BY <1>3, <2>1, <2>2, <2>4, <2>5 DEF Reads, Succeeds, Repaid, Beginning
  <2>8. Writes(f, t, n, V)
    BY <2>2, <2>4, <2>6 DEF Writes, Succeeds, Uncharged, Repaid
  <2>9. Fails(f, t)
    BY <2>2, <2>4 DEF Fails, Succeeds
  <2>10. Stage(f, t, n, V)
    BY <2>7, <2>8, <2>9 DEF Stage
  <2>. QED
    BY <1>8, <2>1, <2>10
<1>24. CASE Refund(t)
  <2>. DEFINE bal == cp[from].bal
              w == Refunded(e.wset, t, bal)
              f == [e EXCEPT !.pc = "loadPool", !.wset = w]
  <2>1. exec' = [exec EXCEPT ![t] = f] /\ e.pc = "refund"
    BY <1>24 DEF Refund, IsAt
  <2>2. bal \in Int /\ bal \in V[from]
    BY <1>1, <1>5, <2>1
  <2>3. f.pc = "loadPool" /\ f.vmErr = e.vmErr /\ f.err = e.err /\ f.rset = e.rset /\ f.wset = w
    BY <1>2 DEF Fields
  <2>. HIDE DEF e, bal
  <2>4. Succeeds(e) => Whole(w.cache, t, Cost + Value(t), n, V)
    <3>1. Succeeds(e) => Moved(e.wset.cache, t, Cost + Value(t), n, V)
      BY <1>3, <2>1 DEF Writes
    <3>. QED
      BY <1>2, <1>4, <2>2, <3>1, WholeWrites
  <2>5. e.vmErr => Late(w.cache, t, n)
    <3>1. e.vmErr => Late(e.wset.cache, t, n)
      BY <1>3, <2>1 DEF Writes
    <3>. QED
      BY <1>2, <2>2, <3>1, LateStays
  <2>. HIDE DEF f, w
  <2>6. Reads(f, t)
    BY <1>3, <2>1, <2>3 DEF Reads, Succeeds, Repaid, Beginning
  <2>7. Writes(f, t, n, V)
    BY <2>3, <2>4, <2>5 DEF Writes, Succeeds, Uncharged, Repaid
  <2>8. Fails(f, t)
    BY <1>3, <2>3 DEF Fails, Succeeds, Uncharged
  <2>9. Stage(f, t, n, V)
    BY <2>6, <2>7, <2>8 DEF Stage
  <2>. QED
    BY <1>8, <2>1, <2>9
<1>. QED
  BY <1>10, <1>11, <1>12, <1>13, <1>14, <1>15, <1>16, <1>18, <1>19, <1>20, <1>21, <1>22, <1>23, <1>24
     DEF Goroutine

-----------------------------------------------------------------------------
(* What the pools hold.                                                    *)
(*                                                                         *)
(* The gas limit of the block covers all its transactions, and a pool that *)
(* got back what all of them leave still fits.                             *)
Supply == \A b \in Blocks : Len(b) * TxGas <= BlockGas /\ BlockGas + Len(b) * Left < Wrap

Paying == {t \in Txs : exec[t].pc \notin Uncharged}
Returning == {t \in Txs : exec[t].pc \in {"tip", "send", "done"}}
Begun == {t \in Level(level) : exec[t].pc # "start"}
Lowest == BlockGas - TxGas * Cardinality(Paying)
Highest == BlockGas + Left * Cardinality(Returning)
Bounded(v) == Lowest <= v /\ v <= Highest

\* While a level runs its pools, and what its goroutines have loaded from them, are
\* bounded by what has been taken and given back; gp is a pool of the level.
Stocked == phase = "running" =>
    /\ Begun # {} => gpVar \in Begun
    /\ \A p \in Begun : Bounded(pools[p])
    /\ \A t \in Level(level) :
           /\ exec[t].pc \notin {"start", "pool"} => exec[t].pool \in Begun
           /\ exec[t].pc \in {"subGas", "addGas"} => Bounded(exec[t].reg)

\* Products grow with their factors.
LEMMA ProductGrows ==
    ASSUME NEW a \in Nat, NEW b \in Nat, NEW c \in Nat, b <= c
    PROVE  a * b <= a * c /\ a * (b + 1) = a * b + a /\ a * b \in Nat
<1>1. PICK d \in Nat : c = b + d
  <2>1. c - b \in Nat /\ c = b + (c - b)
    OBVIOUS
  <2>. QED
    BY <2>1
<1>2. a * c = a * b + a * d /\ a * d \in Nat /\ a * b \in Nat
  BY <1>1
<1>3. a * (b + 1) = a * b + a
  OBVIOUS
<1>. DEFINE x == a * b
            y == a * d
<1>4. x \in Nat /\ y \in Nat /\ a * c = x + y
  BY <1>2
<1>5. x <= a * c
  <2>. HIDE DEF x, y
  <2>. QED
    BY <1>4
<1>. QED
  BY <1>3, <1>4, <1>5

\* A set of transactions, and one that lacks one.
LEMMA SomeTxs ==
    ASSUME block \in Blocks, NEW S \in SUBSET Txs
    PROVE  /\ IsFiniteSet(S) /\ Cardinality(S) \in Nat /\ Cardinality(S) <= Len(block)
           /\ \A t \in Txs \ S : Cardinality(S) + 1 <= Len(block)
<1>1. Txs = 1 .. Len(block) /\ Len(block) \in Nat
  BY BlockTypes
<1>2. IsFiniteSet(Txs) /\ Cardinality(Txs) = Len(block)
  <2>1. 1 \in Int /\ Len(block) \in Int
    BY <1>1
  <2>2. /\ IsFiniteSet(1 .. Len(block))
        /\ Cardinality(1 .. Len(block)) = IF 1 > Len(block) THEN 0 ELSE Len(block) - 1 + 1
    BY <2>1, FS_Interval
  <2>. DEFINE L == Len(block)
  <2>. HIDE DEF L
  <2>3. L \in Nat => (IF 1 > L THEN 0 ELSE L - 1 + 1) = L
    OBVIOUS
  <2>4. (IF 1 > Len(block) THEN 0 ELSE Len(block) - 1 + 1) = Len(block)
    BY <1>1, <2>3 DEF L
  <2>. QED
    BY <1>1, <2>2, <2>4
<1>3. IsFiniteSet(S) /\ Cardinality(S) \in Nat /\ Cardinality(S) <= Len(block)
  BY <1>2, FS_Subset, FS_CardinalityType
<1>4. ASSUME NEW t \in Txs \ S PROVE Cardinality(S) + 1 <= Len(block)
  <2>1. S \cup {t} \in SUBSET Txs
    OBVIOUS
  <2>2. Cardinality(S \cup {t}) <= Len(block)
    BY <1>2, <2>1, FS_Subset
  <2>3. Cardinality(S \cup {t}) = Cardinality(S) + 1
    BY <1>3, AddCounts
  <2>. QED
    BY <2>2, <2>3
<1>. QED
  BY <1>3, <1>4

\* A pool within its bounds has gas for one that has not paid, and takes what one
\* gives back.
LEMMA Bounds ==
    ASSUME Machine, Executions, Supply
    PROVE  /\ Lowest \in Nat /\ Highest \in Nat /\ Lowest <= BlockGas /\ BlockGas <= Highest
           /\ Highest < Wrap
           /\ \A t \in Txs : t \notin Paying => Lowest >= TxGas
           /\ \A t \in Txs : t \notin Returning => Highest + Left < Wrap
<1>. DEFINE L == Len(block)
            p == Cardinality(Paying)
            r == Cardinality(Returning)
            tl == TxGas * L
            tp == TxGas * p
            gl == Left * L
            gr == Left * r
<1>1. block \in Blocks /\ L \in Nat /\ TxGas \in Nat /\ Left \in Nat /\ BlockGas \in Nat /\ Wrap \in Nat
  BY Constants, Amounts, BlockTypes DEF Machine
<1>2. Paying \in SUBSET Txs /\ Returning \in SUBSET Txs
  BY DEF Paying, Returning
<1>3. p \in Nat /\ p <= L /\ \A t \in Txs \ Paying : p + 1 <= L
  BY <1>1, <1>2, SomeTxs
<1>4. r \in Nat /\ r <= L /\ \A t \in Txs \ Returning : r + 1 <= L
  BY <1>1, <1>2, SomeTxs
<1>5. tl <= BlockGas /\ BlockGas + gl < Wrap
  <2>1. L * TxGas <= BlockGas /\ BlockGas + L * Left < Wrap
    BY <1>1 DEF Supply
  <2>2. L * TxGas = tl /\ L * Left = gl
    BY <1>1
  <2>. HIDE DEF tl, gl, L
  <2>. QED
    BY <2>1, <2>2
<1>. HIDE DEF L, p, r
<1>6. tp <= tl /\ tp \in Nat /\ tl \in Nat /\ TxGas * (p + 1) = tp + TxGas
  BY <1>1, <1>3, ProductGrows
<1>7. gr <= gl /\ gr \in Nat /\ gl \in Nat /\ Left * (r + 1) = gr + Left
  BY <1>1, <1>4, ProductGrows
<1>8. p + 1 <= L => tp + TxGas <= tl
  BY <1>1, <1>3, <1>6, ProductGrows
<1>9. r + 1 <= L => gr + Left <= gl
  BY <1>1, <1>4, <1>7, ProductGrows
<1>10. Lowest = BlockGas - tp /\ Highest = BlockGas + gr
  BY DEF Lowest, Highest, p, r
<1>. HIDE DEF tl, tp, gl, gr
<1>11. Lowest \in Nat /\ Highest \in Nat /\ Lowest <= BlockGas /\ BlockGas <= Highest /\ Highest < Wrap
  BY <1>1, <1>5, <1>6, <1>7, <1>10
<1>12. ASSUME NEW t \in Txs, t \notin Paying PROVE Lowest >= TxGas
  <2>1. tp + TxGas <= tl
    BY <1>3, <1>8, <1>12
  <2>. QED
    BY <1>1, <1>5, <1>6, <1>10, <2>1
<1>13. ASSUME NEW t \in Txs, t \notin Returning PROVE Highest + Left < Wrap
  <2>1. gr + Left <= gl
    BY <1>4, <1>9, <1>13
  <2>. QED
    BY <1>1, <1>5, <1>7, <1>10, <2>1
<1>. QED
  BY <1>11, <1>12, <1>13

\* The bounds widen as transactions pay and give back.
LEMMA BoundsMove ==
    ASSUME Machine, Executions, Txs' = Txs, Paying \subseteq Paying', Returning \subseteq Returning'
    PROVE  /\ Lowest' <= Lowest /\ Highest <= Highest' /\ Lowest' \in Int /\ Highest' \in Int
           /\ \A t \in Txs : t \notin Paying /\ t \in Paying' => Lowest' <= Lowest - TxGas
           /\ \A t \in Txs : t \notin Returning /\ t \in Returning' => Highest + Left <= Highest'
<1>. DEFINE P == Paying'
            R == Returning'
            p == Cardinality(Paying)
            q == Cardinality(P)
            r == Cardinality(Returning)
            s == Cardinality(R)
            tp == TxGas * p
            tq == TxGas * q
            gr == Left * r
            gs == Left * s
<1>1. block \in Blocks /\ TxGas \in Nat /\ Left \in Nat /\ BlockGas \in Nat
  BY Constants, Amounts DEF Machine
<1>2. Paying \in SUBSET Txs /\ Returning \in SUBSET Txs /\ P \in SUBSET Txs /\ R \in SUBSET Txs
  <2>1. Paying \in SUBSET Txs /\ Returning \in SUBSET Txs
    BY DEF Paying, Returning
  <2>2. P \subseteq Txs' /\ R \subseteq Txs'
    BY DEF Paying, Returning
  <2>. QED
    BY <2>1, <2>2
<1>3. Lowest = BlockGas - tp /\ Highest = BlockGas + gr
  BY DEF Lowest, Highest
<1>4. Lowest' = BlockGas - tq /\ Highest' = BlockGas + gs
  BY DEF Lowest, Highest
<1>5. Paying \subseteq P /\ Returning \subseteq R
  OBVIOUS
<1>. HIDE DEF P, R
<1>6. IsFiniteSet(Paying) /\ IsFiniteSet(P) /\ p \in Nat /\ q \in Nat
  BY <1>1, <1>2, SomeTxs
<1>7. IsFiniteSet(Returning) /\ IsFiniteSet(R) /\ r \in Nat /\ s \in Nat
  BY <1>1, <1>2, SomeTxs
<1>8. p <= q /\ r <= s
  BY <1>5, <1>6, <1>7, FS_Subset
<1>9. ASSUME NEW S, NEW T, IsFiniteSet(T), S \subseteq T, NEW t \in T, t \notin S
      PROVE  Cardinality(S) + 1 <= Cardinality(T)
  <2>1. IsFiniteSet(S) /\ S \cup {t} \subseteq T
    BY <1>9, FS_Subset
  <2>2. Cardinality(S \cup {t}) <= Cardinality(T)
    BY <1>9, <2>1, FS_Subset
  <2>3. Cardinality(S \cup {t}) = Cardinality(S) + 1
    BY <1>9, <2>1, AddCounts
  <2>. QED
    BY <2>2, <2>3
<1>10. ASSUME NEW t \in Txs, t \notin Paying, t \in P PROVE p + 1 <= q
  BY <1>5, <1>6, <1>9, <1>10
<1>11. ASSUME NEW t \in Txs, t \notin Returning, t \in R PROVE r + 1 <= s
  BY <1>5, <1>7, <1>9, <1>11
<1>. HIDE DEF p, q, r, s
<1>12. /\ tp \in Nat /\ tq \in Nat /\ tp <= tq /\ TxGas * (p + 1) = tp + TxGas
       /\ gr \in Nat /\ gs \in Nat /\ gr <= gs /\ Left * (r + 1) = gr + Left
  BY <1>1, <1>6, <1>7, <1>8, ProductGrows
<1>13. p + 1 <= q => tp + TxGas <= tq
  BY <1>1, <1>6, <1>12, ProductGrows
<1>14. r + 1 <= s => gr + Left <= gs
  BY <1>1, <1>7, <1>12, ProductGrows
<1>. HIDE DEF tp, tq, gr, gs
<1>. DEFINE low == Lowest'
            high == Highest'
<1>15. low = BlockGas - tq /\ high = BlockGas + gs
  BY <1>4
<1>16. \A t \in Txs : t \notin Paying /\ t \in P => low <= Lowest - TxGas
  <2>. HIDE DEF low
  <2>. QED
    BY <1>1, <1>3, <1>10, <1>12, <1>13, <1>15
<1>17. \A t \in Txs : t \notin Returning /\ t \in R => Highest + Left <= high
  <2>. HIDE DEF high
  <2>. QED
    BY <1>1, <1>3, <1>11, <1>12, <1>14, <1>15
<1>18. low <= Lowest /\ Highest <= high /\ low \in Int /\ high \in Int
  <2>. HIDE DEF low, high
  <2>. QED
    BY <1>1, <1>3, <1>12, <1>15
<1>. QED
  BY <1>16, <1>17, <1>18 DEF P, R

\* A goroutine that has begun, paid or given back stays one that has.
LEMMA GoroutineGoes ==
    ASSUME Machine, Executions, NEW t \in Txs, Goroutine(t)
    PROVE  /\ exec'[t].pc # "start" /\ \A u \in Txs : u # t => exec'[u] = exec[u]
           /\ exec[t].pc \notin Uncharged => exec'[t].pc \notin Uncharged
           /\ exec[t].pc \in {"tip", "send", "done"} => exec'[t].pc \in {"tip", "send", "done"}
<1>. DEFINE e == exec[t]
            pc == exec'[t].pc
<1>1. DOMAIN exec = Txs /\ DOMAIN e = Fields
  BY DEF Executions, GoodExec
<1>2. \A u \in Txs : u # t => exec'[u] = exec[u]
  BY GoroutineMoves
<1>3. Failed(e).pc = "send"
  BY <1>1 DEF Failed, Fields
<1>4. CASE MakePool(t) \/ SetBalance(t) \/ Send(t)
  <2>1. \/ e.pc = "start" /\ pc = "pool"
        \/ e.pc = "setBalance" /\ pc = "have"
        \/ e.pc = "send" /\ pc = "done"
    BY <1>1, <1>4 DEF MakePool, SetBalance, Send, Goto, IsAt, Fields
  <2>. QED
    BY <1>2, <2>1 DEF Uncharged
<1>5. CASE AddGas(t)
  <2>1. e.pc = "addGas" /\ pc \in {"send", "tip"}
    BY <1>1, <1>5 DEF AddGas, Goto, IsAt, Fields
  <2>. QED
    BY <1>2, <2>1 DEF Uncharged
<1>6. CASE PassPool(t)
  <2>1. e.pc = "pool" /\ pc = "setBalance"
    BY <1>1, <1>6 DEF PassPool, IsAt, Fields
  <2>. QED
    BY <1>2, <2>1 DEF Uncharged
<1>7. CASE Have(t)
  <2>1. e.pc = "have" /\ pc \in {"send", "loadGas"}
    BY <1>1, <1>3, <1>7 DEF Have, IsAt, Fields
  <2>. QED
    BY <1>2, <2>1 DEF Uncharged
<1>8. CASE LoadGas(t)
  <2>1. e.pc = "loadGas" /\ pc \in {"send", "subGas"}
    BY <1>1, <1>3, <1>8 DEF LoadGas, IsAt, Fields
  <2>. QED
    BY <1>2, <2>1 DEF Uncharged
<1>9. CASE SubGas(t)
  <2>1. e.pc = "subGas" /\ pc = "canTransfer"
    BY <1>1, <1>9 DEF SubGas, IsAt, Fields
  <2>. QED
    BY <1>2, <2>1 DEF Uncharged
<1>10. CASE CanTransfer(t)
  <2>1. e.pc = "canTransfer" /\ pc \in {"send", "call"}
    BY <1>1, <1>10 DEF CanTransfer, IsAt, Fields
  <2>. QED
    BY <1>2, <2>1 DEF Uncharged
<1>11. CASE Call(t)
  <2>1. e.pc = "call" /\ pc \in {"refund", "credit"}
    BY <1>1, <1>11 DEF Call, IsAt, Fields
  <2>. QED
    BY <1>2, <2>1 DEF Uncharged
<1>12. CASE Credit(t)
  <2>1. e.pc = "credit" /\ pc = "refund"
    BY <1>1, <1>12 DEF Credit, IsAt, Fields
  <2>. QED
    BY <1>2, <2>1 DEF Uncharged
<1>13. CASE Refund(t)
  <2>1. e.pc = "refund" /\ pc = "loadPool"
    BY <1>1, <1>13 DEF Refund, IsAt, Fields
  <2>. QED
    BY <1>2, <2>1 DEF Uncharged
<1>14. CASE LoadPool(t)
  <2>1. e.pc = "loadPool" /\ pc = "addGas"
    BY <1>1, <1>14 DEF LoadPool, IsAt, Fields
  <2>. QED
    BY <1>2, <2>1 DEF Uncharged
<1>15. CASE PayTip(t)
  <2>1. e.pc = "tip" /\ pc = "send"
    BY <1>1, <1>15 DEF PayTip, IsAt, Fields
  <2>. QED
    BY <1>2, <2>1 DEF Uncharged
<1>. QED
  BY <1>4, <1>5, <1>6, <1>7, <1>8, <1>9, <1>10, <1>11, <1>12, <1>13, <1>14, <1>15 DEF Goroutine

\* A transaction that has not paid finds enough gas.
LEMMA PoolHasGas ==
    ASSUME Machine, Executions, Supply, Stocked, phase = "running", NEW t \in Level(level), t \in Txs,
           exec[t].pc = "loadGas"
    PROVE  pools[exec[t].pool] >= TxGas
<1>1. exec[t].pool \in Begun /\ Bounded(pools[exec[t].pool])
  BY DEF Stocked
<1>2. t \notin Paying
  BY DEF Paying, Uncharged
<1>3. Lowest \in Nat /\ Lowest >= TxGas
  BY <1>2, Bounds
<1>4. pools[exec[t].pool] \in Int
  <2>1. exec[t].pool \in {0} \cup Txs
    BY DEF Executions, GoodExec
  <2>2. pools[exec[t].pool] \in 0 .. Wrap - 1
    BY <2>1 DEF Machine
  <2>. DEFINE v == pools[exec[t].pool]
  <2>. HIDE DEF v
  <2>3. v \in 0 .. Wrap - 1 => v \in Int
    BY Constants
  <2>. QED
    BY <2>2, <2>3 DEF v
<1>. DEFINE v == pools[exec[t].pool]
<1>5. Lowest <= v /\ v \in Int /\ TxGas \in Int
  BY <1>1, <1>4, Constants DEF Bounded
<1>. HIDE DEF v
<1>6. v >= TxGas
  BY <1>3, <1>5
<1>. QED
  BY <1>6 DEF v

\* The pools stay within their bounds.
LEMMA StockedKept ==
    ASSUME IInv, Supply, Stocked, NEW t \in Txs, Goroutine(t)
    PROVE  Stocked'
<1>. DEFINE e == exec[t]
            f == exec'[t]
            low == Lowest'
            high == Highest'
            new == Begun'
            Inside(v) == low <= v /\ v <= high
<1>1. Machine /\ Executions /\ block \in Blocks
  BY Parts
<1>2. phase = "running" /\ t \in Current /\ UNCHANGED <<block, mainVars>>
  BY <1>1, GoroutineMoves
<1>3. Txs' = Txs /\ Level(level)' = Level(level) /\ level' = level
  <2>1. UNCHANGED <<block, plan, level>>
    BY <1>2 DEF mainVars
  <2>. QED
    BY <2>1 DEF Txs, Level, Elements
<1>4. t \in Level(level)
  BY <1>2, CurrentLevel
<1>5. /\ f.pc # "start" /\ \A u \in Txs : u # t => exec'[u] = exec[u]
      /\ e.pc \notin Uncharged => f.pc \notin Uncharged
      /\ e.pc \in {"tip", "send", "done"} => f.pc \in {"tip", "send", "done"}
  BY <1>1, GoroutineGoes
<1>6. Level(level) \subseteq Txs
  <2>1. level \in 0 .. plan.maxLevel /\ PlanUpTo(Len(block), plan)
    BY <1>2, Parts DEF Planned
  <2>. QED
    BY <1>1, <2>1, LevelFacts DEF Level
<1>7. new = Begun \cup {t}
  <2>1. new = {u \in Level(level) : exec'[u].pc # "start"}
    BY <1>3 DEF Begun
  <2>2. \A u \in Level(level) \ {t} : exec'[u] = exec[u]
    BY <1>5, <1>6
  <2>. HIDE DEF new
  <2>3. \A u \in Level(level) : exec'[u].pc # "start" <=> u \in Begun \/ u = t
    BY <1>5, <2>2 DEF Begun
  <2>. QED
    BY <1>4, <2>1, <2>3 DEF Begun
<1>8. Paying \subseteq Paying' /\ Returning \subseteq Returning'
  BY <1>3, <1>5 DEF Paying, Returning
<1>9. /\ low <= Lowest /\ Highest <= high /\ low \in Int /\ high \in Int
      /\ t \notin Paying /\ t \in Paying' => low <= Lowest - TxGas
      /\ t \notin Returning /\ t \in Returning' => Highest + Left <= high
  BY <1>1, <1>3, <1>8, BoundsMove
<1>10. /\ Lowest \in Nat /\ Highest \in Nat /\ Lowest <= BlockGas /\ BlockGas <= Highest
       /\ Highest < Wrap
       /\ t \notin Paying => Lowest >= TxGas
       /\ t \notin Returning => Highest + Left < Wrap
  BY <1>1, Bounds
<1>11. TxGas \in Nat /\ BlockGas \in Nat /\ Left \in Nat /\ Wrap \in Nat
  BY Constants, Amounts
<1>. DEFINE paid == t \in Paying'
            back == t \in Returning'
<1>12. (paid <=> f.pc \notin Uncharged) /\ (back <=> f.pc \in {"tip", "send", "done"})
  BY <1>3 DEF Paying, Returning
<1>. HIDE DEF low, high, new, f, paid, back
<1>13. ASSUME NEW v \in Int, Bounded(v) PROVE Inside(v)
  BY <1>9, <1>10, <1>13 DEF Bounded
<1>14. /\ Begun # {} => gpVar \in Begun
       /\ \A p \in Begun : Bounded(pools[p])
       /\ \A u \in Level(level) :
              /\ exec[u].pc \notin {"start", "pool"} => exec[u].pool \in Begun
              /\ exec[u].pc \in {"subGas", "addGas"} => Bounded(exec[u].reg)
  BY <1>2 DEF Stocked
<1>15. \A p \in {0} \cup Txs : pools[p] \in 0 .. Wrap - 1
  BY <1>1 DEF Machine
<1>16. \A v \in 0 .. Wrap - 1 : v \in Int
  BY <1>11
<1>17. \A u \in Txs : exec[u].pool \in {0} \cup Txs /\ exec[u].reg \in Int
  BY <1>1, <1>16 DEF Executions, GoodExec
<1>18. DOMAIN exec = Txs /\ DOMAIN e = Fields
  BY <1>1 DEF Executions, GoodExec
<1>19. Begun \subseteq Txs /\ (e.pc # "start" => t \in Begun /\ new = Begun)
  BY <1>4, <1>6, <1>7 DEF Begun
<1>20. \A p \in Begun : pools[p] \in Int /\ Inside(pools[p])
  <2>1. \A p \in Begun : pools[p] \in Int
    BY <1>15, <1>16, <1>19
  <2>. QED
    BY <1>13, <1>14, <2>1
<1>. DEFINE P1 == gpVar' \in new
            P2 == \A p \in new : Inside(pools'[p])
            P3 == \A u \in Level(level) : /\ exec'[u].pc \notin {"start", "pool"} => exec'[u].pool \in new
                                          /\ exec'[u].pc \in {"subGas", "addGas"} => Inside(exec'[u].reg)
<1>21. SUFFICES P1 /\ P2 /\ P3
  <2>. HIDE DEF P1, P2, P3
  <2>1. ASSUME P1, P2, P3 PROVE Stocked'
    <3>1. (Begun # {} => gpVar \in Begun)'
      BY <2>1 DEF P1, new
    <3>2. (\A p \in Begun : Bounded(pools[p]))'
      BY <2>1 DEF P2, new, low, high, Bounded
    <3>3. (\A u \in Level(level) :
              /\ exec[u].pc \notin {"start", "pool"} => exec[u].pool \in Begun
              /\ exec[u].pc \in {"subGas", "addGas"} => Bounded(exec[u].reg))'
      BY <1>3, <2>1 DEF P3, new, low, high, Bounded
    <3>. QED
      BY <3>1, <3>2, <3>3 DEF Stocked
  <2>. QED
    BY <2>1
<1>22. ASSUME f.pc \notin {"start", "pool"} => f.pool \in new,
              f.pc \in {"subGas", "addGas"} => Inside(f.reg)
       PROVE  P3
  <2>1. SUFFICES ASSUME NEW u \in Level(level)
                 PROVE  /\ exec'[u].pc \notin {"start", "pool"} => exec'[u].pool \in new
                        /\ exec'[u].pc \in {"subGas", "addGas"} => Inside(exec'[u].reg)
    OBVIOUS
  <2>2. CASE u = t
    BY <1>22, <2>2 DEF f
  <2>3. CASE u # t
    <3>1. exec'[u] = exec[u] /\ exec[u].reg \in Int
      BY <1>5, <1>6, <1>17, <2>3
    <3>2. Begun \subseteq new
      BY <1>7
    <3>3. exec[u].pc \in {"subGas", "addGas"} => Inside(exec[u].reg)
      BY <1>13, <1>14, <3>1
    <3>. QED
      BY <1>14, <3>1, <3>2, <3>3
  <2>. QED
    BY <2>2, <2>3
<1>23. ASSUME gpVar' = gpVar, e.pc # "start" PROVE P1
  BY <1>14, <1>19, <1>23
<1>24. ASSUME pools' = pools, e.pc # "start" PROVE P2
  BY <1>19, <1>20, <1>24
<1>25. ASSUME e.pc \notin {"start", "pool"} PROVE e.pool \in Begun /\ e.pool \in new /\ Inside(pools[e.pool])
  BY <1>4, <1>14, <1>19, <1>20, <1>25
<1>26. ASSUME f.pool = e.pool, f.pc \notin {"subGas", "addGas"}, e.pc \notin {"start", "pool"} PROVE P3
  BY <1>22, <1>25, <1>26
<1>. HIDE DEF P1, P2, P3
<1>27. CASE MakePool(t)
  <2>1. gpVar' = t /\ pools' = [pools EXCEPT ![t] = BlockGas] /\ f.pc = "pool"
    BY <1>18, <1>27 DEF MakePool, Goto, Fields, f
  <2>2. P1
    BY <1>7, <2>1 DEF P1
  <2>3. Inside(BlockGas)
    BY <1>10, <1>11, <1>13 DEF Bounded
  <2>4. DOMAIN pools = {0} \cup Txs
    BY <1>1 DEF Machine
  <2>5. P2
    BY <1>7, <1>19, <1>20, <2>1, <2>3, <2>4 DEF P2
  <2>6. P3
    BY <1>22, <2>1
  <2>. QED
    BY <2>2, <2>5, <2>6
<1>28. CASE PassPool(t)
  <2>1. e.pc = "pool" /\ gpVar' = gpVar /\ pools' = pools /\ f.pc = "setBalance" /\ f.pool = gpVar
    BY <1>18, <1>28 DEF PassPool, IsAt, Fields, f
  <2>2. gpVar \in new
    BY <1>14, <1>19, <2>1
  <2>3. P3
    BY <1>22, <2>1, <2>2
  <2>. QED
    BY <1>23, <1>24, <2>1, <2>3
<1>29. CASE LoadGas(t)
  <2>1. e.pc = "loadGas" /\ gpVar' = gpVar /\ pools' = pools
        /\ f = IF pools[e.pool] < TxGas THEN Failed(e) ELSE [e EXCEPT !.pc = "subGas", !.reg = pools[e.pool]]
    BY <1>18, <1>29 DEF LoadGas, IsAt, f
  <2>2. f.pool = e.pool /\ f.pc # "addGas" /\ (f.pc = "subGas" => f.reg = pools[e.pool])
    BY <1>18, <2>1 DEF Failed, Fields
  <2>3. P3
    BY <1>22, <1>25, <2>1, <2>2
  <2>. QED
    BY <1>23, <1>24, <2>1, <2>3
<1>30. CASE LoadPool(t)
  <2>1. e.pc = "loadPool" /\ gpVar' = gpVar /\ pools' = pools
        /\ f = [e EXCEPT !.pc = "addGas", !.reg = pools[e.pool]]
    BY <1>18, <1>30 DEF LoadPool, IsAt, f
  <2>2. f.pool = e.pool /\ f.reg = pools[e.pool]
    BY <1>18, <2>1 DEF Fields
  <2>3. P3
    BY <1>22, <1>25, <2>1, <2>2
  <2>. QED
    BY <1>23, <1>24, <2>1, <2>3
<1>31. ASSUME NEW v \in Int, NEW x \in Int, Bounded(v), Inside(x), pools' = [pools EXCEPT ![e.pool] = x],
              e.pc \notin {"start", "pool"}
       PROVE  P2
  <2>1. \A p \in new : Inside(pools'[p])
    <3>1. SUFFICES ASSUME NEW p \in new PROVE Inside(pools'[p])
      OBVIOUS
    <3>2. p \in Begun /\ p \in DOMAIN pools
      BY <1>1, <1>19, <1>31 DEF Machine
    <3>. QED
      BY <1>20, <1>31, <3>2
  <2>. QED
    BY <2>1 DEF P2
<1>32. CASE SubGas(t)
  <2>1. e.pc = "subGas" /\ gpVar' = gpVar /\ f.pool = e.pool /\ f.pc = "canTransfer"
    BY <1>18, <1>32 DEF SubGas, IsAt, Fields, f
  <2>2. PICK v \in {e.reg, pools[e.pool]} : pools' = [pools EXCEPT ![e.pool] = (v - TxGas) % Wrap]
    BY <1>32 DEF SubGas
  <2>3. v \in Int /\ Bounded(v)
    BY <1>4, <1>14, <1>17, <1>20, <1>25, <2>1, <2>2
  <2>4. t \notin Paying /\ paid
    BY <1>12, <2>1 DEF Paying, Uncharged
  <2>5. Lowest >= TxGas /\ low <= Lowest - TxGas
    BY <1>9, <1>10, <2>4 DEF paid
  <2>6. v - TxGas \in 0 .. Wrap - 1 /\ Inside(v - TxGas)
    BY <1>9, <1>10, <1>11, <2>3, <2>5 DEF Bounded
  <2>7. (v - TxGas) % Wrap = v - TxGas /\ v - TxGas \in Int
    BY <1>11, <2>6
  <2>. DEFINE x == v - TxGas
  <2>8. x \in Int /\ Inside(x) /\ pools' = [pools EXCEPT ![e.pool] = x]
    BY <2>2, <2>6, <2>7
  <2>. HIDE DEF x, e
  <2>9. P2
    BY <1>31, <2>1, <2>3, <2>8
  <2>. QED
    BY <1>23, <1>26, <2>1, <2>9
<1>33. CASE AddGas(t)
  <2>1. e.pc = "addGas" /\ gpVar' = gpVar /\ f.pool = e.pool /\ f.pc \in {"send", "tip"}
    BY <1>18, <1>33 DEF AddGas, Goto, IsAt, Fields, f
  <2>2. PICK v \in {e.reg, pools[e.pool]} : pools' = [pools EXCEPT ![e.pool] = (v + Left) % Wrap]
    BY <1>33 DEF AddGas
  <2>3. v \in Int /\ Bounded(v)
    BY <1>4, <1>14, <1>17, <1>20, <1>25, <2>1, <2>2
  <2>4. t \notin Returning /\ back
    BY <1>12, <2>1 DEF Returning
  <2>5. Highest + Left < Wrap /\ Highest + Left <= high
    BY <1>9, <1>10, <2>4 DEF back
  <2>6. v + Left \in 0 .. Wrap - 1 /\ Inside(v + Left)
    BY <1>9, <1>10, <1>11, <2>3, <2>5 DEF Bounded
  <2>7. (v + Left) % Wrap = v + Left /\ v + Left \in Int
    BY <1>11, <2>6
  <2>. DEFINE x == v + Left
  <2>8. x \in Int /\ Inside(x) /\ pools' = [pools EXCEPT ![e.pool] = x]
    BY <2>2, <2>6, <2>7
  <2>. HIDE DEF x, e
  <2>9. P2
    BY <1>31, <2>1, <2>3, <2>8
  <2>. QED
    BY <1>23, <1>26, <2>1, <2>9
<1>34. ASSUME gpVar' = gpVar, pools' = pools, f.pool = e.pool, f.pc \notin {"subGas", "addGas"},
              e.pc \notin {"start", "pool"}
       PROVE  P1 /\ P2 /\ P3
  BY <1>23, <1>24, <1>26, <1>34
<1>35. CASE SetBalance(t)
  BY <1>18, <1>34, <1>35 DEF SetBalance, Goto, IsAt, Fields, f
<1>36. CASE Have(t)
  <2>1. e.pc = "have" /\ gpVar' = gpVar /\ pools' = pools /\ f.pool = e.pool /\ f.pc \in {"send", "loadGas"}
    BY <1>18, <1>36 DEF Have, IsAt, Fields, Failed, f
  <2>. QED
    BY <1>34, <2>1
<1>37. CASE CanTransfer(t)
  <2>1. e.pc = "canTransfer" /\ gpVar' = gpVar /\ pools' = pools /\ f.pool = e.pool /\ f.pc \in {"send", "call"}
    BY <1>18, <1>37 DEF CanTransfer, IsAt, Fields, f
  <2>. QED
    BY <1>34, <2>1
<1>38. CASE Call(t)
  <2>1. e.pc = "call" /\ gpVar' = gpVar /\ pools' = pools /\ f.pool = e.pool /\ f.pc \in {"refund", "credit"}
    BY <1>18, <1>38 DEF Call, IsAt, Fields, f
  <2>. QED
    BY <1>34, <2>1
<1>39. CASE Credit(t)
  BY <1>18, <1>34, <1>39 DEF Credit, IsAt, Fields, f
<1>40. CASE Refund(t)
  BY <1>18, <1>34, <1>40 DEF Refund, IsAt, Fields, f
<1>41. CASE PayTip(t)
  BY <1>18, <1>34, <1>41 DEF PayTip, IsAt, Fields, f
<1>42. CASE Send(t)
  BY <1>18, <1>34, <1>42 DEF Send, Goto, IsAt, Fields, f
<1>. QED
  BY <1>27, <1>28, <1>29, <1>30, <1>32, <1>33, <1>35, <1>36, <1>37, <1>38, <1>39, <1>40, <1>41, <1>42
     DEF Goroutine

-----------------------------------------------------------------------------
(* The goroutines of a level together.                                     *)

\* While a level runs the copy has the nonces of the state; a balance is that of
\* the state or one buyGas gave, and only the latter for a sender past buyGas.
Copied == phase = "running" =>
    /\ \A a \in Account : cp[a].nonce = db[a].nonce /\ cp[a].bal \in {db[a].bal} \cup Gifts(a)
    /\ \A t \in Level(level) :
           exec[t].pc \notin {"start", "pool", "setBalance"} => cp[From(t)].bal \in Gifts(From(t))

\* Every goroutine of the level is at its stage until its record is looked at.
NextNonce(t) == db[From(t)].nonce + 1
Staged == phase \in {"running", "detect"} =>
    \A t \in Level(level) : Stage(exec[t], t, NextNonce(t), View(t))

\* A level at work is one of the plan.
LEMMA AtWork ==
    ASSUME IInv, phase \notin {"fill", "level", "done"}
    PROVE  /\ level \in 0 .. plan.maxLevel /\ PlanUpTo(Len(block), plan)
           /\ Level(level) \subseteq Txs /\ Current = Level(level)
<1>1. Planned /\ block \in Blocks /\ plan.maxLevel \in Nat /\ level \in Nat
  BY Parts
<1>2. level \in 0 .. plan.maxLevel /\ PlanUpTo(Len(block), plan)
  BY <1>1 DEF Planned
<1>3. Level(level) \subseteq Txs
  BY <1>1, <1>2, LevelFacts DEF Level
<1>. QED
  BY <1>2, <1>3, CurrentLevel

\* What a stage says depends on the block, the plan and the state.
LEMMA StageSame ==
    ASSUME UNCHANGED <<block, plan, level, db>>
    PROVE  /\ Level(level)' = Level(level) /\ Txs' = Txs
           /\ \A a : Gifts(a)' = Gifts(a)
           /\ \A t : From(t)' = From(t) /\ NextNonce(t)' = NextNonce(t) /\ View(t)' = View(t)
           /\ \A e, t, n, V : Stage(e, t, n, V)' <=> Stage(e, t, n, V)
<1>1. Level(level)' = Level(level) /\ Txs' = Txs
  BY DEF Level, Elements, Txs
<1>2. \A t : From(t)' = From(t) /\ To(t)' = To(t) /\ Value(t)' = Value(t)
  BY DEF From, To, Value
<1>3. \A t : Want(t)' = Want(t) /\ Names(t)' = Names(t) /\ NextNonce(t)' = NextNonce(t)
  BY <1>2 DEF Want, Names, NextNonce
<1>4. \A a : Gifts(a)' = Gifts(a)
  BY <1>1, <1>2, <1>3 DEF Gifts
<1>5. \A t : View(t)' = View(t)
  BY <1>2, <1>4 DEF View
<1>6. \A t, x : Short(t, x)' <=> Short(t, x)
  BY <1>1, <1>2, <1>3 DEF Short
<1>7. \A e, t : Reads(e, t)' <=> Reads(e, t)
  BY <1>2, <1>3 DEF Reads
<1>8. \A e, t : Fails(e, t)' <=> Fails(e, t)
  BY <1>2, <1>3, <1>6 DEF Fails
<1>9. \A e, t, n, V : Writes(e, t, n, V)' <=> Writes(e, t, n, V)
  <2>1. \A t : Touches(t)' = Touches(t)
    BY <1>2 DEF Touches
  <2>2. \A t, a : Gain(t, a)' = Gain(t, a)
    BY <1>2 DEF Gain
  <2>3. \A c, t, s : Charged(c, t, s)' <=> Charged(c, t, s)
    BY <1>2 DEF Charged
  <2>4. \A c, t, s, n : Numbered(c, t, s, n)' <=> Numbered(c, t, s, n)
    BY <1>2 DEF Numbered
  <2>5. \A c, t, s, n, V : Moved(c, t, s, n, V)' <=> Moved(c, t, s, n, V)
    BY <1>2 DEF Moved
  <2>6. \A c, t, s, n, V : Whole(c, t, s, n, V)' <=> Whole(c, t, s, n, V)
    BY <1>2, <2>1, <2>2 DEF Whole
  <2>7. \A c, t, n : Late(c, t, n)' <=> Late(c, t, n)
    BY <1>2 DEF Late
  <2>. QED
    BY <1>2, <2>3, <2>4, <2>5, <2>6, <2>7 DEF Writes
<1>10. \A e, t, n, V : Stage(e, t, n, V)' <=> Stage(e, t, n, V)
  BY <1>7, <1>8, <1>9 DEF Stage
<1>. QED
  BY <1>1, <1>2, <1>3, <1>4, <1>5, <1>10

\* A goroutine leaves the copy so.
LEMMA CopiedKept ==
    ASSUME IInv, Copied, NEW t \in Txs, Goroutine(t)
    PROVE  Copied'
<1>1. Machine /\ Executions /\ DOMAIN exec = Txs /\ DOMAIN exec[t] = Fields
  BY Parts DEF Executions, GoodExec
<1>2. /\ phase = "running" /\ UNCHANGED <<block, plan, level, db>>
      /\ \A u \in Txs : u # t => exec'[u] = exec[u]
  BY <1>1, GoroutineMoves DEF mainVars
<1>3. Level(level) \subseteq Txs /\ t \in Level(level)
  <2>1. Level(level) \subseteq Txs /\ Current = Level(level)
    BY <1>2, AtWork
  <2>. QED
    BY <1>1, <2>1, GoroutineMoves
<1>4. /\ Level(level)' = Level(level) /\ \A a : Gifts(a)' = Gifts(a)
      /\ \A u : From(u)' = From(u)
  BY <1>2, StageSame
<1>5. /\ \A a \in Account : cp[a].nonce = db[a].nonce /\ cp[a].bal \in {db[a].bal} \cup Gifts(a)
      /\ \A u \in Level(level) :
             exec[u].pc \notin {"start", "pool", "setBalance"} => cp[From(u)].bal \in Gifts(From(u))
  BY <1>2 DEF Copied
<1>6. SUFFICES /\ \A a \in Account : cp'[a].nonce = db[a].nonce /\ cp'[a].bal \in {db[a].bal} \cup Gifts(a)
               /\ \A u \in Level(level) :
                      exec'[u].pc \notin {"start", "pool", "setBalance"} => cp'[From(u)].bal \in Gifts(From(u))
  BY <1>2, <1>4 DEF Copied
<1>7. CASE SetBalance(t)
  <2>1. cp' = [cp EXCEPT ![From(t)].bal = 2 * Want(t)]
    BY <1>7 DEF SetBalance
  <2>2. From(t) \in Account /\ \A u \in Txs : From(u) \in Account
    BY <1>1, AtLemma
  <2>3. cp \in [Account -> [bal : Int, nonce : Nat]]
    BY <1>1 DEF Machine, Objects
  <2>. DEFINE gift == 2 * Want(t)
  <2>4. gift \in Gifts(From(t))
    BY <1>3 DEF Gifts
  <2>5. cp'[From(t)].bal = gift /\ cp'[From(t)].nonce = cp[From(t)].nonce
    BY <2>1, <2>2, <2>3
  <2>6. \A a \in Account : a # From(t) => cp'[a] = cp[a]
    BY <2>1, <2>2, <2>3
  <2>. HIDE DEF gift
  <2>7. \A a \in Account : cp'[a].nonce = db[a].nonce /\ cp'[a].bal \in {db[a].bal} \cup Gifts(a)
    BY <1>5, <2>4, <2>5, <2>6
  <2>8. ASSUME NEW u \in Level(level), exec'[u].pc \notin {"start", "pool", "setBalance"}
        PROVE  cp'[From(u)].bal \in Gifts(From(u))
    <3>1. CASE From(u) = From(t)
      BY <2>4, <2>5, <3>1
    <3>2. CASE From(u) # From(t)
      <4>1. u # t /\ u \in Txs /\ exec'[u] = exec[u]
        BY <1>2, <1>3, <3>2
      <4>. QED
        BY <1>5, <2>2, <2>6, <2>8, <3>2, <4>1
    <3>. QED
      BY <3>1, <3>2
  <2>. QED
    BY <2>7, <2>8
<1>8. CASE ~SetBalance(t)
  <2>1. cp' = cp
    BY <1>8 DEF Goroutine, MakePool, PassPool, Have, LoadGas, SubGas, CanTransfer,
       Call, Credit, Refund, LoadPool, AddGas, PayTip, Send
  <2>2. exec'[t].pc \in {"start", "pool", "setBalance"} \/ exec[t].pc \notin {"start", "pool", "setBalance"}
    <3>1. CASE MakePool(t)
      BY <1>1, <3>1 DEF MakePool, Goto, Fields
    <3>2. CASE PassPool(t)
      BY <1>1, <3>2 DEF PassPool, Fields
    <3>3. CASE ~MakePool(t) /\ ~PassPool(t)
      BY <1>8, <3>3 DEF Goroutine, Have, LoadGas, SubGas, CanTransfer,
         Call, Credit, Refund, LoadPool, AddGas, PayTip, Send, IsAt
    <3>. QED
      BY <3>1, <3>2, <3>3
  <2>3. ASSUME NEW u \in Level(level), exec'[u].pc \notin {"start", "pool", "setBalance"}
        PROVE  cp'[From(u)].bal \in Gifts(From(u))
    <3>1. u = t \/ exec'[u] = exec[u]
      BY <1>2, <1>3
    <3>2. exec[u].pc \notin {"start", "pool", "setBalance"}
      BY <2>2, <2>3, <3>1
    <3>. QED
      BY <1>5, <2>1, <3>2
  <2>. QED
    BY <1>5, <2>1, <2>3
<1>. QED
  BY <1>7, <1>8

\* A goroutine leaves every goroutine of the level at its stage.
LEMMA StagedKept ==
    ASSUME IInv, Left * Price > 0, Tip = 0, Supply, Copied, Stocked, Staged, NEW t \in Txs, Goroutine(t)
    PROVE  Staged'
<1>1. Machine /\ Executions /\ DOMAIN exec = Txs
  BY Parts DEF Executions
<1>2. /\ phase = "running" /\ UNCHANGED <<block, plan, level, db>>
      /\ \A u \in Txs : u # t => exec'[u] = exec[u]
  BY <1>1, GoroutineMoves DEF mainVars
<1>3. Level(level) \subseteq Txs /\ t \in Level(level)
  <2>1. Level(level) \subseteq Txs /\ Current = Level(level)
    BY <1>2, AtWork
  <2>. QED
    BY <1>1, <2>1, GoroutineMoves
<1>4. /\ Level(level)' = Level(level)
      /\ \A u : NextNonce(u)' = NextNonce(u) /\ View(u)' = View(u)
      /\ \A e, u, n, V : Stage(e, u, n, V)' <=> Stage(e, u, n, V)
  BY <1>2, StageSame
<1>5. \A u \in Level(level) : Stage(exec[u], u, NextNonce(u), View(u))
  BY <1>2 DEF Staged
<1>6. From(t) \in Account /\ To(t) \in Account /\ \A a \in Account : cp[a].bal \in Int /\ cp[a].nonce \in Nat
  BY <1>1, AtLemma
<1>. DEFINE n == NextNonce(t)
            V == View(t)
<1>7. Finds(t, n, V)
  <2>1. n = cp[From(t)].nonce + 1 /\ n \in Nat
    BY <1>2, <1>6 DEF Copied, NextNonce
  <2>2. \A a \in Account : V[a] = IF a = From(t) THEN Gifts(a) ELSE {db[a].bal} \cup Gifts(a)
    BY DEF View
  <2>3. \A a : \A x \in Gifts(a) : x \in Int
    <3>1. \A u \in Txs : Want(u) \in Nat
      BY <1>1, AtLemma
    <3>2. \A u \in Level(level) : 2 * Want(u) \in Int
      <4>1. \A x \in Nat : 2 * x \in Int
        OBVIOUS
      <4>. QED
        BY <1>3, <3>1, <4>1
    <3>. QED
      BY <3>2 DEF Gifts
  <2>4. \A x \in V[To(t)] : x \in Int
    <3>1. db[To(t)].bal \in Int
      BY <1>1, <1>6, AtLemma
    <3>. QED
      BY <1>6, <2>2, <2>3, <3>1
  <2>5. ASSUME exec[t].pc \notin {"start", "pool", "setBalance"}
        PROVE  /\ cp[From(t)].bal \in V[From(t)] /\ cp[To(t)].bal \in V[To(t)]
               /\ \E u \in Level(level) : From(u) = From(t) /\ cp[From(t)].bal = 2 * Want(u)
    <3>1. cp[From(t)].bal \in Gifts(From(t))
      BY <1>2, <1>3, <2>5 DEF Copied
    <3>2. cp[To(t)].bal \in {db[To(t)].bal} \cup Gifts(To(t))
      BY <1>2, <1>6 DEF Copied
    <3>3. cp[To(t)].bal \in V[To(t)] /\ cp[From(t)].bal \in V[From(t)]
      <4>1. CASE To(t) = From(t)
        BY <1>6, <2>2, <3>1, <4>1
      <4>2. CASE To(t) # From(t)
        BY <1>6, <2>2, <3>1, <3>2, <4>2
      <4>. QED
        BY <4>1, <4>2
    <3>. QED
      BY <3>1, <3>3 DEF Gifts
  <2>6. exec[t].pc = "loadGas" => pools[exec[t].pool] >= TxGas
    BY <1>1, <1>2, <1>3, PoolHasGas
  <2>. HIDE DEF n, V
  <2>. QED
    BY <2>1, <2>4, <2>5, <2>6 DEF Finds
<1>8. Stage(exec[t], t, n, V)
  BY <1>3, <1>5
<1>. HIDE DEF n, V
<1>9. Stage(exec'[t], t, n, V)
  BY <1>1, <1>7, <1>8, GoroutineStages
<1>10. ASSUME NEW u \in Level(level) PROVE Stage(exec'[u], u, NextNonce(u), View(u))
  <2>1. CASE u = t
    BY <1>9, <2>1 DEF n, V
  <2>2. CASE u # t
    BY <1>2, <1>3, <1>5, <2>2
  <2>. QED
    BY <2>1, <2>2
<1>11. \A u \in Level(level) : Stage(exec'[u], u, NextNonce(u), View(u))
  BY <1>10
<1>12. (\A u \in Level(level) : Stage(exec[u], u, NextNonce(u), View(u)))'
  BY <1>4, <1>11
<1>. QED
  BY <1>12 DEF Staged

\* What is ahead has not begun.
Unbegun ==
    /\ phase = "fill" => \A t \in Txs : exec[t] = Idle
    /\ phase # "fill" =>
           \A l \in 0 .. plan.maxLevel :
               l > level \/ (l = level /\ phase = "level") => \A t \in Level(l) : exec[t] = Idle

\* The lists are of the level, and what they hold is there once.
Queued ==
    /\ phase = "running" => Elements(arrived) \subseteq Level(level)
    /\ phase = "detect" => Elements(order) \subseteq Level(level) /\ Distinct(order) /\ Level(level) # {}
    /\ phase \in {"fill", "level", "running", "detect", "done"} => conflicts = <<>>
    /\ phase \in Redoing => Distinct(conflicts)

\* While a transaction is executed again its sender has what buyGas gave it, and the
\* new write set charges the value twice.
Redoes(t) ==
    /\ db[From(t)].bal = 2 * Want(t)
    /\ phase = "reCall" => Charged(retried[t].cache, t, Cost)
    /\ phase = "reCommit" => Moved(retried[t].cache, t, Cost + Value(t) + Value(t), NextNonce(t),
                                   [a \in Account |-> {db[a].bal}])
Redone == phase \in {"reCall", "reCommit"} => Redoes(Head(conflicts))

AInv == Staged /\ Copied /\ Stocked /\ Unbegun /\ Queued /\ Redone

\* Initially.
LEMMA AtomicInit == Init => AInv
<1>. SUFFICES ASSUME Init PROVE AInv
  OBVIOUS
<1>1. phase = "fill" /\ conflicts = <<>> /\ exec = [t \in Txs |-> Idle]
  BY DEF Init
<1>2. Unbegun /\ Queued
  BY <1>1 DEF Unbegun, Queued, Redoing
<1>. QED
  BY <1>1, <1>2 DEF AInv, Staged, Copied, Stocked, Redone

\* Filling the plan.
LEMMA AtomicByFill == ASSUME IInv, AInv, Fill PROVE AInv'
<1>1. phase = "fill" /\ phase' = "level" /\ UNCHANGED <<block, exec, level, conflicts>>
  BY Zenon DEF Fill
<1>2. \A t \in Txs : exec[t] = Idle
  BY <1>1 DEF AInv, Unbegun
<1>3. \A l \in 0 .. plan'.maxLevel : Elements(plan'.items[l + 1]) \subseteq Txs
  <2>1. IInv' /\ Txs' = Txs
    BY <1>1, KeptByFill DEF Txs
  <2>2. PlanUpTo(Len(block), plan)' /\ block' \in Blocks
    BY <1>1, <2>1 DEF IInv, Block, Planned, Machine
  <2>3. PlanUpTo(Len(block), plan')
    BY <1>1, <2>2 DEF PlanUpTo, AllPlaced, Rising
  <2>4. block \in Blocks
    BY Parts
  <2>. QED
    BY <2>3, <2>4, LevelFacts
<1>4. Unbegun'
  <2>1. \A l : Level(l)' = Elements(plan'.items[l + 1])
    BY DEF Level, Elements
  <2>. QED
    BY <1>1, <1>2, <1>3, <2>1 DEF Unbegun
<1>5. Queued'
  BY <1>1 DEF AInv, Queued, Redoing
<1>. QED
  BY <1>1, <1>4, <1>5 DEF AInv, Staged, Copied, Stocked, Redone

\* A goroutine that has not begun.
LEMMA IdleStage ==
    ASSUME NEW t, NEW n, NEW V
    PROVE  Stage(Idle, t, n, V)
<1>1. /\ Idle.pc = "start" /\ Idle.rset = NewSet /\ Idle.wset = NewSet
      /\ Idle.err = FALSE /\ Idle.vmErr = FALSE
  BY DEF Idle
<1>2. Entries(NewSet.cache) = {}
  BY EmptySet
<1>3. Reads(Idle, t)
  BY <1>1, <1>2 DEF Reads, Beginning, Repaid
<1>4. Writes(Idle, t, n, V)
  BY <1>1 DEF Writes, Repaid
<1>5. Fails(Idle, t)
  BY <1>1 DEF Fails, Succeeds
<1>. QED
  BY <1>3, <1>4, <1>5 DEF Stage

\* Starting a level.
LEMMA AtomicByStartLevel == ASSUME IInv, AInv, StartLevel PROVE AInv'
<1>1. /\ Planned /\ level \in Nat /\ plan.maxLevel \in Nat
  BY Parts
<1>2. /\ phase = "level" /\ UNCHANGED <<block, exec, plan, level, db, conflicts>>
      /\ \/ level < plan.maxLevel + 1 /\ phase' = "running" /\ cp' = db /\ arrived' = <<>>
         \/ phase' = "done"
  BY DEF StartLevel, GetMaxLevel, mainVars
<1>3. /\ Txs' = Txs /\ \A l : Level(l)' = Level(l)
  BY <1>2, LevelsStay
<1>4. Unbegun'
  BY <1>2, <1>3 DEF AInv, Unbegun
<1>5. conflicts' = <<>> /\ Elements(<<>>) = {}
  BY <1>2 DEF AInv, Queued, Elements
<1>6. Redone'
  BY <1>2 DEF Redone
<1>7. CASE phase' = "done"
  <2>1. Queued'
    BY <1>5, <1>7 DEF Queued, Redoing
  <2>. QED
    BY <1>4, <1>6, <1>7, <2>1 DEF AInv, Staged, Copied, Stocked
<1>8. CASE phase' = "running"
  <2>1. level \in 0 .. plan.maxLevel
    BY <1>1, <1>2, <1>8
  <2>2. \A t \in Level(level) : exec[t] = Idle
    BY <1>2, <2>1 DEF AInv, Unbegun
  <2>3. Idle.pc = "start"
    BY DEF Idle
  <2>4. /\ Level(level)' = Level(level)
        /\ \A a : Gifts(a)' = Gifts(a)
        /\ \A u : From(u)' = From(u) /\ NextNonce(u)' = NextNonce(u) /\ View(u)' = View(u)
        /\ \A e, u, n, V : Stage(e, u, n, V)' <=> Stage(e, u, n, V)
    BY <1>2, StageSame
  <2>5. Staged'
    <3>1. \A t \in Level(level) : Stage(exec'[t], t, NextNonce(t), View(t))
      BY <1>2, <2>2, IdleStage
    <3>2. (\A t \in Level(level) : Stage(exec[t], t, NextNonce(t), View(t)))'
      BY <2>4, <3>1
    <3>. QED
      BY <3>2 DEF Staged
  <2>6. Copied'
    BY <1>2, <1>8, <2>2, <2>3, <2>4 DEF Copied
  <2>7. Stocked'
    <3>1. \A t \in Level(level)' : exec'[t].pc = "start"
      BY <1>2, <2>2, <2>3, <2>4
    <3>2. Begun' = {}
      BY <3>1 DEF Begun
    <3>. QED
      BY <3>1, <3>2 DEF Stocked
  <2>8. Queued'
    BY <1>2, <1>5, <1>8 DEF Queued, Redoing, Elements
  <2>. QED
    BY <1>4, <1>6, <2>5, <2>6, <2>7, <2>8 DEF AInv
<1>. QED
  BY <1>2, <1>7, <1>8

\* A goroutine.
LEMMA AtomicByGoroutine ==
    ASSUME IInv, AInv, Left * Price > 0, Tip = 0, Supply, NEW t \in Txs, Goroutine(t)
    PROVE  AInv'
<1>1. Machine /\ Executions /\ Lists /\ block \in Blocks
  BY Parts
<1>2. /\ phase = "running" /\ phase' \in {"running", "crashed"} /\ t \in Current
      /\ UNCHANGED <<block, plan, level, db, conflicts>>
      /\ \A u \in Txs : u # t => exec'[u] = exec[u]
      /\ arrived' = IF exec'[t].pc = "done" THEN Append(arrived, t) ELSE arrived
  BY <1>1, GoroutineMoves DEF mainVars
<1>3. /\ Txs' = Txs /\ \A l : Level(l)' = Level(l)
  BY <1>2, LevelsStay
<1>4. /\ level \in 0 .. plan.maxLevel /\ t \in Level(level) /\ PlanUpTo(Len(block), plan)
      /\ \A l \in 0 .. plan.maxLevel : Level(l) \subseteq Txs /\ (t \in Level(l) => l = level)
  <2>1. /\ level \in 0 .. plan.maxLevel /\ PlanUpTo(Len(block), plan)
        /\ Level(level) \subseteq Txs /\ Current = Level(level)
    BY <1>2, AtWork
  <2>. QED
    BY <1>1, <1>2, <2>1, LevelFacts DEF Level
<1>5. Staged' /\ Copied' /\ Stocked'
  BY StagedKept, CopiedKept, StockedKept DEF AInv
<1>6. Unbegun'
  <2>1. ASSUME NEW l \in 0 .. plan.maxLevel, l > level, NEW u \in Level(l) PROVE exec'[u] = Idle
    <3>1. u # t /\ u \in Txs
      <4>1. l # level
        BY <1>4, <2>1
      <4>. QED
        BY <1>4, <2>1, <4>1
    <3>2. exec[u] = Idle
      BY <1>2, <2>1 DEF AInv, Unbegun
    <3>. QED
      BY <1>2, <3>1, <3>2
  <2>. QED
    BY <1>2, <1>3, <2>1 DEF Unbegun
<1>7. Queued'
  <2>1. Elements(arrived) \subseteq Level(level) /\ conflicts = <<>>
    BY <1>2 DEF AInv, Queued
  <2>2. Elements(arrived') \subseteq Level(level)
    <3>1. arrived \in Seq(Txs)
      BY <1>1 DEF Lists, AllFinished
    <3>2. Elements(Append(arrived, t)) = Elements(arrived) \cup {t}
      BY <3>1, AppendLemma
    <3>. QED
      BY <1>2, <1>4, <2>1, <3>2
  <2>. QED
    BY <1>2, <1>3, <2>1, <2>2 DEF Queued, Redoing, Elements
<1>. QED
  BY <1>2, <1>5, <1>6, <1>7 DEF AInv, Redone

\* Joining the goroutines of a level.
LEMMA AtomicByJoin == ASSUME IInv, AInv, Join PROVE AInv'
<1>1. phase = "running" /\ phase' = "detect" /\ UNCHANGED <<block, exec, plan, level, db, conflicts>>
  BY Zenon DEF Join
<1>2. Elements(order') = Elements(arrived) /\ Distinct(order')
  <2>1. arrived \in Seq(Txs)
    BY Parts DEF Lists, AllFinished
  <2>. QED
    BY <2>1, OrderLemma
<1>3. /\ Txs' = Txs /\ \A l : Level(l)' = Level(l)
  BY <1>1, LevelsStay
<1>4. Staged'
  <2>1. /\ Level(level)' = Level(level)
        /\ \A u : NextNonce(u)' = NextNonce(u) /\ View(u)' = View(u)
        /\ \A e, u, n, V : Stage(e, u, n, V)' <=> Stage(e, u, n, V)
    BY <1>1, StageSame
  <2>2. \A t \in Level(level) : Stage(exec[t], t, NextNonce(t), View(t))
    BY <1>1 DEF AInv, Staged
  <2>3. (\A t \in Level(level) : Stage(exec[t], t, NextNonce(t), View(t)))'
    BY <1>1, <2>1, <2>2
  <2>. QED
    BY <2>3 DEF Staged
<1>5. Unbegun'
  BY <1>1, <1>3 DEF AInv, Unbegun
<1>6. Queued'
  <2>1. Elements(order)' = Elements(order') /\ (Distinct(order)' <=> Distinct(order'))
    BY DEF Elements, Distinct
  <2>2. Level(level) # {}
    <3>1. Current # {}
      BY Zenon DEF Join
    <3>. QED
      BY <3>1, CurrentLevel
  <2>3. Elements(arrived) \subseteq Level(level) /\ conflicts = <<>>
    BY <1>1 DEF AInv, Queued
  <2>. QED
    BY <1>1, <1>2, <1>3, <2>1, <2>2, <2>3 DEF Queued, Redoing
<1>. QED
  BY <1>1, <1>4, <1>5, <1>6 DEF AInv, Copied, Stocked, Redone

\* The next level.
LEMMA AtomicByNextLevel == ASSUME IInv, AInv, NextLevel PROVE AInv'
<1>1. /\ phase = "redo" /\ phase' = "level" /\ level' = level + 1 /\ level \in Nat /\ conflicts = <<>>
      /\ UNCHANGED <<block, exec, plan, db, conflicts>>
  BY Parts DEF NextLevel
<1>2. /\ Txs' = Txs /\ \A l : Level(l)' = Level(l)
  BY <1>1, LevelsStay
<1>3. Unbegun'
  <2>1. \A l \in 0 .. plan.maxLevel : l > level => \A t \in Level(l) : exec[t] = Idle
    BY <1>1 DEF AInv, Unbegun
  <2>2. \A l \in 0 .. plan.maxLevel : l > level + 1 \/ l = level + 1 => l > level
    BY <1>1
  <2>. QED
    BY <1>1, <1>2, <2>1, <2>2 DEF Unbegun
<1>4. Queued'
  BY <1>1 DEF Queued, Redoing
<1>. QED
  BY <1>1, <1>3, <1>4 DEF AInv, Staged, Copied, Stocked, Redone

\* The execution of a transaction again keeps what is said of the levels.
LEMMA RedoAtomic ==
    ASSUME AInv, phase \in Redoing, phase' \in Redoing \cup {"crashed"},
           UNCHANGED <<block, plan, level, exec>>, phase' \in Redoing => Distinct(conflicts'), Redone'
    PROVE  AInv'
<1>1. /\ Txs' = Txs /\ \A l : Level(l)' = Level(l)
  BY LevelsStay
<1>2. Unbegun'
  BY <1>1 DEF AInv, Unbegun, Redoing
<1>3. Queued'
  <2>1. Distinct(conflicts)' <=> Distinct(conflicts')
    BY DEF Distinct
  <2>. QED
    BY <2>1 DEF Queued, Redoing
<1>. QED
  BY <1>2, <1>3 DEF AInv, Staged, Copied, Stocked, Redoing

\* The gas is bought once more.
LEMMA AtomicByReBuyGas == ASSUME IInv, AInv, ReBuyGas PROVE AInv'
<1>. SUFFICES ASSUME NEW t, t = Head(conflicts) PROVE AInv'
  OBVIOUS
<1>. DEFINE w == WriteUpdate(NewSet, From(t), SubBalanceKey, Cost, 0)
            paid == [db EXCEPT ![From(t)].bal = 2 * Want(t)]
<1>1. Machine /\ Executions /\ Lists /\ Sets
  BY Parts
<1>2. /\ phase = "redo" /\ conflicts # <<>>
      /\ UNCHANGED <<block, exec, plan, level, conflicts, results>>
      /\ \/ phase' = "crashed"
         \/ phase' = "reCall" /\ db' = paid /\ retried' = Put(retried, t, w)
  BY DEF ReBuyGas, Cost
<1>3. t \in Txs /\ From(t) \in Account
  BY <1>1, <1>2, HeadLemma, AtLemma
<1>4. Charged(w.cache, t, Cost)
  <2>1. Cost \in Int
    BY <1>1, <1>3, TxFacts
  <2>. HIDE DEF Cost
  <2>. QED
    BY <1>1, <1>3, <2>1, ChargeWrites
<1>5. paid[From(t)].bal = 2 * Want(t)
  <2>1. db \in [Account -> [bal : Int, nonce : Nat]]
    BY <1>1 DEF Machine, Objects
  <2>. QED
    BY <1>3, <2>1
<1>. HIDE DEF w, paid
<1>6. Distinct(conflicts)
  BY <1>2 DEF AInv, Queued, Redoing
<1>7. /\ From(t)' = From(t) /\ Want(t)' = Want(t) /\ Cost' = Cost
      /\ \A c, s : Charged(c, t, s)' <=> Charged(c, t, s)
  BY <1>2 DEF From, Want, Value, Cost, Charged
<1>8. Redone'
  <2>1. CASE phase' = "crashed"
    BY <2>1 DEF Redone
  <2>2. CASE phase' = "reCall" /\ db' = paid /\ retried' = Put(retried, t, w)
    <3>1. retried'[t] = w
      BY <2>2 DEF Put
    <3>2. Charged(retried'[t].cache, t, Cost) /\ db'[From(t)].bal = 2 * Want(t)
      BY <1>4, <1>5, <2>2, <3>1
    <3>3. Redoes(t)'
      BY <1>7, <2>2, <3>2 DEF Redoes
    <3>4. t = Head(conflicts')
      BY <1>2
    <3>. QED
      BY <3>3, <3>4 DEF Redone
  <2>. QED
    BY <1>2, <2>1, <2>2
<1>. QED
  BY <1>2, <1>6, <1>8, RedoAtomic DEF Redoing

\* The call is made once more.
LEMMA AtomicByReCall == ASSUME IInv, AInv, ReCall PROVE AInv'
<1>. SUFFICES ASSUME NEW t, t = Head(conflicts) PROVE AInv'
  OBVIOUS
<1>. DEFINE charged == WriteUpdate(retried[t], From(t), SubBalanceKey, Value(t), 0)
            next == db[From(t)].nonce + 1
            counted == WriteUpdate(charged, From(t), NonceKey, next, 0)
            w == IF Value(t) > 0 THEN Transfer(counted, t, db[To(t)].bal) ELSE counted
            s == Cost + Value(t)
            V == [a \in Account |-> {db[a].bal}]
<1>1. Machine /\ Executions /\ Lists /\ Sets
  BY Parts
<1>2. /\ phase = "reCall" /\ phase' = "reCommit" /\ retried' = Put(retried, t, w)
      /\ UNCHANGED <<block, exec, plan, level, db, conflicts, results>>
  BY DEF ReCall
<1>3. conflicts # <<>> /\ t \in DOMAIN retried /\ GoodSet(retried[t])
  BY <1>1, <1>2 DEF Sets
<1>4. Charged(retried[t].cache, t, Cost) /\ db[From(t)].bal = 2 * Want(t) /\ Distinct(conflicts)
  BY <1>2 DEF AInv, Redone, Redoes, Queued, Redoing
<1>5. /\ t \in Txs /\ From(t) \in Account /\ To(t) \in Account /\ Value(t) \in Nat /\ next \in Nat
      /\ db[To(t)].bal \in Int /\ Cost \in Int /\ s \in Int /\ db[To(t)].bal \in V[To(t)]
  <2>1. t \in Txs
    BY <1>1, <1>3, HeadLemma
  <2>2. From(t) \in Account /\ To(t) \in Account /\ Value(t) \in Nat /\ Cost \in Nat
    BY <1>1, <2>1, TxFacts
  <2>3. next \in Nat /\ db[To(t)].bal \in Int
    BY <1>1, <2>1, AtLemma
  <2>. HIDE DEF Cost
  <2>. QED
    BY <2>1, <2>2, <2>3
<1>. HIDE DEF next, Cost
<1>6. GoodSet(charged) /\ Charged(charged.cache, t, s)
  BY <1>1, <1>3, <1>4, <1>5, ChargeMore
<1>. HIDE DEF charged, s
<1>7. GoodSet(counted) /\ Numbered(counted.cache, t, s, next)
  BY <1>1, <1>5, <1>6, NumberWrites
<1>. HIDE DEF counted, V
<1>8. Moved(w.cache, t, s + Value(t), next, V)
  <2>1. CASE Value(t) > 0
    <3>1. LET x == Transfer(counted, t, db[To(t)].bal)
          IN  GoodSet(x) /\ Moved(x.cache, t, s + Value(t), next, V)
      BY <1>1, <1>5, <1>7, <2>1, MoveWrites
    <3>2. w = Transfer(counted, t, db[To(t)].bal)
      BY <2>1
    <3>. HIDE DEF w
    <3>. QED
      BY <3>1, <3>2
  <2>2. CASE ~(Value(t) > 0)
    <3>1. Value(t) = 0 /\ w = counted
      BY <1>5, <2>2
    <3>. HIDE DEF w
    <3>2. Moved(counted.cache, t, s + Value(t), next, V)
      BY <1>1, <1>5, <1>7, <3>1, MoveNothing
    <3>. QED
      BY <3>1, <3>2
  <2>. QED
    BY <2>1, <2>2
<1>. HIDE DEF w
<1>9. retried'[t] = w /\ next = NextNonce(t) /\ s + Value(t) = Cost + Value(t) + Value(t)
  BY <1>2 DEF Put, next, NextNonce, s
<1>10. /\ From(t)' = From(t) /\ Want(t)' = Want(t) /\ Cost' = Cost /\ Value(t)' = Value(t)
       /\ NextNonce(t)' = NextNonce(t) /\ V' = V
       /\ \A c, x, n, W : Moved(c, t, x, n, W)' <=> Moved(c, t, x, n, W)
  BY <1>2 DEF From, To, Want, Value, Cost, Moved, NextNonce, V
<1>11. Redone'
  <2>1. Moved(retried'[t].cache, t, Cost + Value(t) + Value(t), NextNonce(t), V)
    BY <1>8, <1>9
  <2>2. Redoes(t)'
    BY <1>2, <1>4, <1>10, <2>1 DEF Redoes, V
  <2>3. t = Head(conflicts')
    BY <1>2
  <2>. QED
    BY <2>2, <2>3 DEF Redone
<1>. QED
  BY <1>2, <1>4, <1>11, RedoAtomic DEF Redoing

\* The transaction executed again is committed.
LEMMA AtomicByReCommit == ASSUME IInv, AInv, ReCommit PROVE AInv'
<1>1. /\ phase = "reCommit" /\ UNCHANGED <<block, exec, plan, level>>
      /\ phase' \in {"redo", "crashed"} /\ conflicts' \in {conflicts, Tail(conflicts)}
  BY DEF ReCommit
<1>2. conflicts \in Seq(Txs) /\ conflicts # <<>> /\ Distinct(conflicts)
  BY <1>1, Parts DEF Lists, AllFinished, Sets, AInv, Queued, Redoing
<1>3. Distinct(conflicts')
  <2>1. Distinct(Tail(conflicts))
    BY <1>2, DistinctTail
  <2>. QED
    BY <1>1, <1>2, <2>1
<1>4. Redone'
  BY <1>1 DEF Redone
<1>. QED
  BY <1>1, <1>3, <1>4, RedoAtomic DEF Redoing

-----------------------------------------------------------------------------
(* What DetectConflicts makes of the records of a level.                   *)

\* A transaction that fails and counts its nonce, and one that fails and owes its gas.
Numbers(t) == exec[t].vmErr /\ Late(exec[t].wset.cache, t, NextNonce(t))
Owes(t) == exec[t].vmErr /\ Charged(exec[t].wset.cache, t, Cost)

\* The whole effect of t is in the cache w.
Effective(w, t) ==
    /\ Holds(w, From(t), SubBalanceKey, Cost + Value(t)) /\ Holds(w, From(t), NonceKey, NextNonce(t))
    /\ \A a \in Touches(t) : \E x \in View(t)[a] : Holds(w, a, BalanceKey, x + Gain(t, a))

\* The nonce of a takes the place of all that was written for a.
Clears(t, a) == a \in DOMAIN Kept(t) /\ KeepsNonce(t, a)

\* What the record of a transaction tells of it.
Recorded(t) ==
    /\ Entries(exec[t].rset.cache) \subseteq Names(t) \X {BalanceKey}
    /\ ~exec[t].err => <<From(t), BalanceKey>> \in Entries(exec[t].rset.cache)
    /\ \A a : Clears(t, a) => a = From(t) /\ Numbers(t)
    /\ Succeeds(exec[t]) =>
           /\ Touches(t) \X {BalanceKey} \subseteq Entries(exec[t].rset.cache)
           /\ Entries(Kept(t)) = {<<From(t), SubBalanceKey>>, <<From(t), NonceKey>>}
                                    \cup (Touches(t) \X {BalanceKey})
           /\ Effective(Kept(t), t)
    /\ Numbers(t) => /\ Entries(Kept(t)) = {<<From(t), NonceKey>>}
                     /\ Holds(Kept(t), From(t), NonceKey, NextNonce(t))
    /\ Owes(t) => /\ Entries(Kept(t)) = {<<From(t), SubBalanceKey>>}
                  /\ Holds(Kept(t), From(t), SubBalanceKey, Cost)
    /\ exec[t].err => Entries(Kept(t)) = {}
    /\ exec[t].vmErr => ~exec[t].err /\ (Numbers(t) \/ Owes(t)) /\ ~(Numbers(t) /\ Owes(t))

\* Which entries of its write set a transaction is committed with.
LEMMA KeptEntries ==
    ASSUME NEW t, NEW a, NEW l
    PROVE  /\ <<a, l>> \in Entries(Kept(t)) <=>
                  <<a, l>> \in Entries(exec[t].wset.cache) /\ (KeepsNonce(t, a) => l = NonceKey)
           /\ <<a, l>> \in Entries(Kept(t)) => Kept(t)[a][l] = exec[t].wset.cache[a][l]
<1>. DEFINE c == exec[t].wset.cache
            k == Kept(t)
<1>1. /\ DOMAIN k = DOMAIN c
      /\ a \in DOMAIN c => k[a] = IF KeepsNonce(t, a) THEN OnlyNonce(c[a]) ELSE c[a]
  BY DEF Kept
<1>2. /\ DOMAIN OnlyNonce(c[a]) = DOMAIN c[a] \cap {NonceKey}
      /\ \A x \in DOMAIN c[a] \cap {NonceKey} : OnlyNonce(c[a])[x] = c[a][x]
  BY DEF OnlyNonce
<1>. HIDE DEF c, k
<1>3. /\ <<a, l>> \in Entries(k) <=> a \in DOMAIN k /\ l \in DOMAIN k[a]
      /\ <<a, l>> \in Entries(c) <=> a \in DOMAIN c /\ l \in DOMAIN c[a]
  BY EntryLemma
<1>. QED
  BY <1>1, <1>2, <1>3 DEF c, k

\* The entries of a cache are pairs.
LEMMA EntriesAre ==
    ASSUME NEW c, NEW S, \A e \in S : \E a, l : e = <<a, l>>,
           \A a, l : <<a, l>> \in Entries(c) <=> <<a, l>> \in S
    PROVE  Entries(c) = S
<1>1. \A e \in Entries(c) : \E a, l : e = <<a, l>>
  BY DEF Entries
<1>. QED
  BY <1>1

\* The record of a goroutine that has finished.
LEMMA RecordLemma ==
    ASSUME Machine, Executions, NEW t \in Txs, Finished(t), Stage(exec[t], t, NextNonce(t), View(t))
    PROVE  Recorded(t)
<1>. DEFINE e == exec[t]
            c == exec[t].wset.cache
            k == Kept(t)
            from == From(t)
            n == NextNonce(t)
<1>1. /\ e.pc = "done" /\ GoodExec(e, Txs, from) /\ DOMAIN k = DOMAIN c
  BY DEF Executions, Finished, Kept
<1>2. Reads(e, t) /\ Writes(e, t, n, View(t)) /\ Fails(e, t)
  BY DEF Stage
<1>3. NonceKey # SubBalanceKey
  BY TxFacts
<1>4. \A a, l : /\ <<a, l>> \in Entries(k) <=> <<a, l>> \in Entries(c) /\ (KeepsNonce(t, a) => l = NonceKey)
                /\ <<a, l>> \in Entries(k) => k[a][l] = c[a][l]
  <2>1. ASSUME NEW a, NEW l
        PROVE  /\ <<a, l>> \in Entries(k) <=> <<a, l>> \in Entries(c) /\ (KeepsNonce(t, a) => l = NonceKey)
               /\ <<a, l>> \in Entries(k) => k[a][l] = c[a][l]
    BY KeptEntries
  <2>. QED
    BY <2>1
<1>5. \A a : a \in DOMAIN c => (KeepsNonce(t, a) <=> (e.err \/ e.vmErr) /\ <<a, NonceKey>> \in Entries(c))
  <2>1. ASSUME NEW a, a \in DOMAIN c
        PROVE  KeepsNonce(t, a) <=> (e.err \/ e.vmErr) /\ <<a, NonceKey>> \in Entries(c)
    <3>1. <<a, NonceKey>> \in Entries(c) <=> a \in DOMAIN c /\ NonceKey \in DOMAIN c[a]
      BY EntryLemma
    <3>. QED
      BY <2>1, <3>1 DEF KeepsNonce
  <2>. QED
    BY <2>1
<1>6. \A a, l : <<a, l>> \in Entries(c) => a \in DOMAIN c
  BY DEF Entries
<1>7. /\ Entries(e.rset.cache) \subseteq Names(t) \X {BalanceKey}
      /\ ~e.err => <<from, BalanceKey>> \in Entries(e.rset.cache)
      /\ Succeeds(e) => Touches(t) \X {BalanceKey} \subseteq Entries(e.rset.cache)
  BY <1>1, <1>2 DEF Reads, Beginning, Repaid, Touches, Succeeds
<1>8. e.err => Entries(c) = {}
  BY <1>1, EmptySet DEF GoodExec
<1>9. e.vmErr => ~e.err /\ (Late(c, t, n) \/ Charged(c, t, Cost))
  BY <1>1, <1>2 DEF Fails, Writes
<1>10. ~(Late(c, t, n) /\ Charged(c, t, Cost))
  BY <1>3 DEF Late, Charged, Holds
<1>. HIDE DEF k, c
<1>11. \A a : Clears(t, a) => a = from /\ Numbers(t)
  <2>. SUFFICES ASSUME NEW a, Clears(t, a) PROVE a = from /\ Numbers(t)
    OBVIOUS
  <2>1. <<a, NonceKey>> \in Entries(c) /\ (e.err \/ e.vmErr)
    BY <1>1, <1>5 DEF Clears, k
  <2>2. e.vmErr
    BY <1>8, <2>1
  <2>3. ~Charged(c, t, Cost)
    BY <1>3, <2>1 DEF Charged
  <2>4. Late(c, t, n)
    BY <1>9, <2>2, <2>3
  <2>5. a = from
    BY <2>1, <2>4 DEF Late
  <2>. QED
    BY <2>2, <2>4, <2>5 DEF Numbers, c
<1>12. Succeeds(e) => /\ Entries(k) = {<<from, SubBalanceKey>>, <<from, NonceKey>>}
                                         \cup (Touches(t) \X {BalanceKey})
                      /\ Effective(k, t)
  <2>. SUFFICES ASSUME Succeeds(e)
                PROVE  /\ Entries(k) = {<<from, SubBalanceKey>>, <<from, NonceKey>>}
                                         \cup (Touches(t) \X {BalanceKey})
                       /\ Effective(k, t)
    OBVIOUS
  <2>1. Whole(c, t, Cost + Value(t), n, View(t))
    BY <1>1, <1>2 DEF Writes, Repaid, c
  <2>2. \A a, l : <<a, l>> \in Entries(k) <=> <<a, l>> \in Entries(c)
    BY <1>4, <1>5, <1>6 DEF Succeeds
  <2>3. Entries(k) = Entries(c)
    <3>1. \A x \in Entries(c) : \E a, l : x = <<a, l>>
      BY DEF Entries
    <3>. QED
      BY <2>2, <3>1, EntriesAre
  <2>4. \A a, l, x : Holds(c, a, l, x) => Holds(k, a, l, x)
    BY <1>4, <2>2 DEF Holds
  <2>. QED
    BY <2>1, <2>3, <2>4 DEF Whole, Effective
<1>13. Numbers(t) => Entries(k) = {<<from, NonceKey>>} /\ Holds(k, from, NonceKey, n)
  <2>. SUFFICES ASSUME Numbers(t) PROVE Entries(k) = {<<from, NonceKey>>} /\ Holds(k, from, NonceKey, n)
    OBVIOUS
  <2>1. e.vmErr /\ Late(c, t, n)
    BY DEF Numbers, c
  <2>2. <<from, NonceKey>> \in Entries(c) /\ c[from][NonceKey] = n
        /\ \A a, l : <<a, l>> \in Entries(c) => a = from
    BY <2>1 DEF Late, Holds
  <2>3. KeepsNonce(t, from)
    BY <1>5, <1>6, <2>1, <2>2
  <2>4. \A a, l : <<a, l>> \in Entries(k) <=> <<a, l>> \in {<<from, NonceKey>>}
    BY <1>4, <2>2, <2>3
  <2>5. Entries(k) = {<<from, NonceKey>>}
    BY <2>4, EntriesAre
  <2>. QED
    BY <1>4, <2>2, <2>5 DEF Holds
<1>14. Owes(t) => Entries(k) = {<<from, SubBalanceKey>>} /\ Holds(k, from, SubBalanceKey, Cost)
  <2>. SUFFICES ASSUME Owes(t)
                PROVE  Entries(k) = {<<from, SubBalanceKey>>} /\ Holds(k, from, SubBalanceKey, Cost)
    OBVIOUS
  <2>1. Entries(c) = {<<from, SubBalanceKey>>} /\ c[from][SubBalanceKey] = Cost
    BY DEF Owes, Charged, Holds, c
  <2>2. \A a : a \in DOMAIN c => ~KeepsNonce(t, a)
    BY <1>3, <1>5, <2>1
  <2>3. \A a, l : <<a, l>> \in Entries(k) <=> <<a, l>> \in {<<from, SubBalanceKey>>}
    BY <1>4, <1>6, <2>1, <2>2
  <2>4. Entries(k) = {<<from, SubBalanceKey>>}
    BY <2>3, EntriesAre
  <2>. QED
    BY <1>4, <2>1, <2>4 DEF Holds
<1>15. e.err => Entries(k) = {}
  <2>. SUFFICES ASSUME e.err PROVE Entries(k) = {}
    OBVIOUS
  <2>1. \A a, l : <<a, l>> \in Entries(k) <=> <<a, l>> \in {}
    BY <1>4, <1>8
  <2>. QED
    BY <2>1, EntriesAre
<1>16. e.vmErr => ~e.err /\ (Numbers(t) \/ Owes(t)) /\ ~(Numbers(t) /\ Owes(t))
  BY <1>9, <1>10 DEF Numbers, Owes, c
<1>. QED
  BY <1>7, <1>11, <1>12, <1>13, <1>14, <1>15, <1>16 DEF Recorded, k

\* The cache w after the commit of t to the cache old.
Adds(t, old, w) ==
    /\ \A a, l, x : Holds(Kept(t), a, l, x) => Holds(w, a, l, x)
    /\ \A a, l, x : Holds(old, a, l, x) /\ <<a, l>> \notin Entries(Kept(t)) /\ ~Clears(t, a)
                        => Holds(w, a, l, x)
    /\ \A a, l : <<a, l>> \in Entries(w) => <<a, l>> \in Entries(Kept(t)) \/ <<a, l>> \in Entries(old)
    /\ \A a, l : <<a, l>> \in Entries(w) /\ <<a, l>> \notin Entries(Kept(t)) => w[a][l] = old[a][l]

\* What is merged, entry by entry.
LEMMA MergedEntries ==
    ASSUME NEW t, NEW acc, DOMAIN acc = {"written", "committed", "conflicts", "results"}
    PROVE  Adds(t, acc.written, Merged(acc, t).written)
<1>. DEFINE old == acc.written
            k == Kept(t)
            put == [b \in DOMAIN k |-> Entry(old, k, t, b)]
            w == Merge(old, put)
<1>1. Merged(acc, t).written = w
  BY DEF Merged, Entry
<1>2. \A a : Clears(t, a) <=> a \in DOMAIN k /\ KeepsNonce(t, a)
  BY DEF Clears
<1>. HIDE DEF old, k
<1>3. /\ DOMAIN w = DOMAIN old \cup DOMAIN k
      /\ \A a \in DOMAIN k : w[a] = Entry(old, k, t, a)
      /\ \A a \in DOMAIN old : a \notin DOMAIN k => w[a] = old[a]
  BY DEF Merge
<1>. HIDE DEF w
<1>4. ASSUME NEW a, NEW l
      PROVE  /\ <<a, l>> \in Entries(k) => <<a, l>> \in Entries(w) /\ w[a][l] = k[a][l]
             /\ <<a, l>> \in Entries(old) /\ <<a, l>> \notin Entries(k) /\ ~Clears(t, a)
                    => <<a, l>> \in Entries(w)
             /\ <<a, l>> \in Entries(w) /\ <<a, l>> \notin Entries(k)
                    => <<a, l>> \in Entries(old) /\ w[a][l] = old[a][l]
  <2>1. /\ <<a, l>> \in Entries(k) <=> a \in DOMAIN k /\ l \in DOMAIN k[a]
        /\ <<a, l>> \in Entries(old) <=> a \in DOMAIN old /\ l \in DOMAIN old[a]
        /\ <<a, l>> \in Entries(w) <=> a \in DOMAIN w /\ l \in DOMAIN w[a]
    BY EntryLemma
  <2>2. CASE a \notin DOMAIN k
    BY <1>3, <2>1, <2>2
  <2>3. CASE a \in DOMAIN k /\ a \in DOMAIN old /\ ~KeepsNonce(t, a)
    <3>1. w[a] = Merge(old[a], k[a])
      BY <1>3, <2>3 DEF Entry
    <3>2. /\ DOMAIN w[a] = DOMAIN old[a] \cup DOMAIN k[a]
          /\ \A x \in DOMAIN k[a] : w[a][x] = k[a][x]
          /\ \A x \in DOMAIN old[a] : x \notin DOMAIN k[a] => w[a][x] = old[a][x]
      BY <3>1 DEF Merge
    <3>. QED
      BY <1>3, <2>1, <2>3, <3>2
  <2>4. CASE a \in DOMAIN k /\ ~(a \in DOMAIN old /\ ~KeepsNonce(t, a))
    <3>1. w[a] = k[a]
      BY <1>3, <2>4 DEF Entry
    <3>. QED
      BY <1>2, <1>3, <2>1, <2>4, <3>1
  <2>. QED
    BY <2>2, <2>3, <2>4
<1>5. \A a, l, x : Holds(k, a, l, x) => Holds(w, a, l, x)
  BY <1>4 DEF Holds
<1>6. \A a, l, x : Holds(old, a, l, x) /\ <<a, l>> \notin Entries(k) /\ ~Clears(t, a) => Holds(w, a, l, x)
  BY <1>4 DEF Holds
<1>7. \A a, l : <<a, l>> \in Entries(w) => <<a, l>> \in Entries(k) \/ <<a, l>> \in Entries(old)
  BY <1>4
<1>8. \A a, l : <<a, l>> \in Entries(w) /\ <<a, l>> \notin Entries(k) => w[a][l] = old[a][l]
  BY <1>4
<1>9. Adds(t, old, w)
  BY <1>5, <1>6, <1>7, <1>8 DEF Adds, k
<1>. QED
  BY <1>1, <1>9 DEF old

\* What is known of the level when the first n records have been looked at: which
\* of its transactions are committed and which are in conflict, that the effects of
\* the committed are disjoint and whole, and whose every entry is.
LevelUpTo(n, acc) ==
    /\ DetectUpTo(n, acc)
    /\ Elements(acc.committed) \cup Elements(acc.conflicts) = FirstOf(n)
    /\ Elements(acc.committed) \cap Elements(acc.conflicts) = {} /\ Distinct(acc.conflicts)
    /\ \A t \in Elements(acc.committed) : Succeeds(exec[t]) => Effective(acc.written, t)
    /\ \A t, u \in Elements(acc.committed) :
           Succeeds(exec[t]) /\ Succeeds(exec[u]) /\ t # u => Touches(t) \cap Touches(u) = {}
    /\ \A t \in Elements(acc.committed) :
           Numbers(t) => Holds(acc.written, From(t), NonceKey, NextNonce(t))
    /\ \A a : <<a, BalanceKey>> \in Entries(acc.written) =>
           \E t \in Elements(acc.committed) : Succeeds(exec[t]) /\ a \in Touches(t)
    /\ \A a : <<a, SubBalanceKey>> \in Entries(acc.written) =>
           \E t \in Elements(acc.committed) :
               From(t) = a /\ (Succeeds(exec[t]) \/ (Owes(t) /\ acc.written[a][SubBalanceKey] = Cost))
    /\ \A a : <<a, NonceKey>> \in Entries(acc.written) =>
           /\ \E t \in Elements(acc.committed) : From(t) = a /\ (Succeeds(exec[t]) \/ Numbers(t))
           /\ acc.written[a][NonceKey] = db[a].nonce + 1
    /\ \A t \in Elements(acc.conflicts) : \E u \in Elements(acc.committed) :
           u # t /\ Names(t) \cap Names(u) # {}

AllRecorded == Distinct(order) /\ \A t \in Elements(order) : Recorded(t)

\* A conflict leaves what was committed: what it read is the balance of an account
\* that a transaction with an effect touched.
LEMMA ConflictLevel ==
    ASSUME Executions, AllFinished(order), AllRecorded, NEW n \in DOMAIN order, NEW acc,
           LevelUpTo(n - 1, acc), HasConflict(order[n], acc.written)
    PROVE  LevelUpTo(n, [acc EXCEPT !.conflicts = Append(acc.conflicts, order[n])])
<1>. DEFINE t == order[n]
            new == [acc EXCEPT !.conflicts = Append(acc.conflicts, t)]
<1>1. LevelUpTo(n - 1, acc)
  OBVIOUS
<1>2. DetectUpTo(n - 1, acc)
  BY DEF LevelUpTo
<1>3. DetectUpTo(n, new)
  BY <1>2, ConflictNoted
<1>4. /\ t \in Elements(order) /\ t \notin FirstOf(n - 1) /\ FirstOf(n) = FirstOf(n - 1) \cup {t}
  BY NextRecord DEF AllRecorded
<1>5. /\ new.written = acc.written /\ new.committed = acc.committed
      /\ new.conflicts = Append(acc.conflicts, t) /\ acc.conflicts \in Seq(Elements(order))
  BY <1>2 DEF DetectUpTo
<1>6. PICK e : e \in Entries(exec[t].rset.cache) /\ e \in Entries(acc.written)
  BY ConflictLemma
<1>. HIDE DEF new, t
<1>7. /\ Elements(acc.conflicts) \subseteq FirstOf(n - 1) /\ Distinct(acc.conflicts)
      /\ Elements(acc.committed) \subseteq FirstOf(n - 1)
  BY <1>1 DEF LevelUpTo
<1>8. Elements(new.conflicts) = Elements(acc.conflicts) \cup {t}
  BY <1>4, <1>5, AppendLemma
<1>9. Distinct(new.conflicts)
  BY <1>4, <1>5, <1>7, DistinctAppend
<1>10. \E u \in Elements(acc.committed) : u # t /\ Names(t) \cap Names(u) # {}
  <2>1. PICK a \in Names(t) : e = <<a, BalanceKey>>
    <3>1. Recorded(t)
      BY <1>4 DEF AllRecorded
    <3>2. Entries(exec[t].rset.cache) \subseteq Names(t) \X {BalanceKey}
      BY <3>1 DEF Recorded
    <3>. QED
      BY <1>6, <3>2
  <2>2. PICK u \in Elements(acc.committed) : a \in Touches(u)
    BY <1>1, <1>6, <2>1 DEF LevelUpTo
  <2>3. a \in Names(u)
    BY <2>2 DEF Touches, Names
  <2>. QED
    BY <1>4, <1>7, <2>1, <2>2, <2>3
<1>11. \A v \in Elements(new.conflicts) : \E u \in Elements(new.committed) : u # v /\ Names(v) \cap Names(u) # {}
  BY <1>1, <1>5, <1>8, <1>10 DEF LevelUpTo
<1>12. /\ Elements(new.committed) \cup Elements(new.conflicts) = FirstOf(n)
       /\ Elements(new.committed) \cap Elements(new.conflicts) = {}
  BY <1>1, <1>4, <1>5, <1>7, <1>8 DEF LevelUpTo
<1>13. LevelUpTo(n, new)
  BY <1>1, <1>3, <1>5, <1>9, <1>11, <1>12 DEF LevelUpTo
<1>. QED
  BY <1>13 DEF new, t

\* What a transaction that has read nothing of it leaves of the cache old: it
\* touches no account that has a balance there.
LEMMA Untouched ==
    ASSUME NEW t, Recorded(t), NEW old, ~HasConflict(t, old), NEW a, <<a, BalanceKey>> \in Entries(old)
    PROVE  /\ ~Clears(t, a) /\ \A l : <<a, l>> \notin Entries(Kept(t))
           /\ Succeeds(exec[t]) => a \notin Touches(t)
<1>1. <<a, BalanceKey>> \notin Entries(exec[t].rset.cache)
  BY ConflictLemma
<1>2. Succeeds(exec[t]) => /\ Touches(t) \X {BalanceKey} \subseteq Entries(exec[t].rset.cache)
                           /\ Entries(Kept(t)) = {<<From(t), SubBalanceKey>>, <<From(t), NonceKey>>}
                                                    \cup (Touches(t) \X {BalanceKey})
  BY DEF Recorded
<1>3. /\ ~exec[t].err => <<From(t), BalanceKey>> \in Entries(exec[t].rset.cache)
      /\ \A b : Clears(t, b) => b = From(t) /\ Numbers(t)
      /\ Numbers(t) => Entries(Kept(t)) = {<<From(t), NonceKey>>}
      /\ Owes(t) => Entries(Kept(t)) = {<<From(t), SubBalanceKey>>}
      /\ exec[t].err => Entries(Kept(t)) = {}
      /\ exec[t].vmErr => ~exec[t].err /\ (Numbers(t) \/ Owes(t))
  BY DEF Recorded
<1>4. Succeeds(exec[t]) => a \notin Touches(t)
  BY <1>1, <1>2
<1>5. ~exec[t].err => a # From(t)
  BY <1>1, <1>3
<1>6. ~Clears(t, a)
  BY <1>3, <1>5 DEF Numbers
<1>7. ASSUME NEW l PROVE <<a, l>> \notin Entries(Kept(t))
  <2>1. CASE exec[t].err
    BY <1>3, <2>1
  <2>2. CASE exec[t].vmErr
    BY <1>3, <1>5, <2>2
  <2>3. CASE Succeeds(exec[t])
    <3>1. a # From(t) /\ a \notin Touches(t)
      BY <1>4, <1>5, <2>3 DEF Succeeds
    <3>. QED
      BY <1>2, <2>3, <3>1
  <2>. QED
    BY <2>1, <2>2, <2>3 DEF Succeeds
<1>. QED
  BY <1>4, <1>6, <1>7

\* What each kind of transaction adds to a cache.
LEMMA RecordAdds ==
    ASSUME NEW t, Recorded(t), BalanceKey # SubBalanceKey, NonceKey \notin {BalanceKey, SubBalanceKey}, NEW a
    PROVE  /\ <<a, BalanceKey>> \in Entries(Kept(t)) => Succeeds(exec[t]) /\ a \in Touches(t)
           /\ <<a, SubBalanceKey>> \in Entries(Kept(t)) =>
                  a = From(t) /\ (Succeeds(exec[t]) \/ (Owes(t) /\ Holds(Kept(t), a, SubBalanceKey, Cost)))
           /\ <<a, NonceKey>> \in Entries(Kept(t)) =>
                  /\ a = From(t) /\ (Succeeds(exec[t]) \/ Numbers(t))
                  /\ Holds(Kept(t), a, NonceKey, db[a].nonce + 1)
<1>1. CASE exec[t].err
  BY <1>1 DEF Recorded
<1>2. CASE Numbers(t)
  BY <1>2 DEF Recorded, NextNonce
<1>3. CASE Owes(t)
  BY <1>3 DEF Recorded
<1>4. CASE Succeeds(exec[t])
  <2>1. /\ Entries(Kept(t)) = {<<From(t), SubBalanceKey>>, <<From(t), NonceKey>>}
                                 \cup (Touches(t) \X {BalanceKey})
        /\ Holds(Kept(t), From(t), NonceKey, NextNonce(t))
    BY <1>4 DEF Recorded, Effective
  <2>. QED
    BY <1>4, <2>1 DEF NextNonce
<1>. QED
  <2>1. exec[t].vmErr => Numbers(t) \/ Owes(t)
    BY DEF Recorded
  <2>. QED
    BY <1>1, <1>2, <1>3, <1>4, <2>1 DEF Succeeds

\* What does not conflict is committed, and the effects of those before it stay.
LEMMA CommitLevel ==
    ASSUME Executions, AllFinished(order), AllRecorded, NEW n \in DOMAIN order, NEW acc,
           LevelUpTo(n - 1, acc), ~HasConflict(order[n], acc.written)
    PROVE  LevelUpTo(n, Merged(acc, order[n]))
<1>. DEFINE t == order[n]
            new == Merged(acc, t)
            w == acc.written
            v == Merged(acc, t).written
<1>1. LevelUpTo(n - 1, acc)
  OBVIOUS
<1>2. DetectUpTo(n - 1, acc)
  BY DEF LevelUpTo
<1>3. DetectUpTo(n, new)
  BY <1>2, CommitNoted
<1>4. /\ t \in Elements(order) /\ t \notin FirstOf(n - 1) /\ FirstOf(n) = FirstOf(n - 1) \cup {t}
  BY NextRecord DEF AllRecorded
<1>5. /\ DOMAIN acc = {"written", "committed", "conflicts", "results"}
      /\ acc.committed \in Seq(Elements(order))
  BY <1>2 DEF DetectUpTo
<1>6. new.conflicts = acc.conflicts /\ new.committed = Append(acc.committed, t) /\ new.written = v
  BY <1>5 DEF Merged
<1>7. Adds(t, w, v)
  BY <1>5, MergedEntries
<1>8. Recorded(t)
  BY <1>4 DEF AllRecorded
<1>9. ~HasConflict(t, w)
  OBVIOUS
<1>. HIDE DEF new, v, w, t
<1>10. Elements(new.committed) = Elements(acc.committed) \cup {t}
  BY <1>4, <1>5, <1>6, AppendLemma
<1>11. ASSUME NEW a, <<a, BalanceKey>> \in Entries(w)
       PROVE  /\ \A l, x : Holds(w, a, l, x) => Holds(v, a, l, x)
              /\ Succeeds(exec[t]) => a \notin Touches(t)
  <2>1. /\ ~Clears(t, a) /\ \A l : <<a, l>> \notin Entries(Kept(t))
        /\ Succeeds(exec[t]) => a \notin Touches(t)
    BY <1>8, <1>9, <1>11, Untouched
  <2>. QED
    BY <1>7, <2>1 DEF Adds
<1>12. ASSUME NEW u \in Elements(acc.committed), Succeeds(exec[u])
       PROVE  /\ \A a \in Touches(u) : <<a, BalanceKey>> \in Entries(w)
              /\ Effective(v, u)
  <2>1. Effective(w, u)
    BY <1>1, <1>12 DEF LevelUpTo, w
  <2>2. \A a \in Touches(u) : <<a, BalanceKey>> \in Entries(w)
    BY <2>1 DEF Effective, Holds
  <2>3. From(u) \in Touches(u)
    BY DEF Touches
  <2>4. ASSUME NEW a \in Touches(u) PROVE \A l, x : Holds(w, a, l, x) => Holds(v, a, l, x)
    BY <1>11, <2>2
  <2>5. Effective(v, u)
    BY <2>1, <2>3, <2>4 DEF Effective
  <2>. QED
    BY <2>2, <2>5
<1>13. Succeeds(exec[t]) => Effective(v, t)
  BY <1>7, <1>8 DEF Recorded, Adds, Effective
<1>14. \A u \in Elements(new.committed) : Succeeds(exec[u]) => Effective(v, u)
  BY <1>10, <1>12, <1>13
<1>15. \A u \in Elements(acc.committed) :
           Succeeds(exec[u]) /\ Succeeds(exec[t]) => Touches(u) \cap Touches(t) = {}
  <2>. SUFFICES ASSUME NEW u \in Elements(acc.committed), Succeeds(exec[u]), Succeeds(exec[t]),
                       NEW a \in Touches(u), a \in Touches(t)
                PROVE  FALSE
    OBVIOUS
  <2>. QED
    BY <1>11, <1>12
<1>16. \A u, z \in Elements(new.committed) :
           Succeeds(exec[u]) /\ Succeeds(exec[z]) /\ u # z => Touches(u) \cap Touches(z) = {}
  <2>1. \A u, z \in Elements(acc.committed) :
            Succeeds(exec[u]) /\ Succeeds(exec[z]) /\ u # z => Touches(u) \cap Touches(z) = {}
    BY <1>1 DEF LevelUpTo
  <2>. QED
    BY <1>10, <1>15, <2>1
<1>17. \A a : /\ <<a, BalanceKey>> \in Entries(Kept(t)) => Succeeds(exec[t]) /\ a \in Touches(t)
              /\ <<a, SubBalanceKey>> \in Entries(Kept(t)) =>
                  a = From(t) /\ (Succeeds(exec[t]) \/ (Owes(t) /\ Holds(Kept(t), a, SubBalanceKey, Cost)))
              /\ <<a, NonceKey>> \in Entries(Kept(t)) =>
                  /\ a = From(t) /\ (Succeeds(exec[t]) \/ Numbers(t))
                  /\ Holds(Kept(t), a, NonceKey, db[a].nonce + 1)
  BY <1>8, RecordAdds, KeysAssumption
<1>18. \A u \in Elements(new.committed) : Numbers(u) => Holds(v, From(u), NonceKey, NextNonce(u))
  <2>1. ASSUME NEW u \in Elements(acc.committed), Numbers(u)
        PROVE  Holds(v, From(u), NonceKey, NextNonce(u))
    <3>1. Holds(w, From(u), NonceKey, NextNonce(u))
      BY <1>1, <2>1 DEF LevelUpTo, w
    <3>2. CASE <<From(u), NonceKey>> \in Entries(Kept(t))
      BY <1>7, <1>17, <3>2 DEF Adds, NextNonce
    <3>3. CASE <<From(u), NonceKey>> \notin Entries(Kept(t))
      <4>1. ~Clears(t, From(u))
        BY <1>8, <3>3 DEF Recorded
      <4>. QED
        BY <1>7, <3>1, <3>3, <4>1 DEF Adds
    <3>. QED
      BY <3>2, <3>3
  <2>2. Numbers(t) => Holds(v, From(t), NonceKey, NextNonce(t))
    BY <1>7, <1>8 DEF Recorded, Adds
  <2>. QED
    BY <1>10, <2>1, <2>2
<1>19. \A a : <<a, BalanceKey>> \in Entries(v) =>
           \E u \in Elements(new.committed) : Succeeds(exec[u]) /\ a \in Touches(u)
  <2>. SUFFICES ASSUME NEW a, <<a, BalanceKey>> \in Entries(v)
                PROVE  \E u \in Elements(new.committed) : Succeeds(exec[u]) /\ a \in Touches(u)
    OBVIOUS
  <2>1. CASE <<a, BalanceKey>> \in Entries(Kept(t))
    BY <1>10, <1>17, <2>1
  <2>2. CASE <<a, BalanceKey>> \notin Entries(Kept(t))
    <3>1. <<a, BalanceKey>> \in Entries(w)
      BY <1>7, <2>2 DEF Adds
    <3>. QED
      BY <1>1, <1>10, <3>1 DEF LevelUpTo, w
  <2>. QED
    BY <2>1, <2>2
<1>20. \A a : <<a, SubBalanceKey>> \in Entries(v) =>
           \E u \in Elements(new.committed) :
               From(u) = a /\ (Succeeds(exec[u]) \/ (Owes(u) /\ v[a][SubBalanceKey] = Cost))
  <2>. SUFFICES ASSUME NEW a, <<a, SubBalanceKey>> \in Entries(v)
                PROVE  \E u \in Elements(new.committed) :
                           From(u) = a /\ (Succeeds(exec[u]) \/ (Owes(u) /\ v[a][SubBalanceKey] = Cost))
    OBVIOUS
  <2>1. CASE <<a, SubBalanceKey>> \in Entries(Kept(t))
    <3>1. Holds(Kept(t), a, SubBalanceKey, Cost) => v[a][SubBalanceKey] = Cost
      BY <1>7 DEF Adds, Holds
    <3>. QED
      BY <1>10, <1>17, <2>1, <3>1
  <2>2. CASE <<a, SubBalanceKey>> \notin Entries(Kept(t))
    <3>1. <<a, SubBalanceKey>> \in Entries(w) /\ v[a][SubBalanceKey] = w[a][SubBalanceKey]
      BY <1>7, <2>2 DEF Adds
    <3>. QED
      BY <1>1, <1>10, <3>1 DEF LevelUpTo, w
  <2>. QED
    BY <2>1, <2>2
<1>21. \A a : <<a, NonceKey>> \in Entries(v) =>
           /\ \E u \in Elements(new.committed) : From(u) = a /\ (Succeeds(exec[u]) \/ Numbers(u))
           /\ v[a][NonceKey] = db[a].nonce + 1
  <2>. SUFFICES ASSUME NEW a, <<a, NonceKey>> \in Entries(v)
                PROVE  /\ \E u \in Elements(new.committed) : From(u) = a /\ (Succeeds(exec[u]) \/ Numbers(u))
                       /\ v[a][NonceKey] = db[a].nonce + 1
    OBVIOUS
  <2>1. CASE <<a, NonceKey>> \in Entries(Kept(t))
    <3>1. a = From(t) /\ (Succeeds(exec[t]) \/ Numbers(t)) /\ Holds(Kept(t), a, NonceKey, db[a].nonce + 1)
      BY <1>17, <2>1
    <3>2. Holds(v, a, NonceKey, db[a].nonce + 1)
      BY <1>7, <3>1 DEF Adds
    <3>. QED
      BY <1>10, <3>1, <3>2 DEF Holds
  <2>2. CASE <<a, NonceKey>> \notin Entries(Kept(t))
    <3>1. <<a, NonceKey>> \in Entries(w) /\ v[a][NonceKey] = w[a][NonceKey]
      BY <1>7, <2>2 DEF Adds
    <3>. QED
      BY <1>1, <1>10, <3>1 DEF LevelUpTo, w
  <2>. QED
    BY <2>1, <2>2
<1>22. /\ Elements(new.committed) \cup Elements(new.conflicts) = FirstOf(n)
       /\ Elements(new.committed) \cap Elements(new.conflicts) = {} /\ Distinct(new.conflicts)
  <2>1. /\ Elements(acc.committed) \cup Elements(acc.conflicts) = FirstOf(n - 1)
        /\ Elements(acc.committed) \cap Elements(acc.conflicts) = {} /\ Distinct(acc.conflicts)
    BY <1>1 DEF LevelUpTo
  <2>. QED
    BY <1>4, <1>6, <1>10, <2>1
<1>23. \A z \in Elements(new.conflicts) : \E u \in Elements(new.committed) :
           u # z /\ Names(z) \cap Names(u) # {}
  BY <1>1, <1>6, <1>10 DEF LevelUpTo
<1>24. LevelUpTo(n, new)
  BY <1>3, <1>6, <1>14, <1>16, <1>18, <1>19, <1>20, <1>21, <1>22, <1>23, Zenon DEF LevelUpTo
<1>. QED
  BY <1>24 DEF new, t

LevelFold == INSTANCE FoldTheorems WITH
    op <- Checking, base <- DetectStart, f <- ItemOf, choose <- Latest, Good <- LevelUpTo

\* What is known of a level when DetectConflicts has seen every record of it.
LEMMA LevelLemma ==
    ASSUME Executions, AllFinished(order), AllRecorded, results \in Seq(Txs \X BOOLEAN),
           \A i \in DOMAIN results : LET t == results[i][1] IN Finished(t) /\ ~exec[t].err
    PROVE  LevelUpTo(Len(order), DetectEnd)
<1>1. order \in Seq(Txs)
  BY DEF AllFinished
<1>2. Len(order) \in Nat /\ DOMAIN order = 1 .. Len(order)
  BY <1>1
<1>3. LevelUpTo(0, DetectStart)
  <2>1. DetectUpTo(0, DetectStart)
    BY DetectStarts
  <2>2. /\ DetectStart.written = NoEntries /\ DetectStart.committed = <<>>
        /\ DetectStart.conflicts = <<>>
    BY DEF DetectStart
  <2>3. /\ Entries(NoEntries) = {} /\ Elements(<<>>) = {} /\ Distinct(<<>>) /\ FirstOf(0) = {}
    BY DEF Entries, NoEntries, Elements, Distinct, FirstOf
  <2>. HIDE DEF DetectStart
  <2>. QED
    BY <2>1, <2>2, <2>3 DEF LevelUpTo
<1>4. ASSUME NEW n \in 1 .. Len(order), NEW acc, LevelUpTo(n - 1, acc)
      PROVE  LevelUpTo(n, Checking(ItemOf(order, n), acc))
  <2>1. CASE HasConflict(order[n], acc.written)
    <3>1. Checking(ItemOf(order, n), acc) = [acc EXCEPT !.conflicts = Append(acc.conflicts, order[n])]
      BY <2>1 DEF Checking, ItemOf, Checked
    <3>. QED
      BY <1>2, <1>4, <2>1, <3>1, ConflictLevel
  <2>2. CASE ~HasConflict(order[n], acc.written)
    <3>1. Checking(ItemOf(order, n), acc) = Merged(acc, order[n])
      BY <2>2 DEF Checking, ItemOf, Checked
    <3>. QED
      BY <1>2, <1>4, <2>2, <3>1, CommitLevel
  <2>. QED
    BY <2>1, <2>2
<1>5. LevelUpTo(Len(order), LevelFold!Fold(order, 1 .. Len(order)))
  <2>1. \A n \in 1 .. Len(order) : \A acc : LevelUpTo(n - 1, acc)
              => LevelUpTo(n, Checking(ItemOf(order, n), acc))
    BY <1>4
  <2>. QED
    BY <1>2, <1>3, <2>1, LatestLemma, LevelFold!FoldInduction, Zenon
<1>6. DetectEnd = LevelFold!Fold(order, 1 .. Len(order))
  BY <1>2 DEF DetectEnd, FoldLeft, LevelFold!Fold, MapThenFoldSet, LevelFold!MapThenFoldSet,
              Checking, ItemOf, Latest
<1>. QED
  BY <1>5, <1>6

\* What Detect makes of a level.
LEMMA DetectEnds ==
    ASSUME IInv, AInv, Detect
    PROVE  /\ LevelUpTo(Len(order), DetectEnd) /\ FirstOf(Len(order)) = Level(level) /\ AllRecorded
           /\ Elements(order) = Level(level) /\ Level(level) \subseteq Txs
           /\ phase = "detect" /\ phase' \in {"stuck", "redo"} /\ conflicts = <<>>
           /\ db' = Applied(db, DetectEnd.written) /\ conflicts' = DetectEnd.conflicts
           /\ UNCHANGED <<block, exec, plan, level>>
<1>1. Machine /\ Executions /\ Lists /\ Present
  BY Parts
<1>2. /\ phase = "detect" /\ phase' \in {"stuck", "redo"}
      /\ db' = Applied(db, DetectEnd.written) /\ conflicts' = DetectEnd.conflicts
      /\ UNCHANGED <<block, exec, plan, level>>
  BY DEF Detect, DetectEnd, DetectStart
<1>. HIDE DEF DetectEnd
<1>3. Elements(order) \subseteq Level(level) /\ Distinct(order) /\ conflicts = <<>>
  BY <1>2 DEF AInv, Queued
<1>4. Elements(order) = Level(level) /\ \A t \in Level(level) : Finished(t)
  BY <1>1, <1>2, <1>3 DEF Present, Joined
<1>5. Level(level) \subseteq Txs
  BY <1>2, AtWork
<1>6. \A t \in Level(level) : Recorded(t)
  <2>1. ASSUME NEW t \in Level(level) PROVE Recorded(t)
    <3>1. t \in Txs /\ Finished(t) /\ Stage(exec[t], t, NextNonce(t), View(t))
      BY <1>2, <1>4, <1>5 DEF AInv, Staged
    <3>. QED
      BY <1>1, <3>1, RecordLemma
  <2>. QED
    BY <2>1
<1>7. AllRecorded
  BY <1>3, <1>4, <1>6 DEF AllRecorded
<1>8. LevelUpTo(Len(order), DetectEnd)
  BY <1>1, <1>7, LevelLemma DEF Lists, Receipts
<1>9. FirstOf(Len(order)) = Level(level)
  <2>1. DOMAIN order = 1 .. Len(order)
    BY <1>1 DEF Lists, AllFinished
  <2>2. FirstOf(Len(order)) = Elements(order)
    BY <2>1 DEF FirstOf, Elements
  <2>. QED
    BY <1>4, <2>2
<1>. QED
  BY <1>2, <1>3, <1>4, <1>5, <1>7, <1>8, <1>9

\* DetectConflicts sorts a level.
LEMMA AtomicByDetect == ASSUME IInv, AInv, Detect PROVE AInv'
<1>1. /\ phase = "detect" /\ phase' \in {"stuck", "redo"}
      /\ conflicts' = DetectEnd.conflicts /\ Distinct(DetectEnd.conflicts)
      /\ UNCHANGED <<block, exec, plan, level>>
  BY DetectEnds DEF LevelUpTo
<1>. HIDE DEF DetectEnd
<1>2. /\ Txs' = Txs /\ \A l : Level(l)' = Level(l)
  BY <1>1, LevelsStay
<1>3. Unbegun'
  BY <1>1, <1>2 DEF AInv, Unbegun
<1>4. Queued'
  <2>1. Distinct(conflicts)' <=> Distinct(conflicts')
    BY DEF Distinct
  <2>. QED
    BY <1>1, <2>1 DEF Queued, Redoing
<1>. QED
  BY <1>1, <1>3, <1>4 DEF AInv, Staged, Copied, Stocked, Redone

\* A step that changes nothing.
LEMMA AtomicByStuttering == ASSUME AInv, UNCHANGED vars PROVE AInv'
<1>1. UNCHANGED <<block, phase, plan, level, db, cp, gpVar, pools, exec, arrived, order, conflicts, retried>>
  BY DEF vars, mainVars
<1>2. /\ Level(level)' = Level(level) /\ Txs' = Txs
      /\ \A a : Gifts(a)' = Gifts(a)
      /\ \A t : From(t)' = From(t) /\ NextNonce(t)' = NextNonce(t) /\ View(t)' = View(t)
      /\ \A e, t, n, V : Stage(e, t, n, V)' <=> Stage(e, t, n, V)
  BY <1>1, StageSame
<1>3. \A l : Level(l)' = Level(l)
  BY <1>1, LevelsStay
<1>4. Staged'
  BY <1>1, <1>2 DEF AInv, Staged
<1>5. Copied'
  BY <1>1, <1>2 DEF AInv, Copied
<1>6. Stocked'
  <2>1. Begun' = Begun /\ Paying' = Paying /\ Returning' = Returning
    BY <1>1, <1>2 DEF Begun, Paying, Returning
  <2>2. Lowest' = Lowest /\ Highest' = Highest
    BY <2>1 DEF Lowest, Highest
  <2>3. \A v : Bounded(v)' <=> Bounded(v)
    BY <2>2 DEF Bounded
  <2>. QED
    BY <1>1, <1>2, <2>1, <2>3 DEF AInv, Stocked
<1>7. Unbegun'
  BY <1>1, <1>2, <1>3 DEF AInv, Unbegun
<1>8. Queued'
  BY <1>1, <1>2 DEF AInv, Queued, Redoing, Elements, Distinct
<1>9. Redone'
  <2>1. \A t : Redoes(t)' <=> Redoes(t)
    <3>1. \A c, t, x : Charged(c, t, x)' <=> Charged(c, t, x)
      BY <1>1, <1>2 DEF Charged
    <3>2. \A t : To(t)' = To(t) /\ Value(t)' = Value(t) /\ Want(t)' = Want(t)
      BY <1>1 DEF To, Value, Want
    <3>3. \A c, t, x, n, V : Moved(c, t, x, n, V)' <=> Moved(c, t, x, n, V)
      BY <1>2, <3>2 DEF Moved
    <3>. QED
      BY <1>1, <1>2, <3>1, <3>2, <3>3 DEF Redoes
  <2>. QED
    BY <1>1, <2>1 DEF AInv, Redone
<1>. QED
  BY <1>4, <1>5, <1>6, <1>7, <1>8, <1>9 DEF AInv

\* The next state of the block and of its goroutines.
LEMMA AtomicNext ==
    ASSUME IInv, AInv, Left * Price > 0, Tip = 0, Supply, [Next]_vars
    PROVE  AInv'
BY AtomicByFill, AtomicByStartLevel, AtomicByGoroutine, AtomicByJoin, AtomicByDetect, AtomicByReBuyGas,
   AtomicByReCall, AtomicByReCommit, AtomicByNextLevel, AtomicByStuttering DEF Next, Main

-----------------------------------------------------------------------------
(* Each level takes effect in one step.                                    *)

\* What AtomicBlock calls the parts of a block.
LEMMA AtomicNames ==
    /\ Atomic!Txs = Txs
    /\ \A t : /\ Atomic!From(t) = From(t) /\ Atomic!To(t) = To(t) /\ Atomic!Value(t) = Value(t)
              /\ Atomic!Want(t) = Want(t) /\ Atomic!Names(t) = Names(t) /\ Atomic!Touched(t) = Touches(t)
    /\ \A a : Atomic!Funded(a, Level(level)) = Gifts(a)
    /\ \A t : Atomic!Starved(t, Level(level)) <=> Short(t, Value(t))
    /\ \A t : \A a \in Account : Atomic!Seen(t, a, Level(level)) = View(t)[a]
<1>1. /\ Atomic!Txs = Txs
      /\ \A t : Atomic!From(t) = From(t) /\ Atomic!To(t) = To(t) /\ Atomic!Value(t) = Value(t)
  BY DEF Atomic!Txs, Txs, Atomic!From, From, Atomic!To, To, Atomic!Value, Value
<1>2. \A t : Atomic!Want(t) = Want(t) /\ Atomic!Names(t) = Names(t) /\ Atomic!Touched(t) = Touches(t)
  BY <1>1 DEF Atomic!Want, Want, Atomic!Names, Names, Atomic!Touched, Touches
<1>3. \A a : Atomic!Funded(a, Level(level)) = Gifts(a)
  BY <1>1, <1>2 DEF Atomic!Funded, Gifts
<1>4. \A t : Atomic!Starved(t, Level(level)) <=> Short(t, Value(t))
  BY <1>1, <1>2 DEF Atomic!Starved, Short
<1>5. \A t : \A a \in Account : Atomic!Seen(t, a, Level(level)) = View(t)[a]
  BY <1>1, <1>3 DEF Atomic!Seen, View
<1>. QED
  BY <1>1, <1>2, <1>3, <1>4, <1>5

\* The change of a balance: what is credited less what is charged.
LEMMA DeltaIs ==
    ASSUME Machine, NEW t \in Txs, NEW a
    PROVE  /\ Atomic!Delta(t, a) \in Int /\ Gain(t, a) \in Int
           /\ Atomic!Delta(t, a) = Gain(t, a) - (IF a = From(t) THEN Cost + Value(t) ELSE 0)
<1>1. /\ Left \in Nat /\ TxGas \in Nat /\ Price \in Nat /\ Value(t) \in Nat
      /\ Left * Price \in Nat /\ Cost \in Nat
  BY Constants, Amounts, TxFacts DEF Cost
<1>2. (Left - TxGas) * Price = Left * Price - Cost
  <2>1. ASSUME NEW x \in Nat, NEW y \in Nat, NEW z \in Nat PROVE (x - y) * z = x * z - y * z
    BY <2>1
  <2>. QED
    BY <1>1, <2>1 DEF Cost
<1>3. Atomic!Delta(t, a) = (IF a = From(t) THEN (Left - TxGas) * Price - Value(t) ELSE 0)
                           + (IF a = To(t) THEN Value(t) ELSE 0)
  BY AtomicNames DEF Atomic!Delta, Atomic!Left, Left
<1>. DEFINE r == Left * Price
            v == Value(t)
            m == (Left - TxGas) * Price
<1>4. m = r - Cost /\ r \in Nat /\ v \in Nat /\ Cost \in Nat
  BY <1>1, <1>2
<1>5. /\ Gain(t, a) = (IF a = From(t) THEN r ELSE 0) + (IF a = To(t) THEN v ELSE 0)
      /\ Atomic!Delta(t, a) = (IF a = From(t) THEN m - v ELSE 0) + (IF a = To(t) THEN v ELSE 0)
  BY <1>3 DEF Gain
<1>. HIDE DEF r, v, m
<1>. QED
  BY <1>4, <1>5 DEF v

\* The balances after a commit.
LEMMA AppliedBalances ==
    ASSUME NEW state \in Objects, NEW w, NEW a \in Account
    PROVE  Applied(state, w)[a].bal =
               (IF <<a, BalanceKey>> \in Entries(w) THEN w[a][BalanceKey] ELSE state[a].bal)
               - (IF <<a, SubBalanceKey>> \in Entries(w) THEN w[a][SubBalanceKey] ELSE 0)
<1>1. Applied(state, w)[a] = AccountAfter(state, w, a)
  BY DEF Applied, AccountAfter
<1>2. \A k : <<a, k>> \in Entries(w) <=> a \in DOMAIN w /\ k \in DOMAIN w[a]
  BY EntryLemma
<1>3. CASE a \notin DOMAIN w
  <2>1. AccountAfter(state, w, a).bal = state[a].bal
    BY <1>3 DEF AccountAfter
  <2>2. <<a, BalanceKey>> \notin Entries(w) /\ <<a, SubBalanceKey>> \notin Entries(w)
    BY <1>2, <1>3
  <2>3. state[a].bal \in Int
    BY DEF Objects
  <2>. QED
    BY <1>1, <2>1, <2>2, <2>3
<1>4. CASE a \in DOMAIN w
  <2>. DEFINE m == w[a]
              b == IF BalanceKey \in DOMAIN m THEN m[BalanceKey] ELSE state[a].bal
              s == IF SubBalanceKey \in DOMAIN m THEN m[SubBalanceKey] ELSE 0
  <2>1. AccountAfter(state, w, a).bal = b - s
    BY <1>4 DEF AccountAfter
  <2>2. /\ <<a, BalanceKey>> \in Entries(w) <=> BalanceKey \in DOMAIN m
        /\ <<a, SubBalanceKey>> \in Entries(w) <=> SubBalanceKey \in DOMAIN m
    BY <1>2, <1>4
  <2>. QED
    BY <1>1, <2>1, <2>2
<1>. QED
  BY <1>3, <1>4

\* Of the transactions committed in place: those that take effect, those that only
\* count their nonce, and those whose debit is all that is left of them.
Takers(acc) == {t \in Elements(acc.committed) : Succeeds(exec[t])}
Counters(acc) == {t \in Elements(acc.committed) : Numbers(t)}
Debtors(acc) == {t \in Elements(acc.committed) :
                    /\ Owes(t) /\ <<From(t), SubBalanceKey>> \in Entries(acc.written)
                    /\ \A u \in Takers(acc) : From(u) # From(t)}
Owing(acc, a) == IF \E t \in Debtors(acc) : From(t) = a THEN Cost ELSE 0

\* An account that none of them sends from pays the debit of a debtor.
LEMMA DebitIs ==
    ASSUME NEW n, NEW acc, LevelUpTo(n, acc), NEW a, \A t \in Takers(acc) : From(t) # a
    PROVE  (IF <<a, SubBalanceKey>> \in Entries(acc.written) THEN acc.written[a][SubBalanceKey] ELSE 0)
              = Owing(acc, a)
<1>1. CASE <<a, SubBalanceKey>> \in Entries(acc.written)
  <2>1. PICK t \in Elements(acc.committed) :
            From(t) = a /\ (Succeeds(exec[t]) \/ (Owes(t) /\ acc.written[a][SubBalanceKey] = Cost))
    BY <1>1 DEF LevelUpTo
  <2>2. Owes(t) /\ acc.written[a][SubBalanceKey] = Cost
    BY <2>1 DEF Takers
  <2>3. t \in Debtors(acc)
    BY <1>1, <2>1, <2>2 DEF Debtors
  <2>. QED
    BY <1>1, <2>1, <2>2, <2>3 DEF Owing
<1>2. CASE <<a, SubBalanceKey>> \notin Entries(acc.written)
  BY <1>2 DEF Owing, Debtors
<1>. QED
  BY <1>1, <1>2

\* What a level leaves of an account.
LEMMA AccountSettles ==
    ASSUME Machine, NEW n, NEW acc, LevelUpTo(n, acc), Elements(acc.committed) \subseteq Txs,
           \A t \in Txs : \A b \in Account : \A x \in View(t)[b] : x \in Int,
           NEW a \in Account
    PROVE  LET new == Applied(db, acc.written)[a]
           IN  /\ \A t \in Takers(acc) : a \in Touches(t) =>
                      \E x \in View(t)[a] : new.bal = x + Atomic!Delta(t, a) - Owing(acc, a)
               /\ (\A t \in Takers(acc) : a \notin Touches(t)) => new.bal = db[a].bal - Owing(acc, a)
               /\ new.nonce = db[a].nonce
                              + (IF \E t \in Takers(acc) \cup Counters(acc) : From(t) = a THEN 1 ELSE 0)
<1>. DEFINE w == acc.written
            new == Applied(db, w)[a]
            sub == IF <<a, SubBalanceKey>> \in Entries(w) THEN w[a][SubBalanceKey] ELSE 0
<1>1. /\ db \in Objects /\ db[a].bal \in Int /\ db[a].nonce \in Nat /\ Cost \in Nat
      /\ Owing(acc, a) \in Int
  BY Constants, Amounts DEF Machine, Objects, Cost, Owing
<1>2. /\ new.bal = (IF <<a, BalanceKey>> \in Entries(w) THEN w[a][BalanceKey] ELSE db[a].bal) - sub
      /\ new.nonce = IF HasNonce(w, a) THEN w[a][NonceKey] ELSE db[a].nonce
  BY <1>1, AppliedBalances, AppliedNonces
<1>3. /\ \A t \in Takers(acc) : t \in Txs /\ Effective(w, t)
      /\ \A t, u \in Takers(acc) : t # u => Touches(t) \cap Touches(u) = {}
      /\ \A b : <<b, BalanceKey>> \in Entries(w) => \E t \in Takers(acc) : b \in Touches(t)
  BY DEF LevelUpTo, Takers
<1>4. (\A t \in Takers(acc) : From(t) # a) => sub = Owing(acc, a)
  BY DebitIs
<1>5. \A t : From(t) \in Touches(t)
  BY DEF Touches
<1>. HIDE DEF sub, new
<1>6. ASSUME NEW t \in Takers(acc), a \in Touches(t)
      PROVE  \E x \in View(t)[a] : new.bal = x + Atomic!Delta(t, a) - Owing(acc, a)
  <2>1. t \in Txs /\ Effective(w, t)
    BY <1>3
  <2>2. PICK x \in View(t)[a] : Holds(w, a, BalanceKey, x + Gain(t, a))
    BY <1>6, <2>1 DEF Effective
  <2>3. /\ x \in Int /\ Gain(t, a) \in Int /\ Value(t) \in Nat
        /\ Atomic!Delta(t, a) = Gain(t, a) - (IF a = From(t) THEN Cost + Value(t) ELSE 0)
    BY <2>1, TxFacts, DeltaIs
  <2>5. sub = Owing(acc, a) + (IF a = From(t) THEN Cost + Value(t) ELSE 0)
    <3>1. CASE a = From(t)
      <4>1. sub = Cost + Value(t)
        BY <2>1, <3>1 DEF Effective, Holds, sub
      <4>2. Owing(acc, a) = 0
        BY <3>1 DEF Owing, Debtors
      <4>. QED
        BY <1>1, <2>3, <3>1, <4>1, <4>2
    <3>2. CASE a # From(t)
      <4>1. \A u \in Takers(acc) : From(u) # a
        BY <1>3, <1>5, <1>6, <3>2
      <4>. QED
        BY <1>1, <1>4, <3>2, <4>1
    <3>. QED
      BY <3>1, <3>2
  <2>. DEFINE d == IF a = From(t) THEN Cost + Value(t) ELSE 0
  <2>6. d \in Int
    BY <1>1, <2>3
  <2>7. Atomic!Delta(t, a) = Gain(t, a) - d /\ sub = Owing(acc, a) + d
    BY <2>3, <2>5
  <2>8. new.bal = x + Atomic!Delta(t, a) - Owing(acc, a)
    <3>. DEFINE v == w[a][BalanceKey]
    <3>1. <<a, BalanceKey>> \in Entries(w) /\ v = x + Gain(t, a)
      BY <2>2 DEF Holds
    <3>2. new.bal = v - sub
      BY <1>2, <3>1
    <3>. HIDE DEF d, v
    <3>. QED
      BY <1>1, <2>3, <2>6, <2>7, <3>1, <3>2
  <2>. QED
    BY <2>8
<1>7. ASSUME \A t \in Takers(acc) : a \notin Touches(t)
      PROVE  new.bal = db[a].bal - Owing(acc, a)
  BY <1>2, <1>3, <1>4, <1>5, <1>7
<1>8. new.nonce = db[a].nonce + (IF \E t \in Takers(acc) \cup Counters(acc) : From(t) = a THEN 1 ELSE 0)
  <2>1. HasNonce(w, a) => /\ \E t \in Takers(acc) \cup Counters(acc) : From(t) = a
                          /\ w[a][NonceKey] = db[a].nonce + 1
    BY DEF LevelUpTo, HasNonce, Takers, Counters
  <2>2. ASSUME NEW t \in Takers(acc) \cup Counters(acc), From(t) = a PROVE HasNonce(w, a)
    BY <2>2 DEF LevelUpTo, HasNonce, Takers, Counters, Effective, Holds
  <2>3. CASE HasNonce(w, a)
    BY <1>2, <2>1, <2>3
  <2>4. CASE ~HasNonce(w, a)
    BY <1>1, <1>2, <2>2, <2>4
  <2>. QED
    BY <2>3, <2>4
<1>. QED
  BY <1>6, <1>7, <1>8 DEF new

\* The transactions of the levels before the loop variable, and those of the level.
LEMMA BehindLemma ==
    ASSUME IInv, phase # "fill"
    PROVE  /\ \A t : t \in Behind <=> t \in Txs /\ \E l \in 0 .. level - 1 : t \in Level(l)
           /\ \A t \in Txs : \E l \in 0 .. plan.maxLevel : t \in Level(l)
           /\ \A l, m \in 0 .. plan.maxLevel : \A t \in Level(l) : t \in Level(m) => l = m
           /\ \A l, m \in 0 .. plan.maxLevel : l < m => \A t \in Level(l), u \in Level(m) : t < u
<1>1. /\ block \in Blocks /\ PlanUpTo(Len(block), plan) /\ plan.maxLevel \in Nat
      /\ level \in Nat /\ level <= plan.maxLevel + 1
  BY Parts DEF Planned
<1>2. ASSUME NEW t PROVE t \in Behind <=> t \in Txs /\ \E l \in 0 .. level - 1 : t \in Level(l)
  <2>1. ASSUME t \in Behind PROVE t \in Txs /\ \E l \in 0 .. level - 1 : t \in Level(l)
    <3>1. PICK l \in 1 .. level : \E i \in DOMAIN plan.items[l] : plan.items[l][i] = t
      BY <2>1 DEF Behind
    <3>2. l - 1 \in 0 .. level - 1 /\ (l - 1) + 1 = l
      BY <1>1, <3>1
    <3>3. t \in Level(l - 1)
      BY <3>1, <3>2 DEF Level, Elements
    <3>. QED
      BY <2>1, <3>2, <3>3 DEF Behind
  <2>2. ASSUME t \in Txs, NEW l \in 0 .. level - 1, t \in Level(l) PROVE t \in Behind
    <3>1. l + 1 \in 1 .. level
      BY <1>1, <2>2
    <3>2. \E i \in DOMAIN plan.items[l + 1] : plan.items[l + 1][i] = t
      BY <2>2 DEF Level, Elements
    <3>. QED
      BY <2>2, <3>1, <3>2 DEF Behind
  <2>. QED
    BY <2>1, <2>2
<1>3. /\ \A t \in Txs : \E l \in 0 .. plan.maxLevel : t \in Level(l)
      /\ \A l, m \in 0 .. plan.maxLevel : \A t \in Level(l) : t \in Level(m) => l = m
      /\ \A l, m \in 0 .. plan.maxLevel : l < m => \A t \in Level(l), u \in Level(m) : t < u
  BY <1>1, LevelFacts DEF Level
<1>. QED
  BY <1>2, <1>3

\* The level at work has not been executed, and what is left comes after it.
LEMMA LeftLemma ==
    ASSUME IInv, phase \notin {"fill", "level", "done"}
    PROVE  /\ Level(level) \subseteq Txs \ Behind
           /\ \A t \in Level(level), u \in (Txs \ Behind) \ Level(level) : t < u
<1>1. /\ phase # "fill" /\ level \in 0 .. plan.maxLevel /\ Level(level) \subseteq Txs
      /\ level \in Nat /\ plan.maxLevel \in Nat /\ Txs \subseteq Nat
  <2>1. level \in 0 .. plan.maxLevel /\ Level(level) \subseteq Txs
    BY AtWork
  <2>2. level \in Nat /\ plan.maxLevel \in Nat /\ block \in Blocks
    BY Parts
  <2>. QED
    BY <2>1, <2>2, BlockTypes
<1>2. \A l \in 0 .. level - 1 : l \in 0 .. plan.maxLevel /\ l # level
  BY <1>1
<1>3. Level(level) \subseteq Txs \ Behind
  BY <1>1, <1>2, BehindLemma
<1>4. ASSUME NEW t \in Level(level), NEW u \in (Txs \ Behind) \ Level(level) PROVE t < u
  <2>1. PICK l \in 0 .. plan.maxLevel : u \in Level(l)
    BY <1>1, <1>4, BehindLemma
  <2>2. l # level
    BY <1>4, <2>1
  <2>3. l \notin 0 .. level - 1
    BY <1>1, <1>4, <2>1, BehindLemma
  <2>4. level < l
    BY <1>1, <2>2, <2>3
  <2>. QED
    BY <1>1, <2>1, <2>4, BehindLemma
<1>. QED
  BY <1>3, <1>4

\* The state of AtomicBlock that a state of ExecBench stands for.
Todo == IF phase = "fill" THEN Txs ELSE (Txs \ Behind) \ (IF Detected THEN Current ELSE {})
Redo == {conflicts[i] : i \in DOMAIN conflicts}
Busy == IF Funded THEN Head(conflicts) ELSE 0

\* What AtomicBlock says of a state, in the names of ExecBench.
LEMMA AtomicParts ==
    /\ Atomic!Level <=>
          /\ Redo = {} /\ Busy = 0
          /\ \E L \in SUBSET Todo :
                 /\ L # {} /\ Todo' = Todo \ L
                 /\ \A t \in L, u \in Todo \ L : u < t => Names(t) \cap Names(u) = {}
                 /\ \E R \in SUBSET L :
                        /\ Redo' = R
                        /\ \E S, N, P \in SUBSET (L \ R) :
                               /\ S \cap N = {} /\ S \cap P = {} /\ N \cap P = {}
                               /\ \A t \in L : Atomic!Alone(t, L) => t \in S
                               /\ \A t \in N \cup P : Atomic!Starved(t, L)
                               /\ Atomic!Disjoint(S)
                               /\ Atomic!Settled(L, S, N, P)
          /\ UNCHANGED block /\ Busy' = Busy
    /\ Atomic!Fund <=>
          /\ Busy = 0
          /\ \E t \in Redo : Busy' = t /\ db' = [db EXCEPT ![From(t)].bal = 2 * Want(t)]
          /\ UNCHANGED block /\ Todo' = Todo /\ Redo' = Redo
    /\ UNCHANGED Atomic!atomicVars <=>
          UNCHANGED <<block, db>> /\ Todo' = Todo /\ Redo' = Redo /\ Busy' = Busy
<1>1. \A t : Atomic!Names(t) = Names(t) /\ Atomic!From(t) = From(t) /\ Atomic!Want(t) = Want(t)
  BY AtomicNames
<1>2. Atomic!Level <=>
          /\ Redo = {} /\ Busy = 0
          /\ \E L \in SUBSET Todo :
                 /\ L # {} /\ Todo' = Todo \ L
                 /\ \A t \in L, u \in Todo \ L : u < t => Atomic!Names(t) \cap Atomic!Names(u) = {}
                 /\ \E R \in SUBSET L :
                        /\ Redo' = R
                        /\ \E S, N, P \in SUBSET (L \ R) :
                               /\ S \cap N = {} /\ S \cap P = {} /\ N \cap P = {}
                               /\ \A t \in L : Atomic!Alone(t, L) => t \in S
                               /\ \A t \in N \cup P : Atomic!Starved(t, L)
                               /\ Atomic!Disjoint(S)
                               /\ Atomic!Settled(L, S, N, P)
          /\ UNCHANGED block /\ Busy' = Busy
  BY Zenon DEF Atomic!Level, Todo, Redo, Busy
<1>3. Atomic!Fund <=>
          /\ Busy = 0
          /\ \E t \in Redo : Busy' = t /\ db' = [db EXCEPT ![Atomic!From(t)].bal = 2 * Atomic!Want(t)]
          /\ UNCHANGED block /\ Todo' = Todo /\ Redo' = Redo
  BY Zenon DEF Atomic!Fund, Todo, Redo, Busy
<1>4. UNCHANGED Atomic!atomicVars <=>
          UNCHANGED <<block, db>> /\ Todo' = Todo /\ Redo' = Redo /\ Busy' = Busy
  BY Zenon DEF Atomic!atomicVars, Todo, Redo, Busy
<1>. QED
  BY <1>1, <1>2, <1>3, <1>4, Zenon

\* What a goroutine may be shown of a balance is a number.
LEMMA ViewTypes ==
    ASSUME Machine, Level(level) \subseteq Txs
    PROVE  \A t \in Txs : \A a \in Account : \A x \in View(t)[a] : x \in Int
<1>. SUFFICES ASSUME NEW t \in Txs, NEW a \in Account, NEW x \in View(t)[a] PROVE x \in Int
  OBVIOUS
<1>1. db[a].bal \in Int /\ \A u \in Txs : Want(u) \in Nat
  BY BlockTypes DEF Machine, Objects
<1>2. \A y \in Gifts(a) : y \in Int
  BY <1>1 DEF Gifts
<1>3. x \in {db[a].bal} \cup Gifts(a)
  BY DEF View
<1>. QED
  BY <1>1, <1>2, <1>3

\* The commit of a level leaves what AtomicBlock says.
LEMMA LevelSettles ==
    ASSUME Machine, NEW n, NEW acc, LevelUpTo(n, acc), Level(level) \subseteq Txs,
           Elements(acc.committed) \subseteq Level(level), db' = Applied(db, acc.written)
    PROVE  Atomic!Settled(Level(level), Takers(acc), Counters(acc), Debtors(acc))
<1>. DEFINE L == Level(level)
            S == Takers(acc)
            N == Counters(acc)
            P == Debtors(acc)
<1>1. \A a : Atomic!Owed(a, P) = Owing(acc, a)
  BY AtomicNames DEF Atomic!Owed, Owing, Cost
<1>2. \A t \in Txs : \A a \in Account : \A x \in View(t)[a] : x \in Int
  BY ViewTypes
<1>3. S \subseteq Txs
  BY DEF Takers
<1>4. ASSUME NEW a \in Account
      PROVE  /\ \A t \in S : a \in Touches(t) =>
                    \E x \in View(t)[a] : db'[a].bal = x + Atomic!Delta(t, a) - Owing(acc, a)
             /\ (\A t \in S : a \notin Touches(t)) => db'[a].bal = db[a].bal - Owing(acc, a)
             /\ db'[a].nonce = db[a].nonce + (IF \E t \in S \cup N : From(t) = a THEN 1 ELSE 0)
  <2>1. LET new == Applied(db, acc.written)[a]
        IN  /\ \A t \in S : a \in Touches(t) =>
                   \E x \in View(t)[a] : new.bal = x + Atomic!Delta(t, a) - Owing(acc, a)
            /\ (\A t \in S : a \notin Touches(t)) => new.bal = db[a].bal - Owing(acc, a)
            /\ new.nonce = db[a].nonce + (IF \E t \in S \cup N : From(t) = a THEN 1 ELSE 0)
    BY <1>2, AccountSettles
  <2>. QED
    BY <2>1, Zenon
<1>5. ASSUME NEW a \in Account
      PROVE  /\ IF \E t \in S : a \in Touches(t)
                THEN \E t \in S :
                         /\ a \in Touches(t)
                         /\ db'[a].bal \in {x + Atomic!Delta(t, a) - Owing(acc, a) : x \in View(t)[a]}
                ELSE db'[a].bal = db[a].bal - Owing(acc, a)
             /\ db'[a].nonce = db[a].nonce + (IF \E t \in S \cup N : From(t) = a THEN 1 ELSE 0)
  <2>. HIDE DEF S, N, P
  <2>1. ASSUME NEW t \in S, a \in Touches(t)
        PROVE  db'[a].bal \in {x + Atomic!Delta(t, a) - Owing(acc, a) : x \in View(t)[a]}
    <3>1. PICK x \in View(t)[a] : db'[a].bal = x + Atomic!Delta(t, a) - Owing(acc, a)
      BY <1>4, <2>1, Zenon
    <3>. QED
      BY <3>1, Zenon
  <2>2. CASE \E t \in S : a \in Touches(t)
    BY <1>4, <2>1, <2>2, Zenon
  <2>3. CASE ~\E t \in S : a \in Touches(t)
    BY <1>4, <2>3, Zenon
  <2>. QED
    BY <2>2, <2>3, Zenon
<1>. HIDE DEF L, S, N, P
<1>6. \A t : \A a \in Account : Atomic!Seen(t, a, L) = View(t)[a]
  BY AtomicNames DEF L
<1>7. \A t : Atomic!Touched(t) = Touches(t) /\ Atomic!From(t) = From(t)
  BY AtomicNames
<1>8. Atomic!Settled(L, S, N, P)
  <2>1. ASSUME NEW a \in Account
        PROVE  /\ IF \E t \in S : a \in Atomic!Touched(t)
                  THEN \E t \in S :
                           /\ a \in Atomic!Touched(t)
                           /\ db'[a].bal \in {x + Atomic!Delta(t, a) - Atomic!Owed(a, P) : x \in Atomic!Seen(t, a, L)}
                  ELSE db'[a].bal = db[a].bal - Atomic!Owed(a, P)
               /\ db'[a].nonce = db[a].nonce + (IF \E t \in S \cup N : Atomic!From(t) = a THEN 1 ELSE 0)
    <3>1. Atomic!Owed(a, P) = Owing(acc, a) /\ \A t : Atomic!Seen(t, a, L) = View(t)[a]
      BY <1>1, <1>6, <2>1
    <3>. QED
      BY <1>5, <1>7, <2>1, <3>1
  <2>. QED
    BY <2>1, Zenon DEF Atomic!Settled
<1>. QED
  BY <1>8 DEF L, S, N, P

\* Who takes effect, who only counts a nonce, who only pays, who is in conflict.
LEMMA LevelSorts ==
    ASSUME IInv, AInv, Detect
    PROVE  LET C == Elements(DetectEnd.committed)
               R == Elements(DetectEnd.conflicts)
               S == Takers(DetectEnd)
               N == Counters(DetectEnd)
               P == Debtors(DetectEnd)
           IN  /\ C \subseteq Level(level) /\ R \subseteq Level(level)
               /\ S \subseteq Level(level) \ R /\ N \subseteq Level(level) \ R /\ P \subseteq Level(level) \ R
               /\ S \cap N = {} /\ S \cap P = {} /\ N \cap P = {}
               /\ \A t \in Level(level) : Atomic!Alone(t, Level(level)) => t \in S
               /\ \A t \in N \cup P : Atomic!Starved(t, Level(level))
               /\ Atomic!Disjoint(S)
<1>. DEFINE C == Elements(DetectEnd.committed)
            R == Elements(DetectEnd.conflicts)
            S == Takers(DetectEnd)
            N == Counters(DetectEnd)
            P == Debtors(DetectEnd)
            L == Level(level)
<1>1. LevelUpTo(Len(order), DetectEnd) /\ FirstOf(Len(order)) = L /\ AllRecorded /\ Elements(order) = L
      /\ L \subseteq Txs /\ phase = "detect"
  BY DetectEnds
<1>2. /\ C \cup R = L /\ C \cap R = {}
      /\ \A t \in C, u \in C : Succeeds(exec[t]) /\ Succeeds(exec[u]) /\ t # u
                                  => Touches(t) \cap Touches(u) = {}
      /\ \A t \in R : \E u \in C : u # t /\ Names(t) \cap Names(u) # {}
  <2>. HIDE DEF DetectEnd
  <2>. QED
    BY <1>1 DEF LevelUpTo
<1>. HIDE DEF DetectEnd
<1>3. S \subseteq C /\ N \subseteq C /\ P \subseteq C
  BY DEF Takers, Counters, Debtors
<1>4. \A t \in L : Recorded(t) /\ Stage(exec[t], t, NextNonce(t), View(t))
  BY <1>1 DEF AllRecorded, AInv, Staged
<1>5. S \cap N = {} /\ S \cap P = {}
  BY DEF Takers, Counters, Debtors, Succeeds, Numbers, Owes
<1>6. N \cap P = {}
  <2>1. ASSUME NEW t \in N \cap P PROVE FALSE
    <3>1. Numbers(t) /\ Owes(t) /\ t \in L
      BY <1>2, <1>3, <2>1 DEF Counters, Debtors
    <3>. QED
      BY <1>4, <3>1 DEF Recorded, Numbers
  <2>. QED
    BY <2>1
<1>7. \A t \in L : Want(t) \in Nat /\ Value(t) \in Nat /\ From(t) \in Names(t)
      /\ 2 * Want(t) >= Want(t) /\ 2 * Want(t) >= Value(t)
  <2>. SUFFICES ASSUME NEW t \in L
                PROVE  Want(t) \in Nat /\ Value(t) \in Nat /\ From(t) \in Names(t)
                       /\ 2 * Want(t) >= Want(t) /\ 2 * Want(t) >= Value(t)
    OBVIOUS
  <2>1. t \in Txs /\ Machine
    BY <1>1, Parts
  <2>2. Value(t) \in Nat /\ Cost \in Nat /\ Want(t) = Cost + Value(t)
    BY <2>1, TxFacts DEF Want, Cost
  <2>. QED
    BY <2>2 DEF Names
<1>8. ASSUME NEW t \in L, Atomic!Alone(t, L) PROVE t \in S
  <2>1. \A u \in L : u # t => Names(t) \cap Names(u) = {}
    BY <1>8, AtomicNames, Zenon DEF Atomic!Alone
  <2>2. t \in C
    BY <1>2, <1>8, <2>1
  <2>3. \A u \in L : From(u) = From(t) => u = t
    BY <1>7, <2>1
  <2>4. ~Short(t, Value(t)) /\ ~Short(t, Want(t))
    BY <1>7, <2>3 DEF Short
  <2>5. ~exec[t].err /\ ~exec[t].vmErr
    BY <1>4, <2>4 DEF Stage, Fails
  <2>. QED
    BY <2>2, <2>5 DEF Takers, Succeeds
<1>9. ASSUME NEW t \in N \cup P PROVE Atomic!Starved(t, L)
  <2>1. exec[t].vmErr /\ t \in L
    BY <1>2, <1>3, <1>9 DEF Counters, Debtors, Numbers, Owes
  <2>2. Short(t, Value(t))
    BY <1>4, <2>1 DEF Stage, Fails
  <2>. QED
    BY <2>2, AtomicNames, Zenon
<1>10. Atomic!Disjoint(S)
  <2>1. \A t, u \in S : t # u => Touches(t) \cap Touches(u) = {}
    BY <1>2 DEF Takers
  <2>2. \A t : Atomic!Touched(t) = Touches(t)
    BY AtomicNames
  <2>. QED
    BY <2>1, <2>2, Zenon DEF Atomic!Disjoint
<1>11. /\ C \subseteq L /\ R \subseteq L
       /\ S \subseteq L \ R /\ N \subseteq L \ R /\ P \subseteq L \ R
  BY <1>2, <1>3
<1>12. \A t \in L : Atomic!Alone(t, L) => t \in S
  BY <1>8, Zenon
<1>13. \A t \in N \cup P : Atomic!Starved(t, L)
  BY <1>9, Zenon
<1>. QED
  BY <1>5, <1>6, <1>10, <1>11, <1>12, <1>13

\* Where the transactions stand depends on the plan and the loop variable.
LEMMA PlaceSame ==
    ASSUME UNCHANGED <<block, plan, level>>
    PROVE  Behind' = Behind /\ Current' = Current /\ Txs' = Txs /\ Level(level)' = Level(level)
<1>1. Txs' = Txs /\ \A l : Level(l)' = Level(l)
  BY LevelsStay
<1>2. Level(level)' = Level(level)
  BY DEF Level, Elements
<1>. QED
  BY <1>1, <1>2 DEF Behind, Current

\* DetectConflicts and the commit are the step in which a level takes effect.
LEMMA DetectIsLevel == ASSUME IInv, AInv, Detect PROVE Atomic!Level
<1>. DEFINE L == Level(level)
            R == Elements(DetectEnd.conflicts)
            S == Takers(DetectEnd)
            N == Counters(DetectEnd)
            P == Debtors(DetectEnd)
<1>1. /\ LevelUpTo(Len(order), DetectEnd) /\ L \subseteq Txs
      /\ phase = "detect" /\ phase' \in {"stuck", "redo"} /\ conflicts = <<>>
      /\ db' = Applied(db, DetectEnd.written) /\ conflicts' = DetectEnd.conflicts
      /\ UNCHANGED <<block, exec, plan, level>>
  BY DetectEnds
<1>. HIDE DEF DetectEnd
<1>2. /\ Machine /\ L # {}
      /\ L \subseteq Txs \ Behind /\ \A t \in L, u \in (Txs \ Behind) \ L : t < u
  BY <1>1, LeftLemma, Parts DEF AInv, Queued
<1>3. /\ S \subseteq L \ R /\ N \subseteq L \ R /\ P \subseteq L \ R /\ R \subseteq L
      /\ S \cap N = {} /\ S \cap P = {} /\ N \cap P = {}
      /\ \A t \in L : Atomic!Alone(t, L) => t \in S
      /\ \A t \in N \cup P : Atomic!Starved(t, L)
      /\ Atomic!Disjoint(S)
  BY LevelSorts
<1>4. Atomic!Settled(L, S, N, P)
  <2>1. Elements(DetectEnd.committed) \subseteq L
    BY LevelSorts
  <2>. QED
    BY <1>1, <1>2, <2>1, LevelSettles
<1>5. Behind' = Behind /\ Current' = Current /\ Txs' = Txs /\ Current = L
  BY <1>1, PlaceSame, CurrentLevel
<1>. HIDE DEF L, S, N, P
<1>6. Todo = Txs \ Behind /\ Redo = {} /\ Busy = 0
  BY <1>1 DEF Todo, Redo, Busy, Detected, Funded
<1>7. Todo' = Todo \ L
  <2>1. Detected' /\ phase' # "fill"
    BY <1>1 DEF Detected
  <2>. QED
    BY <1>5, <1>6, <2>1 DEF Todo
<1>8. Busy' = Busy
  <2>1. ~Funded'
    BY <1>1 DEF Funded
  <2>. QED
    BY <1>6, <2>1 DEF Busy
<1>9. Redo' = R
  BY <1>1 DEF Redo, Elements
<1>. HIDE DEF R
<1>10. \A t \in L, u \in Todo \ L : u < t => Names(t) \cap Names(u) = {}
  <2>1. Txs \subseteq Nat
    BY <1>2, BlockTypes DEF Machine
  <2>. QED
    BY <1>1, <1>2, <1>6, <2>1
<1>11. L \in SUBSET Todo /\ R \in SUBSET L
       /\ S \in SUBSET (L \ R) /\ N \in SUBSET (L \ R) /\ P \in SUBSET (L \ R)
  BY <1>2, <1>3, <1>6
<1>12. \E X, Y, Z \in SUBSET (L \ R) :
           /\ X \cap Y = {} /\ X \cap Z = {} /\ Y \cap Z = {}
           /\ \A t \in L : Atomic!Alone(t, L) => t \in X
           /\ \A t \in Y \cup Z : Atomic!Starved(t, L)
           /\ Atomic!Disjoint(X)
           /\ Atomic!Settled(L, X, Y, Z)
  BY <1>3, <1>4, <1>11, Zenon
<1>. QED
  BY <1>1, <1>2, <1>6, <1>7, <1>8, <1>9, <1>10, <1>11, <1>12, AtomicParts, Zenon

\* The steps up to the commit of a level are not seen.
Unseen == UNCHANGED <<block, db>> /\ Todo' = Todo /\ Redo' = Redo /\ Busy' = Busy

\* Filling the plan.
LEMMA FillUnseen == ASSUME IInv, AInv, Fill PROVE Unseen
<1>1. /\ phase = "fill" /\ phase' = "level" /\ UNCHANGED <<block, level, db, conflicts>>
  BY Zenon DEF Fill
<1>2. level = 0
  BY <1>1, Parts DEF Planned
<1>3. Txs' = Txs /\ Behind' = {}
  BY <1>1, <1>2 DEF Txs, Behind
<1>. QED
  BY <1>1, <1>3 DEF Unseen, Todo, Redo, Busy, Detected, Funded

\* A level starts.
LEMMA StartLevelUnseen == ASSUME StartLevel PROVE Unseen
<1>1. /\ phase = "level" /\ phase' \in {"running", "done"} /\ UNCHANGED <<block, plan, level, db, conflicts>>
  BY DEF StartLevel, mainVars
<1>2. Behind' = Behind /\ Txs' = Txs
  BY <1>1, PlaceSame
<1>. QED
  BY <1>1, <1>2 DEF Unseen, Todo, Redo, Busy, Detected, Funded

\* Its goroutines are joined.
LEMMA JoinUnseen == ASSUME Join PROVE Unseen
<1>1. /\ phase = "running" /\ phase' = "detect" /\ UNCHANGED <<block, plan, level, db, conflicts>>
  BY Zenon DEF Join
<1>2. Behind' = Behind /\ Txs' = Txs
  BY <1>1, PlaceSame
<1>. QED
  BY <1>1, <1>2 DEF Unseen, Todo, Redo, Busy, Detected, Funded

\* A goroutine that ends the process has not finished.
LEMMA GoroutineUnseen == ASSUME IInv, AInv, NEW t \in Txs, Goroutine(t) PROVE Unseen
<1>1. /\ phase = "running" /\ phase' \in {"running", "crashed"} /\ t \in Current
      /\ UNCHANGED <<block, mainVars>>
  BY GoroutineMoves, Parts
<1>2. UNCHANGED <<block, plan, level, db, conflicts>> /\ conflicts = <<>>
  BY <1>1 DEF mainVars, AInv, Queued
<1>3. Behind' = Behind /\ Txs' = Txs /\ Current' = Current
  BY <1>2, PlaceSame
<1>4. phase' = "crashed" => exec'[t].pc # "done"
  <2>1. ASSUME phase' = "crashed" PROVE LoadPool(t)
    BY <1>1, <2>1 DEF Goroutine, MakePool, PassPool, SetBalance, Have, LoadGas, SubGas, CanTransfer, Call,
                      Credit, Refund, AddGas, PayTip, Send
  <2>2. ASSUME LoadPool(t) PROVE exec'[t].pc = "addGas"
    <3>1. DOMAIN exec = Txs /\ DOMAIN exec[t] = Fields
      BY Parts DEF Executions, GoodExec
    <3>2. \E v : exec' = [exec EXCEPT ![t] = [exec[t] EXCEPT !.pc = "addGas", !.reg = v]]
      BY <2>2 DEF LoadPool
    <3>. QED
      BY <3>1, <3>2 DEF Fields
  <2>. QED
    BY <2>1, <2>2
<1>5. ~Detected /\ ~Detected'
  BY <1>1, <1>3, <1>4 DEF Detected, Finished
<1>6. ~Funded /\ ~Funded'
  BY <1>1, <1>2 DEF Funded
<1>. QED
  BY <1>1, <1>2, <1>3, <1>5, <1>6 DEF Unseen, Todo, Redo, Busy

\* The loop variable passes the level that is over.
LEMMA NextLevelUnseen == ASSUME IInv, NextLevel PROVE Unseen
<1>1. /\ phase = "redo" /\ phase' = "level" /\ level' = level + 1
      /\ UNCHANGED <<block, plan, db, conflicts>>
  BY Zenon DEF NextLevel
<1>2. /\ level \in Nat /\ Level(level) \subseteq Txs /\ Current = Level(level)
  BY <1>1, Parts, AtWork
<1>3. Txs' = Txs
  BY <1>1 DEF Txs
<1>4. Behind' = Behind \cup Level(level)
  <2>1. \A l : l \in 1 .. level + 1 <=> l \in 1 .. level \/ l = level + 1
    BY <1>2
  <2>2. Behind' = {t \in Txs : \E l \in 1 .. level + 1 : \E i \in DOMAIN plan.items[l] : plan.items[l][i] = t}
    BY <1>1, <1>3 DEF Behind
  <2>3. Level(level) = {t \in Txs : \E i \in DOMAIN plan.items[level + 1] : plan.items[level + 1][i] = t}
    BY <1>2 DEF Level, Elements
  <2>. QED
    BY <2>1, <2>2, <2>3 DEF Behind
<1>. QED
  BY <1>1, <1>2, <1>3, <1>4 DEF Unseen, Todo, Redo, Busy, Detected, Funded

\* While transactions are executed again, and when that ends the process, the
\* level has been taken from what is left.
LEMMA RedoLeaves ==
    ASSUME IInv, phase \in Redoing, phase' \in Redoing \cup {"crashed"},
           UNCHANGED <<block, plan, level, exec>>
    PROVE  Todo' = Todo
<1>1. \A t \in Current : Finished(t)
  BY Parts, CurrentLevel DEF Present, Joined, Redoing
<1>2. Behind' = Behind /\ Current' = Current /\ Txs' = Txs
  BY PlaceSame
<1>3. \A t \in Current' : Finished(t)'
  BY <1>1, <1>2 DEF Finished
<1>4. Detected /\ Detected'
  BY <1>3 DEF Detected, Redoing
<1>. QED
  BY <1>2, <1>4 DEF Todo, Redoing

\* Setting a balance to what it is.
LEMMA SameBalance ==
    ASSUME db \in Objects, NEW a \in Account, NEW x, db[a].bal = x
    PROVE  db = [db EXCEPT ![a].bal = x]
<1>1. db[a] = [db[a] EXCEPT !.bal = x]
  BY DEF Objects
<1>. QED
  BY <1>1 DEF Objects

\* buyGas of a transaction that is executed again.
LEMMA ReBuyGasIsFund == ASSUME IInv, AInv, ReBuyGas PROVE Atomic!Fund \/ Unseen
<1>. SUFFICES ASSUME NEW t, t = Head(conflicts) PROVE Atomic!Fund \/ Unseen
  OBVIOUS
<1>1. /\ phase = "redo" /\ conflicts # <<>>
      /\ UNCHANGED <<block, exec, plan, level, conflicts>>
  BY Zenon DEF ReBuyGas
<1>2. \/ phase' = "crashed" /\ db' = db
      \/ phase' \in {"crashed", "reCall"} /\ db' = [db EXCEPT ![From(t)].bal = 2 * Want(t)]
  BY DEF ReBuyGas
<1>3. /\ t \in Txs /\ Elements(conflicts) = {t} \cup Elements(Tail(conflicts))
      /\ db \in Objects /\ From(t) \in Account
  BY <1>1, Parts, HeadLemma, BlockTypes
<1>4. Todo' = Todo
  BY <1>1, <1>2, RedoLeaves DEF Redoing
<1>5. Redo' = Redo /\ t \in Redo /\ Head(conflicts') = t
  BY <1>1, <1>3 DEF Redo, Elements
<1>6. Busy = 0
  BY <1>1 DEF Busy, Funded
<1>7. From(t)' = From(t) /\ Want(t)' = Want(t)
  BY <1>1 DEF From, Want, Value
<1>8. ASSUME db' = [db EXCEPT ![From(t)].bal = 2 * Want(t)], phase' \in {"crashed", "reCall"}
      PROVE  Atomic!Fund
  <2>1. db'[From(t)].bal = 2 * Want(t)
    BY <1>3, <1>8 DEF Objects
  <2>2. Funded'
    BY <1>1, <1>5, <1>7, <1>8, <2>1 DEF Funded
  <2>3. Busy' = t
    BY <1>5, <2>2 DEF Busy
  <2>. QED
    BY <1>1, <1>4, <1>5, <1>6, <1>8, <2>3, AtomicParts, Zenon
<1>9. CASE phase' = "crashed" /\ db' = db
  <2>1. CASE db[From(t)].bal = 2 * Want(t)
    BY <1>3, <1>8, <1>9, <2>1, SameBalance
  <2>2. CASE db[From(t)].bal # 2 * Want(t)
    <3>1. ~Funded'
      BY <1>5, <1>7, <1>9, <2>2 DEF Funded
    <3>. QED
      BY <1>1, <1>4, <1>5, <1>6, <1>9, <3>1 DEF Unseen, Busy
  <2>. QED
    BY <2>1, <2>2
<1>. QED
  BY <1>2, <1>8, <1>9

\* It collects its write set.
LEMMA ReCallUnseen == ASSUME IInv, AInv, ReCall PROVE Unseen
<1>1. /\ phase = "reCall" /\ phase' = "reCommit"
      /\ UNCHANGED <<block, exec, plan, level, conflicts, db>>
  BY Zenon DEF ReCall
<1>2. Todo' = Todo
  BY <1>1, RedoLeaves DEF Redoing
<1>. QED
  BY <1>1, <1>2 DEF Unseen, Redo, Busy, Funded

\* AtomicBlock's step for its effect.
LEMMA SettleParts ==
    Atomic!Settle <=>
        /\ Busy # 0
        /\ db' = [a \in Account |->
                     [bal   |-> db[a].bal + Atomic!Delta(Busy, a)
                                - (IF a = From(Busy) THEN Value(Busy) ELSE 0),
                      nonce |-> db[a].nonce + (IF a = From(Busy) THEN 1 ELSE 0)]]
        /\ Redo' = Redo \ {Busy} /\ Busy' = 0
        /\ UNCHANGED block /\ Todo' = Todo
<1>1. \A t : Atomic!From(t) = From(t) /\ Atomic!Value(t) = Value(t)
  BY AtomicNames
<1>2. Atomic!Settle <=>
        /\ Busy # 0
        /\ db' = [a \in Account |->
                     [bal   |-> db[a].bal + Atomic!Delta(Busy, a)
                                - (IF a = Atomic!From(Busy) THEN Atomic!Value(Busy) ELSE 0),
                      nonce |-> db[a].nonce + (IF a = Atomic!From(Busy) THEN 1 ELSE 0)]]
        /\ Redo' = Redo \ {Busy} /\ Busy' = 0
        /\ UNCHANGED block /\ Todo' = Todo
  BY Zenon DEF Atomic!Settle, Todo, Redo, Busy
<1>. QED
  BY <1>1, <1>2

\* The commit of a write set that holds all of a transaction executed again.
LEMMA WholeSettles ==
    ASSUME Machine, NEW t \in Txs, NEW c, NEW a \in Account,
           Whole(c, t, Cost + Value(t) + Value(t), NextNonce(t), [b \in Account |-> {db[b].bal}])
    PROVE  /\ Applied(db, c)[a].bal =
                  db[a].bal + Atomic!Delta(t, a) - (IF a = From(t) THEN Value(t) ELSE 0)
           /\ Applied(db, c)[a].nonce = db[a].nonce + (IF a = From(t) THEN 1 ELSE 0)
<1>. DEFINE new == Applied(db, c)[a]
            d   == IF a = From(t) THEN Cost + Value(t) ELSE 0
            v   == IF a = From(t) THEN Value(t) ELSE 0
            sub == IF <<a, SubBalanceKey>> \in Entries(c) THEN c[a][SubBalanceKey] ELSE 0
            bal == IF <<a, BalanceKey>> \in Entries(c) THEN c[a][BalanceKey] ELSE db[a].bal
<1>1. /\ db \in Objects /\ db[a].bal \in Int /\ db[a].nonce \in Nat
      /\ From(t) \in Account /\ Cost \in Nat /\ Value(t) \in Nat
      /\ BalanceKey # SubBalanceKey /\ BalanceKey # NonceKey /\ SubBalanceKey # NonceKey
  BY TxFacts DEF Machine, Objects
<1>2. /\ Atomic!Delta(t, a) \in Int /\ Gain(t, a) \in Int /\ Atomic!Delta(t, a) = Gain(t, a) - d
  BY DeltaIs
<1>3. new.bal = bal - sub /\ new.nonce = IF HasNonce(c, a) THEN c[a][NonceKey] ELSE db[a].nonce
  BY <1>1, AppliedBalances, AppliedNonces
<1>4. /\ <<a, SubBalanceKey>> \in Entries(c) <=> a = From(t)
      /\ <<a, NonceKey>> \in Entries(c) <=> a = From(t)
      /\ <<a, BalanceKey>> \in Entries(c) <=> a \in Touches(t)
  BY <1>1 DEF Whole
<1>5. sub = d + v
  <2>1. a = From(t) => c[a][SubBalanceKey] = Cost + Value(t) + Value(t)
    BY DEF Whole, Holds
  <2>2. CASE a = From(t)
    BY <1>1, <1>4, <2>1, <2>2
  <2>3. CASE a # From(t)
    BY <1>1, <1>4, <2>3
  <2>. QED
    BY <2>2, <2>3
<1>6. bal = db[a].bal + Gain(t, a)
  <2>1. CASE a \in Touches(t)
    <3>1. \E x \in {db[a].bal} : Holds(c, a, BalanceKey, x + Gain(t, a))
      BY <2>1 DEF Whole
    <3>2. c[a][BalanceKey] = db[a].bal + Gain(t, a)
      BY <3>1 DEF Holds
    <3>. QED
      BY <1>4, <2>1, <3>2
  <2>2. CASE a \notin Touches(t)
    <3>1. Gain(t, a) = 0
      BY <1>1, <2>2 DEF Gain, Touches
    <3>. QED
      BY <1>1, <1>4, <2>2, <3>1
  <2>. QED
    BY <2>1, <2>2
<1>7. d \in Int /\ v \in Int
  BY <1>1
<1>8. new.nonce = db[a].nonce + (IF a = From(t) THEN 1 ELSE 0)
  BY <1>1, <1>3, <1>4 DEF HasNonce, Whole, Holds, NextNonce
<1>9. new.bal = db[a].bal + Atomic!Delta(t, a) - v
  <2>. HIDE DEF new, d, v, sub, bal
  <2>. QED
    BY <1>1, <1>2, <1>3, <1>5, <1>6, <1>7
<1>. QED
  BY <1>8, <1>9

\* RelExecTx commits what is executed again.
LEMMA ReCommitIsSettle ==
    ASSUME IInv, AInv, Left * Price > 0, Tip = 0, ReCommit
    PROVE  Atomic!Settle \/ Unseen
<1>. SUFFICES ASSUME NEW t, t = Head(conflicts) PROVE Atomic!Settle \/ Unseen
  OBVIOUS
<1>. DEFINE c == Refunded(retried[t], t, db[From(t)].bal).cache
            V == [a \in Account |-> {db[a].bal}]
<1>1. /\ phase = "reCommit" /\ UNCHANGED <<block, exec, plan, level>>
      /\ \/ phase' = "crashed" /\ UNCHANGED <<db, conflicts>>
         \/ phase' = "redo" /\ db' = Applied(db, c) /\ conflicts' = Tail(conflicts)
  <2>1. Put(retried, t, Tipped(Refunded(retried[t], t, db[From(t)].bal), db[Coinbase].bal))[t].cache = c
    BY DEF Put, Tipped
  <2>2. /\ phase = "reCommit" /\ UNCHANGED <<block, exec, plan, level>>
        /\ \/ phase' = "crashed" /\ UNCHANGED <<db, conflicts>>
           \/ /\ phase' = "redo" /\ conflicts' = Tail(conflicts)
              /\ retried' = Put(retried, t, Tipped(Refunded(retried[t], t, db[From(t)].bal), db[Coinbase].bal))
              /\ written' = retried'[t].cache /\ db' = Applied(db, written')
    BY Zenon DEF ReCommit
  <2>. HIDE DEF c
  <2>. QED
    BY <2>1, <2>2, Zenon
<1>. HIDE DEF c
<1>2. /\ Machine /\ db \in Objects /\ conflicts # <<>> /\ t \in DOMAIN retried /\ GoodSet(retried[t])
      /\ Lists /\ conflicts \in Seq(Txs) /\ Distinct(conflicts) /\ block \in Blocks
  BY <1>1, Parts DEF Sets, Lists, AllFinished, AInv, Queued, Redoing
<1>3. /\ t \in Txs /\ t # 0 /\ Elements(conflicts) = {t} \cup Elements(Tail(conflicts))
      /\ t \notin Elements(Tail(conflicts))
  BY <1>2, HeadLemma, DistinctTail, BlockTypes
<1>4. Todo' = Todo
  BY <1>1, RedoLeaves DEF Redoing
<1>5. Busy = t
  BY <1>1 DEF Busy, Funded
<1>6. /\ db[From(t)].bal = 2 * Want(t)
      /\ Moved(retried[t].cache, t, Cost + Value(t) + Value(t), NextNonce(t), V)
  BY <1>1 DEF AInv, Redone, Redoes
<1>7. CASE phase' = "crashed" /\ UNCHANGED <<db, conflicts>>
  <2>1. From(t)' = From(t) /\ Want(t)' = Want(t)
    BY <1>1 DEF From, Want, Value
  <2>2. Funded'
    BY <1>2, <1>6, <1>7, <2>1 DEF Funded
  <2>3. Busy' = t
    BY <1>7, <2>2 DEF Busy
  <2>4. Redo' = Redo
    BY <1>7 DEF Redo
  <2>. QED
    BY <1>1, <1>4, <1>5, <1>7, <2>3, <2>4 DEF Unseen
<1>8. CASE phase' = "redo" /\ db' = Applied(db, c) /\ conflicts' = Tail(conflicts)
  <2>1. Busy' = 0
    BY <1>8 DEF Busy, Funded
  <2>2. Redo' = Redo \ {t}
    <3>1. Redo' = Elements(Tail(conflicts)) /\ Redo = Elements(conflicts)
      BY <1>8 DEF Redo, Elements
    <3>. QED
      BY <1>3, <3>1
  <2>3. Whole(c, t, Cost + Value(t) + Value(t), NextNonce(t), V)
    <3>1. /\ From(t) \in Account /\ To(t) \in Account /\ db[From(t)].bal \in Int /\ db[To(t)].bal \in Int
      BY <1>2, <1>3, TxFacts DEF Objects
    <3>2. db[From(t)].bal \in V[From(t)] /\ \A x \in V[To(t)] : x \in Int
      BY <3>1
    <3>. HIDE DEF V
    <3>. DEFINE s == Cost + Value(t) + Value(t)
                n == NextNonce(t)
                set == retried[t]
                b == db[From(t)].bal
    <3>3. Moved(set.cache, t, s, n, V) /\ GoodSet(set) /\ b \in Int /\ b \in V[From(t)]
      BY <1>2, <1>6, <3>1, <3>2
    <3>4. c = Refunded(set, t, b).cache
      BY DEF c
    <3>. HIDE DEF s, n, set, b
    <3>5. Whole(Refunded(set, t, b).cache, t, s, n, V)
      BY <1>2, <1>3, <3>2, <3>3, WholeWrites
    <3>6. Whole(c, t, s, n, V)
      BY <3>4, <3>5
    <3>. QED
      BY <3>6 DEF s, n
  <2>4. GoodCache(c)
    <3>1. GoodSet(Refunded(retried[t], t, db[From(t)].bal))
      BY <1>2, <1>3, TxFacts, RefundIs DEF Objects
    <3>. QED
      BY <3>1 DEF c, GoodSet
  <2>5. db' \in Objects
    BY <1>2, <1>8, <2>4, AppliedTypes
  <2>6. ASSUME NEW a \in Account
        PROVE  db'[a] = [bal   |-> db[a].bal + Atomic!Delta(t, a) - (IF a = From(t) THEN Value(t) ELSE 0),
                         nonce |-> db[a].nonce + (IF a = From(t) THEN 1 ELSE 0)]
    <3>1. /\ db'[a].bal = db[a].bal + Atomic!Delta(t, a) - (IF a = From(t) THEN Value(t) ELSE 0)
          /\ db'[a].nonce = db[a].nonce + (IF a = From(t) THEN 1 ELSE 0)
      BY <1>2, <1>3, <1>8, <2>3, WholeSettles
    <3>2. db'[a] = [bal |-> db'[a].bal, nonce |-> db'[a].nonce]
      BY <2>5 DEF Objects
    <3>. QED
      BY <3>1, <3>2, Zenon
  <2>7. db' = [a \in Account |->
                  [bal   |-> db[a].bal + Atomic!Delta(t, a) - (IF a = From(t) THEN Value(t) ELSE 0),
                   nonce |-> db[a].nonce + (IF a = From(t) THEN 1 ELSE 0)]]
    BY <2>5, <2>6 DEF Objects
  <2>8. UNCHANGED block
    BY <1>1
  <2>9. Busy # 0
    BY <1>3, <1>5
  <2>. QED
    BY <1>4, <1>5, <2>1, <2>2, <2>7, <2>8, <2>9, SettleParts
<1>. QED
  BY <1>1, <1>7, <1>8

-----------------------------------------------------------------------------
(* The refinement.                                                         *)

\* Every step is one of AtomicBlock or is not seen.
LEMMA AtomicStep ==
    ASSUME IInv, AInv, Left * Price > 0, Tip = 0, [Next]_vars
    PROVE  [Atomic!Next]_(Atomic!atomicVars)
<1>1. Unseen => UNCHANGED Atomic!atomicVars
  BY AtomicParts, Zenon DEF Unseen
<1>2. UNCHANGED vars => Unseen
  <2>. SUFFICES ASSUME UNCHANGED vars PROVE Unseen
    OBVIOUS
  <2>1. UNCHANGED <<block, db, phase, plan, level, conflicts, exec>>
    BY DEF vars, mainVars
  <2>2. Behind' = Behind /\ Current' = Current /\ Txs' = Txs
    BY <2>1, PlaceSame
  <2>3. \A t : Finished(t)' <=> Finished(t)
    BY <2>1 DEF Finished
  <2>4. Detected' <=> Detected
    BY <2>1, <2>2, <2>3 DEF Detected
  <2>5. \A t : From(t)' = From(t) /\ Want(t)' = Want(t)
    BY <2>1 DEF From, Want, Value
  <2>6. Funded' <=> Funded
    <3>. SUFFICES ASSUME NEW h, h = Head(conflicts) PROVE Funded' <=> Funded
      OBVIOUS
    <3>. QED
      BY <2>1, <2>5 DEF Funded
  <2>. QED
    BY <2>1, <2>2, <2>4, <2>6 DEF Unseen, Todo, Redo, Busy
<1>3. Next => Unseen \/ Atomic!Next
  BY FillUnseen, StartLevelUnseen, JoinUnseen, DetectIsLevel, ReBuyGasIsFund, ReCallUnseen,
     ReCommitIsSettle, NextLevelUnseen, GoroutineUnseen DEF Next, Main, Atomic!Next
<1>. QED
  BY <1>1, <1>2, <1>3

\* Nothing has been executed.
LEMMA AtomicStarts == Init => Atomic!Init
<1>. SUFFICES ASSUME Init PROVE Atomic!Init
  OBVIOUS
<1>1. phase = "fill" /\ conflicts = <<>> /\ block \in Blocks
      /\ db = [a \in Account |-> [bal |-> Funds, nonce |-> 0]]
  BY DEF Init
<1>2. Todo = Txs /\ Redo = {} /\ Busy = 0
  BY <1>1 DEF Todo, Redo, Busy, Funded
<1>3. Atomic!Txs = Txs
  BY AtomicNames
<1>. QED
  BY <1>1, <1>2, <1>3 DEF Atomic!Init, Todo, Redo, Busy

\* ExecBenchTxs implements AtomicBlock: each level of a block without tips takes effect
\* in one step whatever its goroutines do in between (process.go:157-221), when gas is
\* left to be refunded, the block gas limit covers the block and a pool does not overflow.
THEOREM LevelsAreAtomic ==
    ASSUME Price = BaseFee, Left * Price > 0, Supply
    PROVE  Spec => AtomicLevels
<1>1. Tip = 0
  BY Constants DEF Tip
<1>2. Init => IInv /\ AInv /\ Atomic!Init
  BY InitInvariant, AtomicInit, AtomicStarts
<1>3. IInv /\ AInv /\ [Next]_vars => IInv' /\ AInv' /\ [Atomic!Next]_(Atomic!atomicVars)
  BY <1>1, NextInvariant, AtomicNext, AtomicStep
<1>. QED
  BY <1>2, <1>3, PTL DEF Spec, AtomicLevels, Atomic!Spec
=============================================================================
