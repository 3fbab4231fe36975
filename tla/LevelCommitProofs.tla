------------------------- MODULE LevelCommitProofs --------------------------
(***************************************************************************)
(* Proofs about LevelCommit for every set of accounts and results, every   *)
(* number of arrivals and every level of up to 12 transactions, for which  *)
(* sort.Sort is an insertion sort.                                         *)
(*                                                                         *)
(* The inductive invariant LevelInv says that order lists each transaction *)
(* received once and is sorted as far as the sort has come, that the       *)
(* transactions looked at are split into accepted and conflicting ones,    *)
(* that only the maps of accepted ones have been lent, and where the logs  *)
(* of each transaction are.  On top of it Counted bounds how often logs    *)
(* have been added, and CommitInv says what the map                        *)
(* merged for an account has in common with the accepted transactions      *)
(* replayed one after the other, and with the account's object.            *)
(***************************************************************************)
EXTENDS LevelCommit, FiniteSetTheorems, SequenceTheorems, WellFoundedInduction, TLAPS

Phases == {"collect", "detect", "commit", "committed", "redo", "redone", "recommit",
           "done", "stuck", "crashed"}
Records == [hash : 1 .. Level, w : Nat, wkeys : Nat, r : Nat, rkeys : Nat]
Conflicts == ToSet(conflicts)

\* Every variable has its type.
Typing ==
    /\ phase \in Phases /\ received \in Nat
    /\ DOMAIN recs \subseteq 1 .. Level /\ \A t \in DOMAIN recs : recs[t] \in Results
    /\ phase # "collect" => DOMAIN recs = 1 .. Level
    /\ order \in Seq(Records) /\ next \in 1 .. Level + 1
    /\ accepted \in Seq(1 .. Level) /\ conflicts \in Seq(1 .. Level)
    /\ wLogs \subseteq 1 .. Level /\ logs \in [1 .. Level -> Nat]

\* The transactions of the first n records of a list.
Hashes(o, n) == {o[i].hash : i \in 1 .. n}

\* order lists the transactions received, each once.
Listed ==
    /\ \A i, j \in 1 .. Len(order) : order[i].hash = order[j].hash => i = j
    /\ Hashes(order, Len(order)) = DOMAIN recs
    /\ Len(order) = Cardinality(DOMAIN recs)

\* It is sorted up to `next', if Less does not contradict itself.
Agreeing == \A i, j \in 1 .. Len(order) : ~Clash(order[i], order[j])
SortedTo(k) == \A i, j \in 1 .. Len(order) : i < j /\ j <= k => Less(order[i], order[j])
Sorting ==
    /\ phase = "collect" /\ received < MaxArrivals => next = 1
    /\ phase = "collect" /\ next > 1 => next <= Len(order)
    /\ phase = "collect" /\ Agreeing => SortedTo(next)
    /\ phase = "detect" /\ Agreeing => SortedTo(Len(order))

\* A map of values: balances may be negative.
GoodMap(m) == \A k \in DOMAIN m : m[k] \in IF k = BalanceKey THEN Int ELSE Nat
MapsGood ==
    /\ \A n \in DOMAIN maps : GoodMap(maps[n])
    /\ phase # "collect" => \A t \in 1 .. Level, a \in Account : Own(t, a) \in DOMAIN maps
    /\ DOMAIN written \subseteq Account /\ \A a \in DOMAIN written : written[a] \in DOMAIN maps

\* The objects of the state and those on their way to it.
ObjectsGood ==
    /\ db \in [Account -> Account \X Nat]
    /\ \A o \in DOMAIN objs : objs[o] \in Object
    /\ \A a \in Account : db[a] \in DOMAIN objs
    /\ DOMAIN fetched \subseteq DOMAIN written /\ \A a \in DOMAIN fetched : fetched[a] \in DOMAIN objs
    /\ phase \notin {"commit", "recommit"} => DOMAIN fetched = {}

\* Until a transaction is executed again, those looked at are split in two, and
\* the maps of all but the accepted ones are as their execution left them.
Judging == phase \in {"detect", "commit", "committed"}
Judged ==
    /\ phase = "collect" => DOMAIN written = {} /\ accepted = <<>> /\ conflicts = <<>>
    /\ phase \notin {"collect", "detect"} => next > Len(order)
    /\ Judging =>
          /\ Len(accepted) + Len(conflicts) = next - 1
          /\ Accepted \cup Conflicts = Hashes(order, next - 1)
          /\ Accepted \cap Conflicts = {}
Lent ==
    Judging =>
        /\ \A t \in (1 .. Level) \ Accepted, a \in Account :
              maps[Own(t, a)] = Written(t, recs[t].use[a], Fresh)
        /\ \A a \in DOMAIN written : \E t \in Accepted : written[a] \in {Own(t, a), Nonce(t, a)}

\* A transaction with a write set is still to be looked at or executed again, or
\* its logs are in wLogs, or added.
Logged ==
    /\ phase # "collect" =>
          \A t \in 1 .. Level : \/ \E i \in next .. Len(order) : order[i].hash = t
                                \/ t \in Conflicts \/ t \in wLogs \/ Writes(recs[t]) = {}
    /\ phase \in {"committed", "redo", "done"} => \A t \in wLogs : logs[t] >= 1
    /\ phase = "done" => conflicts = <<>>

LevelInv ==
    /\ Typing /\ Listed /\ Sorting /\ MapsGood /\ ObjectsGood /\ Judged /\ Lent /\ Logged
-----------------------------------------------------------------------------
(* Lemmas about the maps.                                                    *)

\* The types of the constants.
LEMMA Constants ==
    /\ Funds \in Nat /\ Amount \in Nat /\ MaxArrivals \in Nat /\ Level \in Nat \ {0}
    /\ IsFiniteSet(Account)
  BY LevelCommitAssumption

\* No two keys of an account are the same.
LEMMA KeysDiffer ==
    /\ BalanceKey \notin {SubBalanceKey, NonceKey, CreatAccountKey, SetCodeKey, Slot}
    /\ SubBalanceKey \notin {NonceKey, CreatAccountKey, SetCodeKey, Slot}
    /\ NonceKey \notin {CreatAccountKey, SetCodeKey, Slot}
    /\ CreatAccountKey \notin {SetCodeKey, Slot} /\ SetCodeKey # Slot
<1>. DEFINE keys == <<BalanceKey, SubBalanceKey, NonceKey, CreatAccountKey, SetCodeKey, Slot>>
<1>1. \A i, j \in DOMAIN keys : keys[i] = keys[j] => i = j
  BY LevelCommitAssumption
<1>2. /\ {1, 2, 3, 4, 5, 6} \subseteq DOMAIN keys
      /\ keys[1] = BalanceKey /\ keys[2] = SubBalanceKey /\ keys[3] = NonceKey
      /\ keys[4] = CreatAccountKey /\ keys[5] = SetCodeKey /\ keys[6] = Slot
  OBVIOUS
<1>. HIDE DEF keys
<1>3. \A i, j \in {1, 2, 3, 4, 5, 6} : i # j => keys[i] # keys[j]
  BY <1>1, <1>2
<1>. QED
  BY <1>2, <1>3

\* What a map holds after a value has been put into it.
LEMMA PutLemma ==
    ASSUME NEW m, NEW k, NEW v
    PROVE  /\ DOMAIN Put(m, k, v) = DOMAIN m \cup {k} /\ Put(m, k, v)[k] = v
           /\ \A x \in DOMAIN m : x # k => Put(m, k, v)[x] = m[x]
  BY DEF Put

\* What a map holds after another one has been merged into it.
LEMMA MergeLemma ==
    ASSUME NEW m, NEW n
    PROVE  /\ DOMAIN Merge(m, n) = DOMAIN m \cup DOMAIN n
           /\ \A x \in DOMAIN n : Merge(m, n)[x] = n[x]
           /\ \A x \in DOMAIN m : x \notin DOMAIN n => Merge(m, n)[x] = m[x]
  BY DEF Merge

\* Merging keeps the types of the values ...
LEMMA GoodMerge ==
    ASSUME NEW m, NEW n, GoodMap(m), GoodMap(n)
    PROVE  GoodMap(Merge(m, n))
  BY DEF GoodMap, Merge

\* ... and so does keeping only the nonce ...
LEMMA GoodNonce ==
    ASSUME NEW m, GoodMap(m)
    PROVE  GoodMap(OnlyNonce(m))
  BY DEF GoodMap, OnlyNonce

\* ... and an execution writes values of these types.
LEMMA GoodWritten ==
    ASSUME NEW t \in 1 .. Level, NEW use, NEW o \in Object
    PROVE  GoodMap(Written(t, use, o))
<1>1. o.bal \in Int /\ o.nonce \in Nat /\ t \in Nat /\ Credit(t, use) \in Nat /\ Debit(t, use) \in Nat
  BY Constants DEF Object, Credit, Debit
<1>. SUFFICES ASSUME NEW k \in Uses[use].writes
              PROVE  Written(t, use, o)[k] \in IF k = BalanceKey THEN Int ELSE Nat
  BY DEF GoodMap, Written
<1>2. Written(t, use, o)[k] = CASE k = BalanceKey    -> o.bal + Credit(t, use)
                                [] k = SubBalanceKey -> Debit(t, use)
                                [] k = NonceKey      -> o.nonce + 1
                                [] OTHER             -> t
  BY DEF Written
<1>3. CASE k = BalanceKey
  BY <1>1, <1>2, <1>3, KeysDiffer
<1>4. CASE k = SubBalanceKey
  BY <1>1, <1>2, <1>4, KeysDiffer
<1>5. CASE k = NonceKey
  BY <1>1, <1>2, <1>5, KeysDiffer
<1>6. CASE k # BalanceKey /\ k # SubBalanceKey /\ k # NonceKey
  BY <1>1, <1>2, <1>6
<1>. QED
  BY <1>3, <1>4, <1>5, <1>6

\* An account begins with an object of the right type.
LEMMA FreshObject == Fresh \in Object
  BY Constants DEF Fresh, Object

\* Committing a map to an object, or replacing the object, keeps its type.
LEMMA GoodUpdate ==
    ASSUME NEW o \in Object, NEW m, GoodMap(m)
    PROVE  Updated(o, m) \in Object /\ Recreated(o) \in Object
<1>1. /\ BalanceKey \in DOMAIN m => m[BalanceKey] \in Int
      /\ SubBalanceKey \in DOMAIN m => m[SubBalanceKey] \in Int
      /\ NonceKey \in DOMAIN m => m[NonceKey] \in Nat
      /\ Slot \in DOMAIN m => m[Slot] \in Nat
  BY KeysDiffer DEF GoodMap
<1>. QED
  BY <1>1 DEF Updated, Recreated, Object
-----------------------------------------------------------------------------
(* Lemmas about the sort.                                                    *)

\* A set of numbers up to n has a greatest.
LEMMA MaxLemma ==
    ASSUME NEW n \in Nat, NEW S \in SUBSET (0 .. n), S # {}
    PROVE  Max(S) \in S /\ \A y \in S : Max(S) >= y
<1>. DEFINE R == {ss \in Nat \X Nat : ss[1] < ss[2]}
            T == {n - y : y \in S}
<1>1. IsWellFoundedOn(R, Nat)
  BY NatLessThanWellFounded DEF OpToRel
<1>2. T \in SUBSET Nat /\ T # {}
  OBVIOUS
<1>. HIDE DEF R
<1>3. PICK z \in T : \A y \in T : ~(<<y, z>> \in R)
  <2>. HIDE DEF T
  <2>. QED
    BY <1>1, <1>2, WFMin
<1>4. PICK x \in S : z = n - x
  BY <1>3
<1>5. \A y \in S : x >= y
  <2>. SUFFICES ASSUME NEW y \in S PROVE x >= y
    OBVIOUS
  <2>1. n - y \in T /\ n - y \in Nat /\ n - x \in Nat
    OBVIOUS
  <2>2. ~(n - y < n - x)
    BY <1>3, <1>4, <2>1 DEF R
  <2>. QED
    BY <2>2
<1>. QED
  BY <1>4, <1>5, Zenon DEF Max

\* Where Insert puts x in s.
PlaceOf(s, x) == Max({0} \cup {i \in DOMAIN s : ~Less(x, s[i])}) + 1

\* Insert puts a record in front of those that are greater, and moves nothing else.
LEMMA InsertLemma ==
    ASSUME NEW s \in Seq(Records), NEW x \in Records
    PROVE  LET p == PlaceOf(s, x)
               new == Insert(s, x)
           IN  /\ p \in 1 .. Len(s) + 1
               /\ new \in Seq(Records) /\ Len(new) = Len(s) + 1
               /\ \A i \in 1 .. Len(s) + 1 :
                     /\ i < p => new[i] = s[i]
                     /\ i = p => new[i] = x
                     /\ i > p => new[i] = s[i - 1]
               /\ \A i \in 1 .. Len(s) : i >= p => Less(x, s[i])
               /\ p > 1 => ~Less(x, s[p - 1])
<1>. DEFINE stops == {0} \cup {i \in DOMAIN s : ~Less(x, s[i])}
            p == PlaceOf(s, x)
            new == Insert(s, x)
<1>1. Len(s) \in Nat /\ DOMAIN s = 1 .. Len(s)
  OBVIOUS
<1>2. Max(stops) \in stops /\ \A y \in stops : Max(stops) >= y
  <2>1. stops \in SUBSET (0 .. Len(s)) /\ stops # {} /\ Len(s) \in Nat
    BY <1>1
  <2>. HIDE DEF stops
  <2>. QED
    BY <2>1, MaxLemma
<1>3. p = Max(stops) + 1
  BY DEF PlaceOf
<1>4. p \in 1 .. Len(s) + 1
  BY <1>1, <1>2, <1>3
<1>5. \A i \in 1 .. Len(s) : i >= p => Less(x, s[i])
  <2>. SUFFICES ASSUME NEW i \in 1 .. Len(s), i >= p, ~Less(x, s[i]) PROVE FALSE
    OBVIOUS
  <2>1. i \in stops
    BY <1>1
  <2>. QED
    BY <1>1, <1>2, <1>3, <2>1
<1>6. p > 1 => ~Less(x, s[p - 1])
  BY <1>1, <1>2, <1>3
<1>7. new = SubSeq(s, 1, p - 1) \o <<x>> \o SubSeq(s, p, Len(s))
  BY <1>3, Zenon DEF Insert, InsertAt
<1>. HIDE DEF p, new, stops
<1>. DEFINE left == SubSeq(s, 1, p - 1)
            right == SubSeq(s, p, Len(s))
<1>8. /\ left \in Seq(Records) /\ Len(left) = p - 1 /\ \A i \in 1 .. p - 1 : left[i] = s[i]
  BY <1>1, <1>4, SubSeqProperties
<1>9. /\ right \in Seq(Records) /\ Len(right) = (Len(s) - p) + 1
      /\ \A i \in 1 .. Len(right) : right[i] = s[(p + i) - 1]
  BY <1>1, <1>4, SubSeqProperties
<1>10. <<x>> \in Seq(Records) /\ Len(<<x>>) = 1 /\ <<x>>[1] = x
  OBVIOUS
<1>11. new = (left \o <<x>>) \o right
  BY <1>7
<1>. HIDE DEF left, right
<1>. DEFINE both == left \o <<x>>
<1>12. /\ both \in Seq(Records) /\ Len(both) = p
       /\ \A i \in 1 .. p : both[i] = IF i < p THEN s[i] ELSE x
  BY <1>1, <1>4, <1>8, <1>10, ConcatProperties
<1>. HIDE DEF both
<1>13. /\ new \in Seq(Records) /\ Len(new) = Len(s) + 1
       /\ \A i \in 1 .. Len(s) + 1 : new[i] = IF i <= p THEN both[i] ELSE right[i - p]
  <2>1. new = both \o right
    BY <1>11 DEF both
  <2>2. /\ new \in Seq(Records) /\ Len(new) = Len(both) + Len(right)
        /\ \A i \in 1 .. Len(both) + Len(right) : new[i] = IF i <= Len(both) THEN both[i] ELSE right[i - Len(both)]
    BY <1>9, <1>12, <2>1, ConcatProperties
  <2>3. Len(both) + Len(right) = Len(s) + 1
    BY <1>1, <1>4, <1>9, <1>12
  <2>. QED
    BY <1>12, <2>2, <2>3
<1>14. ASSUME NEW i \in 1 .. Len(s) + 1
       PROVE  /\ i < p => new[i] = s[i]
              /\ i = p => new[i] = x
              /\ i > p => new[i] = s[i - 1]
  <2>1. CASE i \in 1 .. p
    BY <1>4, <1>12, <1>13, <2>1
  <2>2. CASE i > p
    <3>1. i - p \in 1 .. Len(right)
      BY <1>1, <1>4, <1>9, <2>2
    <3>2. new[i] = right[i - p]
      BY <1>4, <1>13, <2>2
    <3>3. right[i - p] = s[(p + (i - p)) - 1]
      BY <1>9, <3>1
    <3>4. (p + (i - p)) - 1 = i - 1
      BY <1>4
    <3>. QED
      BY <1>4, <2>2, <3>2, <3>3, <3>4
  <2>. QED
    BY <1>4, <2>1, <2>2
<1>. QED
  BY <1>4, <1>5, <1>6, <1>13, <1>14 DEF p, new

\* Less is an order of the records it does not contradict itself on, and always
\* decides.
LEMMA LessOrders ==
    ASSUME NEW x \in Records, NEW y \in Records, NEW z \in Records,
           ~Clash(x, y), ~Clash(y, z), ~Clash(x, z)
    PROVE  Less(x, y) /\ Less(y, z) => Less(x, z)
<1>1. /\ x.hash \in Int /\ y.hash \in Int /\ z.hash \in Int
      /\ x.w \in Nat /\ y.w \in Nat /\ z.w \in Nat
      /\ x.r \in Nat /\ y.r \in Nat /\ z.r \in Nat
      /\ x.wkeys \in Nat /\ y.wkeys \in Nat /\ z.wkeys \in Nat
      /\ x.rkeys \in Nat /\ y.rkeys \in Nat /\ z.rkeys \in Nat
  BY Constants DEF Records
<1>. QED
  BY <1>1 DEF Less, Clash

\* Of two records with different hashes one is less (cacheSet.go:297-340).
LEMMA LessTotal ==
    ASSUME NEW x \in Records, NEW y \in Records, x.hash # y.hash, ~Less(x, y)
    PROVE  Less(y, x)
<1>1. /\ x.hash \in Int /\ y.hash \in Int /\ x.w \in Nat /\ y.w \in Nat /\ x.r \in Nat /\ y.r \in Nat
      /\ x.wkeys \in Nat /\ y.wkeys \in Nat /\ x.rkeys \in Nat /\ y.rkeys \in Nat
  BY Constants DEF Records
<1>. QED
  BY <1>1 DEF Less

\* Which record a turn of the sort moves to i, p being the place of the moved one.
Turned(n, i, p) == IF i < p THEN i ELSE IF i = p THEN n + 1 ELSE IF i <= n + 1 THEN i - 1 ELSE i

\* A turn of the sort moves one record to its place among those before it.
LEMMA TurnLemma ==
    ASSUME NEW o \in Seq(Records), NEW n \in Nat \ {0}, n < Len(o)
    PROVE  \E p \in 1 .. n + 1 :
              /\ Turn(o, n) \in Seq(Records) /\ Len(Turn(o, n)) = Len(o)
              /\ \A i \in 1 .. Len(o) : Turn(o, n)[i] = o[Turned(n, i, p)]
              /\ \A i \in 1 .. n : i >= p => Less(o[n + 1], o[i])
              /\ p > 1 => ~Less(o[n + 1], o[p - 1])
<1>. DEFINE m == Len(o)
            s == SubSeq(o, 1, n)
            rest == SubSeq(o, n + 2, m)
            x == o[n + 1]
            new == Insert(s, x)
            p == PlaceOf(s, x)
            turned == Turn(o, n)
<1>1. m \in Nat /\ n < m /\ \A i \in 1 .. m : o[i] \in Records
  OBVIOUS
<1>2. s \in Seq(Records) /\ Len(s) = n /\ \A i \in 1 .. n : s[i] = o[i]
  BY <1>1, SubSeqProperties
<1>3. /\ rest \in Seq(Records) /\ Len(rest) = m - (n + 1)
      /\ \A i \in 1 .. m - (n + 1) : rest[i] = o[(n + 2 + i) - 1]
  BY <1>1, SubSeqProperties
<1>4. x \in Records
  BY <1>1
<1>. HIDE DEF m, s, rest, x, new, p, turned
<1>5. /\ p \in 1 .. n + 1 /\ new \in Seq(Records) /\ Len(new) = n + 1
      /\ \A i \in 1 .. n + 1 : /\ i < p => new[i] = s[i]
                               /\ i = p => new[i] = x
                               /\ i > p => new[i] = s[i - 1]
      /\ \A i \in 1 .. n : i >= p => Less(x, s[i])
      /\ p > 1 => ~Less(x, s[p - 1])
  <2>1. /\ p \in 1 .. Len(s) + 1 /\ new \in Seq(Records) /\ Len(new) = Len(s) + 1
        /\ \A i \in 1 .. Len(s) + 1 : /\ i < p => new[i] = s[i]
                                      /\ i = p => new[i] = x
                                      /\ i > p => new[i] = s[i - 1]
        /\ \A i \in 1 .. Len(s) : i >= p => Less(x, s[i])
        /\ p > 1 => ~Less(x, s[p - 1])
    BY <1>2, <1>4, InsertLemma, Zenon DEF p, new
  <2>. QED
    BY <1>2, <2>1
<1>6. turned = new \o rest
  BY DEF turned, Turn, m, s, rest, x, new
<1>7. /\ turned \in Seq(Records) /\ Len(turned) = m
      /\ \A i \in 1 .. m : turned[i] = IF i <= n + 1 THEN new[i] ELSE rest[i - (n + 1)]
  <2>1. /\ turned \in Seq(Records) /\ Len(turned) = Len(new) + Len(rest)
        /\ \A i \in 1 .. Len(new) + Len(rest) : turned[i] = IF i <= Len(new) THEN new[i] ELSE rest[i - Len(new)]
    <3>1. rest \in Seq(Records) /\ new \in Seq(Records)
      BY <1>3, <1>5
    <3>2. /\ (new \o rest) \in Seq(Records) /\ Len(new \o rest) = Len(new) + Len(rest)
          /\ \A i \in 1 .. Len(new) + Len(rest) :
                (new \o rest)[i] = IF i <= Len(new) THEN new[i] ELSE rest[i - Len(new)]
      BY <3>1, ConcatProperties
    <3>. QED
      BY <1>6, <3>2
  <2>2. Len(new) + Len(rest) = m
    BY <1>1, <1>3, <1>5
  <2>. QED
    BY <1>5, <2>1, <2>2
<1>8. ASSUME NEW i \in 1 .. m PROVE turned[i] = o[Turned(n, i, p)]
  <2>1. CASE i < p
    BY <1>1, <1>2, <1>5, <1>7, <2>1 DEF Turned
  <2>2. CASE i = p
    BY <1>1, <1>5, <1>7, <2>2 DEF Turned, x
  <2>3. CASE i > p /\ i <= n + 1
    <3>1. turned[i] = s[i - 1] /\ i - 1 \in 1 .. n
      BY <1>1, <1>5, <1>7, <2>3
    <3>. QED
      BY <1>1, <1>2, <1>5, <2>3, <3>1 DEF Turned
  <2>4. CASE i > n + 1
    <3>1. turned[i] = rest[i - (n + 1)] /\ i - (n + 1) \in 1 .. m - (n + 1)
      BY <1>1, <1>7, <2>4
    <3>2. rest[i - (n + 1)] = o[(n + 2 + (i - (n + 1))) - 1]
      BY <1>3, <3>1
    <3>3. (n + 2 + (i - (n + 1))) - 1 = i
      BY <1>1
    <3>. QED
      BY <1>1, <1>5, <2>4, <3>1, <3>2, <3>3 DEF Turned
  <2>. QED
    BY <1>1, <1>5, <2>1, <2>2, <2>3, <2>4
<1>9. \A i \in 1 .. n : i >= p => Less(x, o[i])
  BY <1>2, <1>5
<1>10. p > 1 => ~Less(x, o[p - 1])
  <2>1. p > 1 => p - 1 \in 1 .. n
    BY <1>5
  <2>. QED
    BY <1>2, <1>5, <2>1
<1>. QED
  BY <1>5, <1>7, <1>8, <1>9, <1>10 DEF m, x, turned

\* A turn keeps the list of transactions and sorts one more.
LEMMA TurnKeeps ==
    ASSUME Typing, Listed, next < Len(order), UNCHANGED recs,
           order' = Turn(order, next), next' = next + 1
    PROVE  /\ order' \in Seq(Records) /\ Len(order') = Len(order) /\ Listed'
           /\ Agreeing' => Agreeing
           /\ Agreeing /\ SortedTo(next) => SortedTo(next)'
<1>. DEFINE m == Len(order)
            x == order[next + 1]
<1>1. PICK p \in 1 .. next + 1 :
              /\ order' \in Seq(Records) /\ Len(order') = Len(order)
              /\ \A i \in 1 .. Len(order) : order'[i] = order[Turned(next, i, p)]
              /\ \A i \in 1 .. next : i >= p => Less(order[next + 1], order[i])
              /\ p > 1 => ~Less(order[next + 1], order[p - 1])
  <2>1. order \in Seq(Records) /\ next \in Nat \ {0}
    BY Constants DEF Typing
  <2>2. order' = Turn(order, next) /\ next < Len(order)
    OBVIOUS
  <2>3. \E p \in 1 .. next + 1 :
           /\ Turn(order, next) \in Seq(Records) /\ Len(Turn(order, next)) = Len(order)
           /\ \A i \in 1 .. Len(order) : Turn(order, next)[i] = order[Turned(next, i, p)]
           /\ \A i \in 1 .. next : i >= p => Less(order[next + 1], order[i])
           /\ p > 1 => ~Less(order[next + 1], order[p - 1])
    BY <2>1, <2>2, TurnLemma, Zenon
  <2>. QED
    BY <2>2, <2>3, Zenon
<1>2. next \in Nat \ {0} /\ m \in Nat /\ next < m /\ \A i \in 1 .. m : order[i] \in Records
  BY Constants DEF Typing
<1>. HIDE DEF m
<1>3. /\ \A i \in 1 .. m : Turned(next, i, p) \in 1 .. m
      /\ \A i, j \in 1 .. m : Turned(next, i, p) = Turned(next, j, p) => i = j
  BY <1>2 DEF Turned
<1>4. \A j \in 1 .. m : \E i \in 1 .. m : Turned(next, i, p) = j
  <2>. TAKE j \in 1 .. m
  <2>1. CASE j < p \/ j > next + 1
    BY <1>2, <2>1 DEF Turned
  <2>2. CASE j = next + 1
    BY <1>2, <2>2 DEF Turned
  <2>3. CASE j >= p /\ j < next + 1
    <3>1. j + 1 \in 1 .. m /\ Turned(next, j + 1, p) = j
      BY <1>2, <2>3 DEF Turned
    <3>. QED
      BY <3>1
  <2>. QED
    BY <1>2, <2>1, <2>2, <2>3
<1>5. \A i \in 1 .. m : order'[i] = order[Turned(next, i, p)]
  BY <1>1 DEF m
<1>6. Listed'
  <2>1. /\ \A i, j \in 1 .. m : order[i].hash = order[j].hash => i = j
        /\ Hashes(order, m) = DOMAIN recs
        /\ m = Cardinality(DOMAIN recs)
    BY DEF Listed, m
  <2>2. ASSUME NEW i \in 1 .. m, NEW j \in 1 .. m, order'[i].hash = order'[j].hash PROVE i = j
    <3>1. /\ Turned(next, i, p) \in 1 .. m /\ Turned(next, j, p) \in 1 .. m
          /\ order[Turned(next, i, p)].hash = order[Turned(next, j, p)].hash
      BY <1>3, <1>5, <2>2
    <3>2. Turned(next, i, p) = Turned(next, j, p)
      BY <2>1, <3>1
    <3>. QED
      BY <1>3, <3>2
  <2>3. Hashes(order', m) = Hashes(order, m)
    <3>1. \A i \in 1 .. m : \E j \in 1 .. m : order'[i].hash = order[j].hash
      BY <1>3, <1>5
    <3>2. \A j \in 1 .. m : \E i \in 1 .. m : order'[i].hash = order[j].hash
      BY <1>4, <1>5
    <3>3. ASSUME NEW h \in Hashes(order', m) PROVE h \in Hashes(order, m)
      <4>1. PICK i \in 1 .. m : h = order'[i].hash
        BY DEF Hashes
      <4>. QED
        BY <3>1, <4>1 DEF Hashes
    <3>4. ASSUME NEW h \in Hashes(order, m) PROVE h \in Hashes(order', m)
      <4>1. PICK i \in 1 .. m : h = order[i].hash
        BY DEF Hashes
      <4>. QED
        BY <3>2, <4>1 DEF Hashes
    <3>. QED
      BY <3>3, <3>4
  <2>. QED
    BY <1>1, <2>1, <2>2, <2>3 DEF Listed, m
<1>7. ASSUME Agreeing' PROVE Agreeing
  <2>. SUFFICES ASSUME NEW i \in 1 .. m, NEW j \in 1 .. m PROVE ~Clash(order[i], order[j])
    BY DEF Agreeing, m
  <2>1. PICK k \in 1 .. m : Turned(next, k, p) = i
    BY <1>4
  <2>2. PICK l \in 1 .. m : Turned(next, l, p) = j
    BY <1>4
  <2>3. ~Clash(order'[k], order'[l])
    BY <1>1, <1>7 DEF Agreeing, m
  <2>. QED
    BY <1>5, <2>1, <2>2, <2>3
<1>8. ASSUME Agreeing, SortedTo(next) PROVE SortedTo(next)'
  <2>1. \A i, j \in 1 .. m : ~Clash(order[i], order[j])
    BY <1>8 DEF Agreeing, m
  <2>2. \A i, j \in 1 .. m : i < j /\ j <= next => Less(order[i], order[j])
    BY <1>8 DEF SortedTo, m
  <2>3. \A i, j \in 1 .. m : i # j => order[i].hash # order[j].hash
    BY DEF Listed, m
  <2>4. x \in Records /\ next + 1 \in 1 .. m /\ \A i \in 1 .. next : i \in 1 .. m
    BY <1>2
  <2>5. ASSUME NEW i \in 1 .. next, i < p PROVE Less(order[i], x)
    <3>1. p - 1 \in 1 .. next /\ p - 1 # next + 1 /\ i <= p - 1
      BY <1>2, <2>5
    <3>2. Less(order[p - 1], x)
      <4>1. ~Less(x, order[p - 1])
        BY <1>1, <3>1
      <4>2. x.hash # order[p - 1].hash /\ ~Clash(x, order[p - 1])
        BY <2>1, <2>3, <2>4, <3>1
      <4>. QED
        BY <1>2, <2>4, <3>1, <4>1, <4>2, LessTotal
    <3>3. CASE i = p - 1
      BY <3>2, <3>3
    <3>4. CASE i < p - 1
      <4>1. Less(order[i], order[p - 1])
        BY <2>2, <2>4, <3>1, <3>4
      <4>2. ~Clash(order[i], order[p - 1]) /\ ~Clash(order[p - 1], x) /\ ~Clash(order[i], x)
        BY <2>1, <2>4, <3>1
      <4>3. order[i] \in Records /\ order[p - 1] \in Records
        BY <1>2, <2>4, <3>1
      <4>. QED
        BY <2>4, <3>2, <4>1, <4>2, <4>3, LessOrders
    <3>. QED
      BY <3>1, <3>3, <3>4
  <2>6. \A i \in 1 .. next : i >= p => Less(x, order[i])
    BY <1>1
  <2>7. ASSUME NEW i \in 1 .. m, NEW j \in 1 .. m, i < j, j <= next + 1
        PROVE  Less(order'[i], order'[j])
    <3>1. order'[i] = order[Turned(next, i, p)] /\ order'[j] = order[Turned(next, j, p)]
      BY <1>5
    <3>2. CASE j < p
      BY <1>2, <2>2, <2>7, <3>1, <3>2 DEF Turned
    <3>3. CASE j = p
      <4>1. Turned(next, i, p) = i /\ Turned(next, j, p) = next + 1 /\ i \in 1 .. next
        BY <1>2, <2>7, <3>3 DEF Turned
      <4>. QED
        BY <2>5, <2>7, <3>1, <3>3, <4>1
    <3>4. CASE j > p /\ i < p
      <4>1. Turned(next, i, p) = i /\ Turned(next, j, p) = j - 1 /\ j - 1 \in 1 .. m /\ i < j - 1 /\ j - 1 <= next
        BY <1>2, <2>7, <3>4 DEF Turned
      <4>. QED
        BY <2>2, <3>1, <4>1
    <3>5. CASE j > p /\ i = p
      <4>1. Turned(next, i, p) = next + 1 /\ Turned(next, j, p) = j - 1 /\ j - 1 \in 1 .. next /\ j - 1 >= p
        BY <1>2, <2>7, <3>5 DEF Turned
      <4>. QED
        BY <2>6, <3>1, <4>1
    <3>6. CASE j > p /\ i > p
      <4>1. Turned(next, i, p) = i - 1 /\ Turned(next, j, p) = j - 1
        BY <1>2, <2>7, <3>6 DEF Turned
      <4>2. i - 1 \in 1 .. m /\ j - 1 \in 1 .. m /\ i - 1 < j - 1 /\ j - 1 <= next
        BY <1>2, <2>7, <3>6
      <4>. QED
        BY <2>2, <3>1, <4>1, <4>2
    <3>. QED
      BY <2>7, <3>2, <3>3, <3>4, <3>5, <3>6
  <2>. QED
    BY <1>1, <2>7 DEF SortedTo, m
<1>. QED
  BY <1>1, <1>6, <1>7, <1>8 DEF m
-----------------------------------------------------------------------------
(* The steps.                                                                *)

\* The counters of a result are numbers: the sets are finite.
LEMMA RecordLemma ==
    ASSUME NEW t \in 1 .. Level, NEW rec \in Results
    PROVE  RecordOf(t, rec) \in Records /\ RecordOf(t, rec).hash = t
<1>. DEFINE keys == {BalanceKey, SubBalanceKey, NonceKey, CreatAccountKey, SetCodeKey, Slot}
            wkeys == UNION {{<<a, k>> : k \in Uses[rec.use[a]].writes} : a \in Account}
            readers == {e[1] : e \in Reads(rec)}
<1>1. \A u \in DOMAIN Uses : Uses[u].reads \subseteq keys /\ Uses[u].writes \subseteq keys
  BY DEF Uses
<1>2. \A a \in Account : rec.use[a] \in DOMAIN Uses
  BY ResultsAssumption
<1>3. IsFiniteSet(keys)
  <2>1. \A S, x : IsFiniteSet(S) => IsFiniteSet(S \cup {x})
    BY FS_AddElement
  <2>2. keys = ((((({} \cup {BalanceKey}) \cup {SubBalanceKey}) \cup {NonceKey}) \cup {CreatAccountKey}) \cup {SetCodeKey}) \cup {Slot}
    OBVIOUS
  <2>. HIDE DEF keys
  <2>. QED
    BY <2>1, <2>2, FS_EmptySet
<1>. HIDE DEF keys
<1>4. IsFiniteSet(Account \X keys)
  BY <1>3, Constants, FS_Product
<1>5. Writes(rec) \subseteq Account /\ readers \subseteq Account
  BY DEF Writes, Reads
<1>6. Reads(rec) \subseteq Account \X keys /\ wkeys \subseteq Account \X keys
  BY <1>1, <1>2 DEF Reads
<1>7. /\ Cardinality(Writes(rec)) \in Nat /\ Cardinality(readers) \in Nat
      /\ Cardinality(Reads(rec)) \in Nat /\ Cardinality(wkeys) \in Nat
  <2>1. \A S, T : IsFiniteSet(T) /\ S \subseteq T => Cardinality(S) \in Nat
    BY FS_Subset, FS_CardinalityType
  <2>. HIDE DEF readers, wkeys
  <2>. QED
    BY <1>4, <1>5, <1>6, <2>1, Constants
<1>8. RecordOf(t, rec) = [hash |-> t, w |-> Cardinality(Writes(rec)), wkeys |-> Cardinality(wkeys),
                          r |-> Cardinality(readers), rkeys |-> Cardinality(Reads(rec))]
  BY DEF RecordOf
<1>. HIDE DEF readers, wkeys
<1>. QED
  BY <1>7, <1>8 DEF Records

\* Before the first transaction the level is empty.
LEMMA LevelInit == Init => LevelInv
<1>. SUFFICES ASSUME Init PROVE LevelInv
  OBVIOUS
<1>1. DOMAIN NoEntries = {}
  BY DEF NoEntries
<1>2. Typing
  BY <1>1, Constants DEF Init, Typing, Phases
<1>3. Listed
  BY <1>1, FS_EmptySet DEF Init, Listed, Hashes
<1>4. Sorting
  BY DEF Init, Sorting, SortedTo
<1>5. MapsGood
  BY <1>1 DEF Init, MapsGood
<1>6. ObjectsGood
  <2>1. \A a \in Account : db[a] = <<a, 0>>
    BY DEF Init
  <2>2. db \in [Account -> Account \X Nat]
    BY DEF Init
  <2>. QED
    BY <1>1, <2>1, <2>2, FreshObject DEF Init, ObjectsGood
<1>7. Judged /\ Lent /\ Logged
  BY <1>1 DEF Init, Judged, Lent, Logged, Judging
<1>. QED
  BY <1>2, <1>3, <1>4, <1>5, <1>6, <1>7 DEF LevelInv

\* A result received is listed, unless it was already.
LEMMA SetCacheKeeps ==
    ASSUME LevelInv, NEW t \in 1 .. Level, NEW rec \in Results, SetCache(t, rec)
    PROVE  LevelInv'
<1>. USE DEF LevelInv
<1>. DEFINE x == RecordOf(t, rec)
<1>1. /\ phase = "collect" /\ phase' = phase /\ next = 1 /\ next' = next /\ received' = received + 1
      /\ maps' = maps /\ written' = written /\ accepted' = accepted /\ conflicts' = conflicts
      /\ db' = db /\ objs' = objs /\ fetched' = fetched /\ wLogs' = wLogs /\ logs' = logs
  BY DEF SetCache, Sorting
<1>2. x \in Records /\ x.hash = t
  BY RecordLemma
<1>3. order \in Seq(Records) /\ Len(order) \in Nat /\ DOMAIN order = 1 .. Len(order)
  BY DEF Typing
<1>4. t \in DOMAIN recs <=> \E i \in DOMAIN order : order[i].hash = x.hash
  BY <1>2, <1>3 DEF Listed, Hashes
<1>5. /\ recs' = IF t \in DOMAIN recs THEN recs ELSE Put(recs, t, rec)
      /\ order' = IF t \in DOMAIN recs THEN order ELSE Append(order, x)
  BY <1>4 DEF SetCache, Cached
<1>. HIDE DEF x
<1>6. CASE t \in DOMAIN recs
  <2>1. recs' = recs /\ order' = order
    BY <1>5, <1>6
  <2>2. Typing'
    BY <1>1, <2>1 DEF Typing
  <2>3. Listed'
    BY <2>1 DEF Listed
  <2>4. Sorting'
    BY <1>1 DEF Sorting, SortedTo
  <2>. QED
    BY <1>1, <2>2, <2>3, <2>4 DEF MapsGood, ObjectsGood, Judged, Lent, Logged, Judging
<1>7. CASE t \notin DOMAIN recs
  <2>1. recs' = Put(recs, t, rec) /\ order' = Append(order, x)
    BY <1>5, <1>7
  <2>2. /\ DOMAIN recs' = DOMAIN recs \cup {t} /\ recs'[t] = rec
        /\ \A u \in DOMAIN recs : recs'[u] = recs[u]
    <3>1. /\ DOMAIN Put(recs, t, rec) = DOMAIN recs \cup {t} /\ Put(recs, t, rec)[t] = rec
          /\ \A u \in DOMAIN recs : u # t => Put(recs, t, rec)[u] = recs[u]
      BY DEF Put
    <3>. QED
      BY <1>7, <2>1, <3>1
  <2>3. /\ order' \in Seq(Records) /\ Len(order') = Len(order) + 1 /\ order'[Len(order) + 1] = x
        /\ \A i \in 1 .. Len(order) : order'[i] = order[i]
    BY <1>2, <1>3, <2>1
  <2>4. Typing'
    <3>1. DOMAIN recs' \subseteq 1 .. Level /\ \A u \in DOMAIN recs' : recs'[u] \in Results
      BY <2>2 DEF Typing
    <3>. QED
      BY <1>1, <2>3, <3>1 DEF Typing
  <2>5. Listed'
    <3>1. \A i \in 1 .. Len(order) : order[i].hash \in DOMAIN recs
      BY DEF Listed, Hashes
    <3>2. \A i, j \in 1 .. Len(order') : order'[i].hash = order'[j].hash => i = j
      BY <1>2, <1>3, <1>7, <2>3, <3>1 DEF Listed
    <3>3. Hashes(order', Len(order')) = DOMAIN recs'
      <4>1. ASSUME NEW h \in Hashes(order', Len(order')) PROVE h \in DOMAIN recs'
        <5>1. PICK i \in 1 .. Len(order) + 1 : h = order'[i].hash
          BY <2>3 DEF Hashes
        <5>. QED
          BY <1>2, <1>3, <2>2, <2>3, <3>1, <5>1
      <4>2. ASSUME NEW h \in DOMAIN recs' PROVE h \in Hashes(order', Len(order'))
        <5>1. CASE h = t
          BY <1>2, <1>3, <2>3, <5>1 DEF Hashes
        <5>2. CASE h \in DOMAIN recs
          <6>1. PICK i \in 1 .. Len(order) : h = order[i].hash
            BY <5>2 DEF Listed, Hashes
          <6>. QED
            BY <1>3, <2>3, <6>1 DEF Hashes
        <5>. QED
          BY <2>2, <5>1, <5>2
      <4>. QED
        BY <4>1, <4>2
    <3>4. Len(order') = Cardinality(DOMAIN recs')
      <4>1. IsFiniteSet(DOMAIN recs)
        <5>1. IsFiniteSet(1 .. Level)
          BY Constants, FS_Interval
        <5>. QED
          BY <5>1, FS_Subset DEF Typing
      <4>. QED
        BY <1>7, <2>2, <2>3, <4>1, FS_AddElement DEF Listed
    <3>. QED
      BY <3>2, <3>3, <3>4 DEF Listed
  <2>6. Sorting'
    BY <1>1 DEF Sorting, SortedTo
  <2>. QED
    BY <1>1, <2>4, <2>5, <2>6 DEF MapsGood, ObjectsGood, Judged, Lent, Logged, Judging
<1>. QED
  BY <1>6, <1>7

\* A turn of the sort, and its end.
LEMMA SortKeeps == LevelInv /\ Sort => LevelInv'
<1>. SUFFICES ASSUME LevelInv, Sort PROVE LevelInv'
  OBVIOUS
<1>. USE DEF LevelInv
<1>1. /\ phase = "collect" /\ DOMAIN recs = 1 .. Level /\ received' = MaxArrivals
      /\ recs' = recs /\ written' = written /\ accepted' = accepted /\ conflicts' = conflicts
      /\ db' = db /\ objs' = objs /\ fetched' = fetched /\ wLogs' = wLogs /\ logs' = logs
  BY DEF Sort
<1>2. Len(order) = Level /\ next \in 1 .. Level + 1
  <2>1. Cardinality(1 .. Level) = Level
    BY Constants, FS_Interval
  <2>. QED
    BY <1>1, <2>1 DEF Listed, Typing
<1>3. CASE next < Len(order)
  <2>1. order' = Turn(order, next) /\ next' = next + 1 /\ phase' = phase /\ maps' = maps
    BY <1>3 DEF Sort, Typing
  <2>2. /\ order' \in Seq(Records) /\ Len(order') = Len(order) /\ Listed'
        /\ Agreeing' => Agreeing
        /\ Agreeing /\ SortedTo(next) => SortedTo(next)'
    <3>1. Typing /\ Listed /\ next < Len(order) /\ UNCHANGED recs /\ order' = Turn(order, next) /\ next' = next + 1
      BY <1>1, <1>3, <2>1
    <3>. QED
      BY <3>1, TurnKeeps, Zenon
  <2>3. Typing'
    BY <1>1, <1>2, <1>3, <2>1, <2>2, Constants DEF Typing
  <2>4. Sorting'
    BY <1>1, <1>2, <1>3, <2>1, <2>2, Constants DEF Sorting
  <2>. QED
    BY <1>1, <2>1, <2>2, <2>3, <2>4 DEF MapsGood, ObjectsGood, Judged, Lent, Logged, Judging
<1>4. CASE ~(next < Len(order))
  <2>1. /\ phase' = "detect" /\ next' = 1 /\ order' = order
        /\ maps' = [n \in {Own(t, a) : t \in 1 .. Level, a \in Account} |->
                       Written(n[1], recs[n[1]].use[n[2]], Fresh)]
    BY <1>4 DEF Sort, Typing
  <2>2. Typing'
    BY <1>1, <2>1, Constants DEF Typing, Phases
  <2>3. Listed'
    BY <1>1, <2>1 DEF Listed
  <2>4. Sorting'
    <3>1. Agreeing' => Agreeing
      BY <2>1 DEF Agreeing
    <3>2. SortedTo(next) => SortedTo(Len(order))'
      BY <1>2, <1>4, <2>1, Constants DEF SortedTo
    <3>. QED
      BY <1>1, <2>1, <3>1, <3>2 DEF Sorting
  <2>5. /\ DOMAIN maps' = {Own(t, a) : t \in 1 .. Level, a \in Account}
        /\ \A t \in 1 .. Level, a \in Account : maps'[Own(t, a)] = Written(t, recs[t].use[a], Fresh)
    <3>1. \A t, a : Own(t, a)[1] = t /\ Own(t, a)[2] = a
      BY DEF Own
    <3>. QED
      BY <2>1, <3>1
  <2>6. MapsGood'
    <3>1. \A n \in DOMAIN maps' : GoodMap(maps'[n])
      <4>. TAKE n \in DOMAIN maps'
      <4>1. PICK t \in 1 .. Level, a \in Account : n = Own(t, a)
        BY <2>5
      <4>. QED
        BY <2>5, <4>1, GoodWritten, FreshObject
    <3>. QED
      BY <1>1, <2>5, <3>1 DEF MapsGood, Judged
  <2>7. ObjectsGood'
    BY <1>1, <2>1 DEF ObjectsGood
  <2>8. Judged'
    <3>1. ToSet(<<>>) = {} /\ Hashes(order, 0) = {}
      BY DEF ToSet, Hashes
    <3>. QED
      BY <1>1, <2>1, <3>1 DEF Judged, Judging, Accepted, Conflicts, Hashes
  <2>9. Lent'
    BY <1>1, <2>1, <2>5 DEF Judged, Lent
  <2>10. Logged'
    <3>1. \A t \in 1 .. Level : \E i \in 1 .. Len(order) : order[i].hash = t
      BY <1>1 DEF Listed, Hashes
    <3>. QED
      BY <1>1, <2>1, <3>1 DEF Logged
  <2>. QED
    BY <2>2, <2>3, <2>4, <2>6, <2>7, <2>8, <2>9, <2>10
<1>. QED
  BY <1>3, <1>4

\* The members of a list, one appended or one taken off.
LEMMA AppendMembers ==
    ASSUME NEW S, NEW s \in Seq(S), NEW new \in Seq(S), NEW x,
           Len(new) = Len(s) + 1, new[Len(s) + 1] = x, \A i \in 1 .. Len(s) : new[i] = s[i]
    PROVE  ToSet(new) = ToSet(s) \cup {x}
<1>1. Len(s) \in Nat /\ DOMAIN s = 1 .. Len(s) /\ DOMAIN new = 1 .. Len(s) + 1
  OBVIOUS
<1>2. ASSUME NEW y \in ToSet(new) PROVE y \in ToSet(s) \cup {x}
  <2>1. PICK i \in 1 .. Len(s) + 1 : y = new[i]
    BY <1>1 DEF ToSet
  <2>. QED
    BY <1>1, <2>1 DEF ToSet
<1>3. ASSUME NEW y \in ToSet(s) PROVE y \in ToSet(new)
  <2>1. PICK i \in 1 .. Len(s) : y = s[i]
    BY <1>1 DEF ToSet
  <2>. QED
    BY <1>1, <2>1 DEF ToSet
<1>4. x \in ToSet(new)
  BY <1>1 DEF ToSet
<1>. QED
  BY <1>2, <1>3, <1>4

\* The members of a sequence over S are members of S.
LEMMA MembersOf ==
    ASSUME NEW S, NEW s \in Seq(S)
    PROVE  ToSet(s) \subseteq S /\ \A i \in DOMAIN s : s[i] \in S
  BY DEF ToSet

\* The members of a sequence are its head and those of its tail.
LEMMA TailMembers ==
    ASSUME NEW S, NEW s \in Seq(S), s # <<>>
    PROVE  /\ Head(s) \in S /\ Tail(s) \in Seq(S)
           /\ ToSet(s) = ToSet(Tail(s)) \cup {Head(s)}
<1>. DEFINE rest == Tail(s)
              x == Head(s)
<1>1. /\ x \in S /\ x = s[1] /\ rest \in Seq(S) /\ Len(s) \in Nat \ {0} /\ Len(rest) = Len(s) - 1
      /\ \A i \in 1 .. Len(s) - 1 : rest[i] = s[i + 1]
      /\ DOMAIN s = 1 .. Len(s) /\ DOMAIN rest = 1 .. Len(s) - 1
  OBVIOUS
<1>. HIDE DEF rest, x
<1>2. ASSUME NEW y \in ToSet(s) PROVE y \in ToSet(rest) \cup {x}
  <2>1. PICK i \in 1 .. Len(s) : y = s[i]
    BY <1>1 DEF ToSet
  <2>2. CASE i # 1
    <3>1. i - 1 \in 1 .. Len(s) - 1 /\ (i - 1) + 1 = i
      BY <1>1, <2>2 DEF ToSet
    <3>2. rest[i - 1] = y
      BY <1>1, <2>1, <3>1
    <3>. QED
      BY <1>1, <3>1, <3>2 DEF ToSet
  <2>. QED
    BY <1>1, <2>1, <2>2
<1>3. ASSUME NEW y \in ToSet(rest) PROVE y \in ToSet(s)
  <2>1. PICK i \in 1 .. Len(s) - 1 : y = rest[i]
    BY <1>1 DEF ToSet
  <2>2. i + 1 \in 1 .. Len(s) /\ y = s[i + 1]
    BY <1>1, <2>1 DEF ToSet
  <2>. QED
    BY <1>1, <2>2 DEF ToSet
<1>4. x \in ToSet(s)
  BY <1>1 DEF ToSet
<1>5. ToSet(s) = ToSet(rest) \cup {x}
  BY <1>2, <1>3, <1>4
<1>. QED
  BY <1>1, <1>5 DEF rest, x

\* What merging the writes of a transaction does to the maps: those of the
\* transactions neither accepted nor this one stay.
LEMMA AcceptMaps ==
    ASSUME MapsGood, Lent, phase = "detect", NEW t \in 1 .. Level, Accept(t)
    PROVE  /\ \A n \in DOMAIN maps' : GoodMap(maps'[n])
           /\ DOMAIN maps \subseteq DOMAIN maps'
           /\ DOMAIN written' \subseteq Account
           /\ \A a \in DOMAIN written' : written'[a] \in DOMAIN maps'
           /\ DOMAIN written \subseteq DOMAIN written'
           /\ \A a \in DOMAIN written' : \/ written'[a] \in {Own(t, a), Nonce(t, a)}
                                         \/ a \in DOMAIN written /\ written'[a] = written[a]
           /\ \A u \in (1 .. Level) \ Accepted, a \in Account :
                 u # t => maps'[Own(u, a)] = maps[Own(u, a)]
<1>. DEFINE ws == Writes(recs[t])
            from(n) == CHOOSE a \in ws : Target(t, a) = n
            merged == [n \in {Target(t, a) : a \in ws} |-> Merge(maps[n], maps[Own(t, from(n))])]
            keeping == {b \in ws : KeepsNonce(t, b)}
            nonces == [n \in {Nonce(t, a) : a \in keeping} |-> OnlyNonce(maps[Own(t, n[2])])]
            targets == [a \in ws |-> IF KeepsNonce(t, a) THEN Nonce(t, a) ELSE Target(t, a)]
<1>1. maps' = Merge(Merge(maps, merged), nonces) /\ written' = Merge(written, targets)
  BY DEF Accept
<1>2. ws \subseteq Account
  BY DEF Writes
<1>3. /\ \A n \in DOMAIN maps : GoodMap(maps[n])
      /\ \A u \in 1 .. Level, a \in Account : Own(u, a) \in DOMAIN maps
      /\ DOMAIN written \subseteq Account
      /\ \A a \in DOMAIN written : written[a] \in DOMAIN maps
      /\ \A a \in DOMAIN written : \E u \in Accepted : written[a] \in {Own(u, a), Nonce(u, a)}
  BY DEF MapsGood, Lent, Judging
<1>4. /\ DOMAIN merged = {Target(t, a) : a \in ws} /\ DOMAIN nonces = {Nonce(t, a) : a \in keeping}
      /\ DOMAIN targets = ws
      /\ \A a \in ws : targets[a] = IF KeepsNonce(t, a) THEN Nonce(t, a) ELSE Target(t, a)
      /\ \A n \in DOMAIN merged : merged[n] = Merge(maps[n], maps[Own(t, from(n))])
      /\ \A n \in DOMAIN nonces : nonces[n] = OnlyNonce(maps[Own(t, n[2])])
  OBVIOUS
<1>5. \A a \in ws : Target(t, a) \in DOMAIN maps
  BY <1>2, <1>3 DEF Target
<1>6. \A n \in DOMAIN merged : from(n) \in Account /\ n \in DOMAIN maps
  <2>. TAKE n \in DOMAIN merged
  <2>1. PICK a \in ws : Target(t, a) = n
    BY <1>4
  <2>2. from(n) \in ws
    BY <2>1
  <2>. QED
    BY <1>2, <1>5, <2>1, <2>2
<1>7. \A n \in DOMAIN nonces : n[2] \in Account
  <2>1. \A a : Nonce(t, a)[2] = a
    BY DEF Nonce
  <2>. QED
    BY <1>2, <1>4, <2>1
<1>. HIDE DEF ws, from, merged, keeping, nonces, targets
<1>8. \A n \in DOMAIN merged : GoodMap(merged[n])
  BY <1>3, <1>4, <1>6, GoodMerge
<1>9. \A n \in DOMAIN nonces : GoodMap(nonces[n])
  BY <1>3, <1>4, <1>7, GoodNonce
<1>10. /\ DOMAIN maps' = DOMAIN maps \cup DOMAIN merged \cup DOMAIN nonces
       /\ \A n \in DOMAIN maps' : maps'[n] = IF n \in DOMAIN nonces THEN nonces[n]
                                             ELSE IF n \in DOMAIN merged THEN merged[n] ELSE maps[n]
  BY <1>1 DEF Merge
<1>11. /\ DOMAIN written' = DOMAIN written \cup ws
       /\ \A a \in DOMAIN written' : written'[a] = IF a \in ws THEN targets[a] ELSE written[a]
  BY <1>1, <1>4 DEF Merge
<1>12. \A n \in DOMAIN maps' : GoodMap(maps'[n])
  BY <1>3, <1>8, <1>9, <1>10
<1>13. \A a \in ws : KeepsNonce(t, a) => Nonce(t, a) \in DOMAIN nonces
  BY <1>4 DEF keeping
<1>14. \A a \in DOMAIN written' : written'[a] \in DOMAIN maps'
  BY <1>3, <1>4, <1>5, <1>10, <1>11, <1>13
<1>15. \A a \in DOMAIN written' : \/ written'[a] \in {Own(t, a), Nonce(t, a)}
                                  \/ a \in DOMAIN written /\ written'[a] = written[a]
  BY <1>4, <1>11 DEF Target
<1>16. ASSUME NEW u \in (1 .. Level) \ Accepted, NEW a \in Account, u # t
       PROVE  maps'[Own(u, a)] = maps[Own(u, a)]
  <2>1. \A v, b : /\ Own(u, a) = Own(v, b) => v = u
                  /\ Own(u, a) # Nonce(v, b)
    BY DEF Own, Nonce
  <2>2. Own(u, a) \notin DOMAIN nonces
    BY <1>4, <2>1
  <2>3. Own(u, a) \notin DOMAIN merged
    <3>1. ASSUME NEW b \in ws, Own(u, a) = Target(t, b) PROVE FALSE
      BY <1>3, <1>16, <2>1, <3>1 DEF Target
    <3>. QED
      BY <1>4, <3>1
  <2>. QED
    BY <1>3, <1>10, <2>2, <2>3
<1>. QED
  BY <1>2, <1>3, <1>10, <1>11, <1>12, <1>14, <1>15, <1>16

\* A turn of DetectConflicts.
LEMMA DetectKeeps == LevelInv /\ Detect => LevelInv'
<1>. SUFFICES ASSUME LevelInv, Detect PROVE LevelInv'
  OBVIOUS
<1>. USE DEF LevelInv
<1>. DEFINE t == order[next].hash
<1>1. /\ phase = "detect" /\ phase' = phase /\ next <= Len(order) /\ next' = next + 1
      /\ recs' = recs /\ received' = received /\ order' = order /\ db' = db /\ objs' = objs
      /\ fetched' = fetched /\ logs' = logs
  BY DEF Detect
<1>2. /\ order \in Seq(Records) /\ Len(order) \in Nat /\ next \in 1 .. Level + 1
      /\ accepted \in Seq(1 .. Level) /\ conflicts \in Seq(1 .. Level)
      /\ Len(accepted) \in Nat /\ Len(conflicts) \in Nat
  BY DEF Typing
<1>3. Len(order) = Level /\ DOMAIN recs = 1 .. Level
  <2>1. Cardinality(1 .. Level) = Level
    BY Constants, FS_Interval
  <2>. QED
    BY <1>1, <2>1 DEF Listed, Typing
<1>4. next \in 1 .. Len(order) /\ t \in 1 .. Level
  <2>1. next \in 1 .. Len(order)
    BY <1>1, <1>2
  <2>2. order[next] \in Records
    BY <1>2, <2>1
  <2>. QED
    BY <2>1, <2>2 DEF Records
<1>5. t \notin Hashes(order, next - 1) /\ Hashes(order, next) = Hashes(order, next - 1) \cup {t}
  <2>1. \A i \in 1 .. next - 1 : i \in 1 .. Len(order) /\ i # next
    BY <1>1, <1>2
  <2>2. t \notin Hashes(order, next - 1)
    BY <1>4, <2>1 DEF Hashes, Listed
  <2>3. 1 .. next = (1 .. next - 1) \cup {next}
    BY <1>2
  <2>. QED
    BY <2>2, <2>3 DEF Hashes
<1>6. /\ Len(accepted) + Len(conflicts) = next - 1
      /\ Accepted \cup Conflicts = Hashes(order, next - 1) /\ Accepted \cap Conflicts = {}
  BY <1>1 DEF Judged, Judging
<1>. HIDE DEF t
<1>7. Listed' /\ ObjectsGood' /\ Sorting'
  <2>1. DOMAIN written \subseteq DOMAIN written' /\ Listed' /\ Sorting'
    <3>1. Listed' /\ Sorting'
      BY <1>1 DEF Listed, Sorting, Agreeing, SortedTo
    <3>2. CASE HasConflict(order[next].hash)
      BY <3>1, <3>2 DEF Detect
    <3>3. CASE ~HasConflict(order[next].hash)
      BY <1>1, <1>4, <3>1, <3>3, AcceptMaps DEF Detect, t
    <3>. QED
      BY <3>2, <3>3
  <2>. QED
    BY <1>1, <2>1 DEF ObjectsGood
<1>8. CASE HasConflict(t)
  <2>1. /\ conflicts' = Append(conflicts, t) /\ maps' = maps /\ written' = written
        /\ wLogs' = wLogs /\ accepted' = accepted
    BY <1>8 DEF Detect, t
  <2>2. /\ conflicts' \in Seq(1 .. Level) /\ Len(conflicts') = Len(conflicts) + 1
        /\ Conflicts' = Conflicts \cup {t} /\ Accepted' = Accepted
    <3>1. conflicts \in Seq(1 .. Level) /\ t \in 1 .. Level
      BY <1>2, <1>4
    <3>2. /\ conflicts' \in Seq(1 .. Level) /\ Len(conflicts') = Len(conflicts) + 1
          /\ conflicts'[Len(conflicts) + 1] = t /\ \A i \in 1 .. Len(conflicts) : conflicts'[i] = conflicts[i]
      BY <2>1, <3>1
    <3>3. ToSet(conflicts') = ToSet(conflicts) \cup {t}
      BY <3>1, <3>2, AppendMembers
    <3>. QED
      BY <2>1, <3>2, <3>3, Zenon DEF Conflicts, Accepted
  <2>3. Typing'
    BY <1>1, <1>2, <1>3, <2>1, <2>2 DEF Typing
  <2>4. MapsGood'
    BY <1>1, <2>1 DEF MapsGood
  <2>5. Judged'
    BY <1>1, <1>2, <1>5, <1>6, <2>1, <2>2 DEF Judged, Judging
  <2>6. Lent'
    BY <1>1, <2>1, <2>2 DEF Lent, Judging
  <2>7. Logged'
    <3>1. ASSUME NEW u \in 1 .. Level
          PROVE  \/ \E i \in next + 1 .. Len(order) : order[i].hash = u
                 \/ u \in Conflicts' \/ u \in wLogs \/ Writes(recs[u]) = {}
      <4>1. CASE \E i \in next .. Len(order) : order[i].hash = u
        BY <1>2, <2>2, <4>1 DEF t
      <4>. QED
        BY <1>1, <2>2, <4>1 DEF Logged
    <3>. QED
      BY <1>1, <2>1, <3>1 DEF Logged
  <2>. QED
    BY <1>7, <2>3, <2>4, <2>5, <2>6, <2>7
<1>9. CASE ~HasConflict(t)
  <2>1. Accept(t) /\ conflicts' = conflicts
    BY <1>9 DEF Detect, t
  <2>2. accepted' = Append(accepted, t) /\ wLogs' = IF Writes(recs[t]) = {} THEN wLogs ELSE wLogs \cup {t}
    BY <2>1 DEF Accept
  <2>3. /\ accepted' \in Seq(1 .. Level) /\ Len(accepted') = Len(accepted) + 1
        /\ Accepted' = Accepted \cup {t} /\ Conflicts' = Conflicts
    <3>1. accepted \in Seq(1 .. Level) /\ t \in 1 .. Level
      BY <1>2, <1>4
    <3>2. /\ accepted' \in Seq(1 .. Level) /\ Len(accepted') = Len(accepted) + 1
          /\ accepted'[Len(accepted) + 1] = t /\ \A i \in 1 .. Len(accepted) : accepted'[i] = accepted[i]
      BY <2>2, <3>1
    <3>3. ToSet(accepted') = ToSet(accepted) \cup {t}
      BY <3>1, <3>2, AppendMembers
    <3>. QED
      BY <2>1, <2>2, <3>2, <3>3, Zenon DEF Conflicts, Accepted
  <2>4. /\ \A n \in DOMAIN maps' : GoodMap(maps'[n])
        /\ DOMAIN maps \subseteq DOMAIN maps'
        /\ DOMAIN written' \subseteq Account
        /\ \A a \in DOMAIN written' : written'[a] \in DOMAIN maps'
        /\ DOMAIN written \subseteq DOMAIN written'
        /\ \A a \in DOMAIN written' : \/ written'[a] \in {Own(t, a), Nonce(t, a)}
                                      \/ a \in DOMAIN written /\ written'[a] = written[a]
        /\ \A u \in (1 .. Level) \ Accepted, a \in Account :
              u # t => maps'[Own(u, a)] = maps[Own(u, a)]
    <3>1. MapsGood /\ Lent /\ phase = "detect" /\ t \in 1 .. Level /\ Accept(t)
      BY <1>1, <1>4, <2>1
    <3>. QED
      BY <3>1, AcceptMaps
  <2>5. Typing'
    BY <1>1, <1>2, <1>3, <1>4, <2>1, <2>2, <2>3 DEF Typing
  <2>6. MapsGood'
    BY <1>1, <2>4 DEF MapsGood
  <2>7. Judged'
    BY <1>1, <1>2, <1>5, <1>6, <2>1, <2>3 DEF Judged, Judging
  <2>8. Lent'
    BY <1>1, <2>3, <2>4 DEF Lent, Judging
  <2>9. Logged'
    <3>1. ASSUME NEW u \in 1 .. Level
          PROVE  \/ \E i \in next + 1 .. Len(order) : order[i].hash = u
                 \/ u \in Conflicts' \/ u \in wLogs' \/ Writes(recs[u]) = {}
      <4>1. CASE \E i \in next .. Len(order) : order[i].hash = u
        <5>1. PICK i \in next .. Len(order) : order[i].hash = u
          BY <4>1
        <5>2. CASE i = next
          BY <2>2, <5>1, <5>2 DEF t
        <5>3. CASE i # next
          <6>1. i \in next + 1 .. Len(order)
            BY <1>2, <5>3
          <6>. QED
            BY <5>1, <6>1
        <5>. QED
          BY <5>2, <5>3
      <4>. QED
        BY <1>1, <2>2, <2>3, <4>1 DEF Logged
    <3>. QED
      BY <1>1, <2>1, <3>1 DEF Logged
  <2>. QED
    BY <1>7, <2>5, <2>6, <2>7, <2>8, <2>9
<1>. QED
  BY <1>8, <1>9

\* The level turns to commit: every account written has an object to fetch.
LEMMA FetchKeeps == LevelInv /\ Fetch => LevelInv'
<1>. SUFFICES ASSUME LevelInv, Fetch PROVE LevelInv'
  OBVIOUS
<1>. USE DEF LevelInv
<1>1. /\ phase \in {"detect", "redone"} /\ next > Len(order)
      /\ fetched' = [a \in DOMAIN written |-> db[a]]
      /\ phase' \in {"stuck", "commit", "recommit"}
      /\ phase' = "stuck" => DOMAIN written = {}
      /\ phase' = "commit" => phase = "detect"
      /\ recs' = recs /\ received' = received /\ order' = order /\ maps' = maps /\ written' = written
      /\ next' = next /\ accepted' = accepted /\ conflicts' = conflicts /\ db' = db /\ objs' = objs
      /\ wLogs' = wLogs /\ logs' = logs
  BY DEF Fetch, NoEntries
<1>2. Typing' /\ Listed' /\ Sorting'
  BY <1>1 DEF Typing, Phases, Listed, Sorting
<1>3. MapsGood'
  BY <1>1 DEF MapsGood
<1>4. ObjectsGood'
  <2>1. DOMAIN written \subseteq Account
    BY DEF MapsGood
  <2>2. DOMAIN fetched' = DOMAIN written /\ \A a \in DOMAIN written : fetched'[a] = db[a]
    BY <1>1
  <2>3. phase' \notin {"commit", "recommit"} => DOMAIN fetched' = {}
    BY <1>1, <2>2
  <2>4. db' \in [Account -> Account \X Nat] /\ \A o \in DOMAIN objs' : objs'[o] \in Object
    BY <1>1 DEF ObjectsGood
  <2>5. \A a \in Account : db[a] \in DOMAIN objs
    BY DEF ObjectsGood
  <2>. QED
    BY <1>1, <2>1, <2>2, <2>3, <2>4, <2>5 DEF ObjectsGood
<1>5. Judged' /\ Lent'
  BY <1>1 DEF Judged, Lent, Judging, Accepted, Conflicts
<1>6. Logged'
  BY <1>1 DEF Logged, Conflicts
<1>. QED
  BY <1>2, <1>3, <1>4, <1>5, <1>6

\* An object arrives: the setters keep objects objects, and the account's object
\* exists before the account refers to it.
LEMMA CommitAccountKeeps ==
    ASSUME LevelInv, NEW a \in Account, CommitAccount(a)
    PROVE  LevelInv'
<1>. USE DEF LevelInv
<1>. DEFINE m == maps[written[a]]
            new == <<a, db[a][2] + 1>>
            made == Recreated(objs[db[a]])
            changed == Updated(objs[fetched[a]], m)
            created == CreatAccountKey \in DOMAIN m
<1>1. /\ phase \in {"commit", "recommit"} /\ a \in DOMAIN fetched /\ phase' = phase
      /\ objs' = IF created THEN Put(Put(objs, new, made), fetched[a], changed)
                 ELSE Put(objs, fetched[a], changed)
      /\ db' = IF created THEN [db EXCEPT ![a] = new] ELSE db
      /\ fetched' = [b \in DOMAIN fetched \ {a} |-> fetched[b]]
      /\ recs' = recs /\ received' = received /\ order' = order /\ maps' = maps /\ written' = written
      /\ next' = next /\ accepted' = accepted /\ conflicts' = conflicts
      /\ wLogs' = wLogs /\ logs' = logs
  BY DEF CommitAccount
<1>2. /\ db \in [Account -> Account \X Nat] /\ \A o \in DOMAIN objs : objs[o] \in Object
      /\ \A b \in Account : db[b] \in DOMAIN objs
      /\ DOMAIN fetched \subseteq DOMAIN written
      /\ \A b \in DOMAIN fetched : fetched[b] \in DOMAIN objs
      /\ \A n \in DOMAIN maps : GoodMap(maps[n])
      /\ \A b \in DOMAIN written : written[b] \in DOMAIN maps
  BY DEF ObjectsGood, MapsGood
<1>3. new \in Account \X Nat
  BY <1>2
<1>4. made \in Object /\ changed \in Object
  <2>1. GoodMap(m) /\ objs[db[a]] \in Object /\ objs[fetched[a]] \in Object
    BY <1>1, <1>2
  <2>. HIDE DEF m
  <2>. QED
    BY <2>1, GoodUpdate
<1>. HIDE DEF m, new, made, changed, created
<1>5. ObjectsGood'
  <2>1. db' \in [Account -> Account \X Nat] /\ \A b \in Account : db'[b] = IF created /\ b = a THEN new ELSE db[b]
    BY <1>1, <1>2, <1>3
  <2>2. DOMAIN objs' = DOMAIN objs \cup {fetched[a]} \cup (IF created THEN {new} ELSE {})
    BY <1>1 DEF Put
  <2>3. \A o \in DOMAIN objs' : objs'[o] \in Object
    <3>1. CASE created
      BY <1>1, <1>2, <1>4, <3>1 DEF Put
    <3>2. CASE ~created
      BY <1>1, <1>2, <1>4, <3>2 DEF Put
    <3>. QED
      BY <3>1, <3>2
  <2>4. \A b \in Account : db'[b] \in DOMAIN objs'
    BY <1>2, <2>1, <2>2
  <2>5. DOMAIN fetched' = DOMAIN fetched \ {a} /\ \A b \in DOMAIN fetched' : fetched'[b] = fetched[b]
    BY <1>1
  <2>. QED
    BY <1>1, <1>2, <2>1, <2>2, <2>3, <2>4, <2>5 DEF ObjectsGood
<1>6. Typing' /\ Listed' /\ Sorting'
  BY <1>1 DEF Typing, Listed, Sorting
<1>7. MapsGood'
  BY <1>1 DEF MapsGood
<1>8. Judged' /\ Lent' /\ Logged'
  BY <1>1 DEF Judged, Lent, Judging, Accepted, Conflicts, Logged
<1>. QED
  BY <1>5, <1>6, <1>7, <1>8

\* The logs of all transactions in wLogs are added.
LEMMA AddLogsKeeps == LevelInv /\ AddLogs => LevelInv'
<1>. SUFFICES ASSUME LevelInv, AddLogs PROVE LevelInv'
  OBVIOUS
<1>. USE DEF LevelInv
<1>1. /\ phase \in {"commit", "recommit"} /\ DOMAIN fetched = {}
      /\ logs' = [t \in 1 .. Level |-> logs[t] + (IF t \in wLogs THEN 1 ELSE 0)]
      /\ phase' \in {"committed", "redo"}
      /\ phase' = "committed" => phase = "commit"
      /\ recs' = recs /\ received' = received /\ order' = order /\ maps' = maps /\ written' = written
      /\ next' = next /\ accepted' = accepted /\ conflicts' = conflicts /\ db' = db /\ objs' = objs
      /\ fetched' = fetched /\ wLogs' = wLogs
  BY DEF AddLogs, NoEntries
<1>2. logs' \in [1 .. Level -> Nat] /\ \A t \in wLogs : logs'[t] >= 1
  <2>1. \A t \in 1 .. Level : logs[t] \in Nat /\ logs'[t] = logs[t] + (IF t \in wLogs THEN 1 ELSE 0)
    BY <1>1 DEF Typing
  <2>2. wLogs \subseteq 1 .. Level
    BY DEF Typing
  <2>3. \A t \in 1 .. Level : logs'[t] \in Nat
    BY <2>1
  <2>. QED
    BY <1>1, <2>1, <2>2, <2>3
<1>3. Typing' /\ Listed' /\ Sorting'
  BY <1>1, <1>2 DEF Typing, Phases, Listed, Sorting
<1>4. MapsGood' /\ ObjectsGood'
  BY <1>1 DEF MapsGood, ObjectsGood
<1>5. Judged' /\ Lent'
  BY <1>1 DEF Judged, Lent, Judging, Accepted, Conflicts
<1>6. Logged'
  BY <1>1, <1>2 DEF Logged, Conflicts
<1>. QED
  BY <1>3, <1>4, <1>5, <1>6

\* A conflicting transaction is executed again, or the process ends.
LEMMA RedoKeeps == LevelInv /\ Redo => LevelInv'
<1>. SUFFICES ASSUME LevelInv, Redo PROVE LevelInv'
  OBVIOUS
<1>. USE DEF LevelInv
<1>. DEFINE t == Head(conflicts)
<1>1. /\ phase \in {"committed", "redo"} /\ conflicts # <<>>
      /\ received' = received /\ order' = order /\ next' = next /\ accepted' = accepted
      /\ db' = db /\ objs' = objs /\ fetched' = fetched /\ logs' = logs
  BY DEF Redo
<1>2. t \in 1 .. Level /\ Tail(conflicts) \in Seq(1 .. Level) /\ Conflicts = ToSet(Tail(conflicts)) \cup {t}
  <2>1. conflicts \in Seq(1 .. Level)
    BY DEF Typing
  <2>. QED
    BY <1>1, <2>1, TailMembers DEF Conflicts
<1>3. DOMAIN recs = 1 .. Level
  BY <1>1 DEF Typing
<1>4. ASSUME NEW rec \in Results,
             recs' = [recs EXCEPT ![t] = rec],
             maps' = Merge(maps, [n \in {Own(t, a) : a \in Account} |->
                        LET m == Written(t, rec.use[n[2]], objs[db[n[2]]])
                        IN  IF rec.failed /\ NonceKey \in DOMAIN m THEN OnlyNonce(m) ELSE m]),
             written' = [a \in Writes(rec) |-> Own(t, a)], wLogs' = wLogs \cup {t},
             conflicts' = Tail(conflicts), phase' = "redone"
      PROVE  LevelInv'
  <2>. DEFINE value(n) == LET m == Written(t, rec.use[n[2]], objs[db[n[2]]])
                          IN  IF rec.failed /\ NonceKey \in DOMAIN m THEN OnlyNonce(m) ELSE m
              remade == [n \in {Own(t, a) : a \in Account} |-> value(n)]
  <2>1. \A n \in {Own(t, a) : a \in Account} : GoodMap(value(n))
    <3>. TAKE n \in {Own(t, a) : a \in Account}
    <3>1. n[2] \in Account
      BY DEF Own
    <3>2. objs[db[n[2]]] \in Object
      BY <3>1 DEF ObjectsGood
    <3>3. GoodMap(Written(t, rec.use[n[2]], objs[db[n[2]]]))
      BY <1>2, <3>2, GoodWritten
    <3>. QED
      BY <3>3, GoodNonce
  <2>2. maps' = Merge(maps, remade)
    BY <1>4
  <2>3. DOMAIN remade = {Own(t, a) : a \in Account} /\ \A n \in DOMAIN remade : remade[n] = value(n)
    OBVIOUS
  <2>. HIDE DEF value, remade, t
  <2>4. /\ DOMAIN maps' = DOMAIN maps \cup DOMAIN remade
        /\ \A n \in DOMAIN maps' : maps'[n] = IF n \in DOMAIN remade THEN remade[n] ELSE maps[n]
    BY <2>2 DEF Merge
  <2>5. Writes(rec) \subseteq Account
    BY DEF Writes
  <2>6. MapsGood'
    <3>1. \A n \in DOMAIN maps' : GoodMap(maps'[n])
      BY <2>1, <2>3, <2>4 DEF MapsGood
    <3>2. \A u \in 1 .. Level, a \in Account : Own(u, a) \in DOMAIN maps'
      BY <1>1, <2>4 DEF MapsGood
    <3>3. DOMAIN written' \subseteq Account /\ \A a \in DOMAIN written' : written'[a] \in DOMAIN maps'
      BY <1>4, <2>3, <2>4, <2>5
    <3>. QED
      BY <3>1, <3>2, <3>3 DEF MapsGood
  <2>7. DOMAIN recs' = DOMAIN recs /\ \A u \in DOMAIN recs : recs'[u] = IF u = t THEN rec ELSE recs[u]
    BY <1>2, <1>3, <1>4
  <2>8. Typing'
    <3>1. \A u \in DOMAIN recs' : recs'[u] \in Results
      BY <2>7 DEF Typing
    <3>. QED
      BY <1>1, <1>2, <1>3, <1>4, <2>7, <3>1 DEF Typing, Phases
  <2>9. Listed'
    BY <1>1, <2>7 DEF Listed
  <2>10. Sorting' /\ Judged' /\ Lent'
    BY <1>1, <1>4 DEF Sorting, Judged, Lent, Judging
  <2>11. ObjectsGood'
    <3>1. DOMAIN fetched = {}
      BY <1>1 DEF ObjectsGood
    <3>. QED
      BY <1>1, <1>4, <3>1 DEF ObjectsGood
  <2>12. Logged'
    <3>1. ASSUME NEW u \in 1 .. Level
          PROVE  \/ \E i \in next .. Len(order) : order[i].hash = u
                 \/ u \in Conflicts' \/ u \in wLogs' \/ Writes(recs'[u]) = {}
      <4>1. Conflicts = Conflicts' \cup {t}
        BY <1>2, <1>4 DEF Conflicts
      <4>. QED
        BY <1>1, <1>3, <1>4, <2>7, <4>1 DEF Logged
    <3>. QED
      BY <1>1, <1>4, <3>1 DEF Logged
  <2>. QED
    BY <2>6, <2>8, <2>9, <2>10, <2>11, <2>12
<1>5. ASSUME phase' = "crashed",
             UNCHANGED <<recs, received, order, maps, written, wLogs, conflicts>>
      PROVE  LevelInv'
  <2>1. Typing' /\ Listed' /\ Sorting'
    BY <1>1, <1>5 DEF Typing, Phases, Listed, Sorting
  <2>2. MapsGood' /\ ObjectsGood'
    BY <1>1, <1>5 DEF MapsGood, ObjectsGood
  <2>3. Judged' /\ Lent' /\ Logged'
    BY <1>1, <1>5 DEF Judged, Lent, Judging, Logged, Conflicts
  <2>. QED
    BY <2>1, <2>2, <2>3
<1>. QED
  BY <1>4, <1>5, Zenon DEF Redo

\* Nothing is left to execute again.
LEMMA ReturnKeeps == LevelInv /\ Return => LevelInv'
<1>. SUFFICES ASSUME LevelInv, Return PROVE LevelInv'
  OBVIOUS
<1>. USE DEF LevelInv
<1>1. /\ phase \in {"committed", "redo"} /\ conflicts = <<>> /\ phase' = "done"
      /\ recs' = recs /\ received' = received /\ order' = order /\ maps' = maps /\ written' = written
      /\ next' = next /\ accepted' = accepted /\ conflicts' = conflicts /\ db' = db /\ objs' = objs
      /\ fetched' = fetched /\ wLogs' = wLogs /\ logs' = logs
  BY DEF Return
<1>2. Typing' /\ Listed' /\ Sorting'
  BY <1>1 DEF Typing, Phases, Listed, Sorting
<1>3. MapsGood' /\ ObjectsGood'
  BY <1>1 DEF MapsGood, ObjectsGood
<1>4. Judged' /\ Lent' /\ Logged'
  BY <1>1 DEF Judged, Lent, Judging, Logged, Conflicts
<1>. QED
  BY <1>2, <1>3, <1>4

\* Every step keeps the invariant.
LEMMA LevelStep == LevelInv /\ [Next]_vars => LevelInv'
<1>. SUFFICES ASSUME LevelInv, [Next]_vars PROVE LevelInv'
  OBVIOUS
<1>1. ASSUME NEW t \in 1 .. Level, NEW rec \in Results, SetCache(t, rec) PROVE LevelInv'
  BY <1>1, SetCacheKeeps
<1>2. CASE Sort
  BY <1>2, SortKeeps
<1>3. CASE Detect
  BY <1>3, DetectKeeps
<1>4. CASE Fetch
  BY <1>4, FetchKeeps
<1>5. ASSUME NEW a \in Account, CommitAccount(a) PROVE LevelInv'
  BY <1>5, CommitAccountKeeps
<1>6. CASE AddLogs
  BY <1>6, AddLogsKeeps
<1>7. CASE Redo
  BY <1>7, RedoKeeps
<1>8. CASE Return
  BY <1>8, ReturnKeeps
<1>9. CASE UNCHANGED vars
  <2>. USE <1>9 DEF vars
  <2>1. Typing' /\ Listed' /\ Sorting'
    BY DEF LevelInv, Typing, Listed, Sorting, Agreeing, SortedTo
  <2>2. MapsGood' /\ ObjectsGood'
    BY DEF LevelInv, MapsGood, ObjectsGood
  <2>3. Judged' /\ Lent' /\ Logged'
    BY DEF LevelInv, Judged, Lent, Judging, Logged, Conflicts, Accepted
  <2>. QED
    BY <2>1, <2>2, <2>3 DEF LevelInv
<1>. QED
  BY <1>1, <1>2, <1>3, <1>4, <1>5, <1>6, <1>7, <1>8, <1>9 DEF Next

\* The inductive invariant holds of every behaviour of the level.
THEOREM LevelInvariance == Spec => []LevelInv
<1>1. Init => LevelInv
  BY LevelInit
<1>2. LevelInv /\ [Next]_vars => LevelInv'
  BY LevelStep
<1>. QED
  BY <1>1, <1>2, PTL DEF Spec
-----------------------------------------------------------------------------
(* The properties of the level.                                              *)

\* The state keeps its types: accounts have objects, written accounts have maps,
\* whatever is merged, created or executed again (process.go:488-559).
THEOREM LevelTypeCorrect == Spec => []TypeOK
<1>1. LevelInv => TypeOK
  <2>. SUFFICES ASSUME LevelInv PROVE TypeOK
    OBVIOUS
  <2>1. Accepted \subseteq 1 .. Level
    <3>1. accepted \in Seq(1 .. Level)
      BY DEF LevelInv, Typing
    <3>. QED
      BY <3>1, MembersOf DEF Accepted
  <2>2. \A a \in Account : State(a) \in Object
    BY DEF LevelInv, ObjectsGood, State
  <2>. QED
    <3>1. phase \in Phases /\ next \in 1 .. Level + 1 /\ wLogs \subseteq 1 .. Level
      BY DEF LevelInv, Typing
    <3>2. /\ db \in [Account -> Account \X Nat]
          /\ DOMAIN written \subseteq Account /\ \A a \in DOMAIN written : written[a] \in DOMAIN maps
          /\ DOMAIN fetched \subseteq DOMAIN written
      BY DEF LevelInv, ObjectsGood, MapsGood
    <3>. QED
      BY <2>1, <2>2, <3>1, <3>2, Zenon DEF TypeOK, Phases
<1>. QED
  BY <1>1, LevelInvariance, PTL

\* When the commit begins every transaction is accepted or in conflict, once.
LEMMA AllJudged ==
    ASSUME LevelInv, phase \in {"commit", "committed"}
    PROVE  /\ Accepted \cup ToSet(conflicts) = 1 .. Level
           /\ Len(accepted) + Len(conflicts) = Level
<1>1. DOMAIN recs = 1 .. Level /\ next \in 1 .. Level + 1 /\ next > Len(order)
  BY DEF LevelInv, Typing, Judged
<1>2. Len(order) = Level
  <2>1. Cardinality(1 .. Level) = Level
    BY Constants, FS_Interval
  <2>. QED
    BY <1>1, <2>1 DEF LevelInv, Listed
<1>3. next - 1 = Len(order)
  BY <1>1, <1>2, Constants
<1>. QED
  BY <1>1, <1>2, <1>3 DEF LevelInv, Judged, Judging, Listed, Conflicts

\* No transaction is dropped by DetectConflicts, and none is both committed in
\* place and executed again (cacheSet.go:180-242).
THEOREM NoneIsDropped == Spec => []EachOnce
<1>1. LevelInv => EachOnce
  BY AllJudged DEF EachOnce
<1>. QED
  BY <1>1, LevelInvariance, PTL

\* What a transaction to be executed again wrote is still in its own maps
\* only: the merges of DetectConflicts have not touched them
\* (cacheSet.go:213-216).
THEOREM ConflictsKeepTheirSets == Spec => []ConflictSetsUntouched
<1>1. LevelInv => ConflictSetsUntouched
  <2>. SUFFICES ASSUME LevelInv, Judging, NEW i \in DOMAIN conflicts, NEW a \in Account
                PROVE  maps[Own(conflicts[i], a)] = Written(conflicts[i], recs[conflicts[i]].use[a], Fresh)
    BY DEF ConflictSetsUntouched, Judging
  <2>1. conflicts[i] \in Conflicts
    BY DEF Conflicts, ToSet
  <2>2. conflicts[i] \in 1 .. Level
    <3>1. conflicts \in Seq(1 .. Level)
      BY DEF LevelInv, Typing
    <3>. QED
      BY <3>1, MembersOf
  <2>3. conflicts[i] \notin Accepted
    BY <2>1 DEF LevelInv, Judged
  <2>. QED
    BY <2>2, <2>3 DEF LevelInv, Lent
<1>. QED
  BY <1>1, LevelInvariance, PTL

\* Whatever the order in which the goroutines answer and however often a hash
\* comes, the sorted level is in the order of Less, where Less is one
\* (cacheSet.go:297-340).
THEOREM SortedWhateverArrives == Spec => []ArrivalIndependent
<1>1. LevelInv => ArrivalIndependent
  <2>. SUFFICES ASSUME LevelInv, phase = "detect", \A i, j \in DOMAIN order : ~Clash(order[i], order[j]),
                       NEW i \in DOMAIN order, NEW j \in DOMAIN order, i < j
                PROVE  Less(order[i], order[j])
    BY DEF ArrivalIndependent
  <2>1. DOMAIN order = 1 .. Len(order) /\ Len(order) \in Nat
    BY DEF LevelInv, Typing
  <2>2. SortedTo(Len(order))
    BY <2>1 DEF LevelInv, Sorting, Agreeing
  <2>. QED
    BY <2>1, <2>2 DEF SortedTo
<1>. QED
  BY <1>1, LevelInvariance, PTL

\* How often logs can have been added: not before the commit, then once, and
\* once more for each transaction executed again.
Counted ==
    /\ phase \in {"collect", "detect", "commit"} => \A t \in 1 .. Level : logs[t] = 0
    /\ phase \in {"committed", "redo", "done"} =>
          \A t \in 1 .. Level : logs[t] + Len(conflicts) <= 1 + Level - Len(accepted)
    /\ phase \in {"redone", "recommit"} =>
          \A t \in 1 .. Level : logs[t] + Len(conflicts) <= Level - Len(accepted)

\* The types of what Counted speaks of.
LEMMA CountedTypes ==
    ASSUME LevelInv
    PROVE  /\ phase \in Phases /\ Level \in Nat
           /\ accepted \in Seq(1 .. Level) /\ conflicts \in Seq(1 .. Level)
           /\ Len(accepted) \in Nat /\ Len(conflicts) \in Nat
           /\ \A t \in 1 .. Level : logs[t] \in Nat
  BY Constants DEF LevelInv, Typing

\* AddLogs counts one more, and there is room for it.
LEMMA AddLogsCounts == LevelInv /\ Counted /\ AddLogs => Counted'
<1>. SUFFICES ASSUME LevelInv, Counted, AddLogs PROVE Counted'
  OBVIOUS
<1>1. /\ phase \in {"commit", "recommit"}
      /\ phase' = IF phase = "commit" THEN "committed" ELSE "redo"
      /\ accepted' = accepted /\ conflicts' = conflicts
  BY DEF AddLogs
<1>2. \A t \in 1 .. Level : logs'[t] \in {logs[t], logs[t] + 1}
  BY CountedTypes DEF AddLogs
<1>3. Level \in Nat /\ Len(accepted) \in Nat /\ Len(conflicts) \in Nat
  BY CountedTypes
<1>4. CASE phase = "commit"
  <2>1. Len(accepted) + Len(conflicts) = Level
    BY <1>4, AllJudged
  <2>2. ASSUME NEW t \in 1 .. Level PROVE logs'[t] + Len(conflicts) <= 1 + Level - Len(accepted)
    <3>1. logs[t] = 0
      BY <1>4 DEF Counted
    <3>2. logs'[t] \in {0, 1}
      BY <1>2, <3>1
    <3>. QED
      BY <1>3, <2>1, <3>2
  <2>. QED
    BY <1>1, <1>4, <2>2 DEF Counted
<1>5. CASE phase = "recommit"
  <2>1. ASSUME NEW t \in 1 .. Level PROVE logs'[t] + Len(conflicts) <= 1 + Level - Len(accepted)
    <3>1. logs[t] \in Nat /\ logs[t] + Len(conflicts) <= Level - Len(accepted)
      BY <1>5, CountedTypes DEF Counted
    <3>2. logs'[t] \in {logs[t], logs[t] + 1}
      BY <1>2
    <3>. QED
      BY <1>3, <3>1, <3>2
  <2>. QED
    BY <1>1, <1>5, <2>1 DEF Counted
<1>. QED
  BY <1>1, <1>4, <1>5

\* A transaction executed again is no longer in conflict.
LEMMA RedoCounts == LevelInv /\ Counted /\ Redo => Counted'
<1>. SUFFICES ASSUME LevelInv, Counted, Redo PROVE Counted'
  OBVIOUS
<1>1. /\ phase \in {"committed", "redo"} /\ conflicts # <<>>
      /\ accepted' = accepted /\ logs' = logs
      /\ \/ phase' = "redone" /\ conflicts' = Tail(conflicts)
         \/ phase' = "crashed"
  BY DEF Redo
<1>2. CASE phase' = "crashed"
  BY <1>2 DEF Counted
<1>3. CASE phase' = "redone" /\ conflicts' = Tail(conflicts)
  <2>. DEFINE rest == Tail(conflicts)
  <2>1. Len(rest) = Len(conflicts) - 1
    <3>1. conflicts \in Seq(1 .. Level)
      BY CountedTypes
    <3>. QED
      BY <1>1, <3>1
  <2>. HIDE DEF rest
  <2>2. Level \in Nat /\ Len(accepted) \in Nat /\ Len(conflicts) \in Nat
    BY CountedTypes
  <2>3. ASSUME NEW t \in 1 .. Level PROVE logs[t] + Len(rest) <= Level - Len(accepted)
    <3>1. logs[t] \in Nat /\ logs[t] + Len(conflicts) <= 1 + Level - Len(accepted)
      BY <1>1, CountedTypes DEF Counted
    <3>. QED
      BY <2>1, <2>2, <3>1
  <2>. QED
    BY <1>1, <1>3, <2>3 DEF Counted, rest
<1>. QED
  BY <1>1, <1>2, <1>3

\* Every other step leaves the counts as they are.
LEMMA CountStep == LevelInv /\ Counted /\ [Next]_vars => Counted'
<1>. SUFFICES ASSUME LevelInv, Counted, [Next]_vars PROVE Counted'
  OBVIOUS
<1>1. CASE AddLogs
  BY <1>1, AddLogsCounts
<1>2. CASE Redo
  BY <1>2, RedoCounts
<1>3. CASE (\E t \in 1 .. Level, rec \in Results : SetCache(t, rec)) \/ Sort
  <2>1. phase = "collect" /\ phase' \in {"collect", "detect"} /\ logs' = logs
    BY <1>3 DEF SetCache, Sort
  <2>. QED
    BY <2>1 DEF Counted
<1>4. CASE Detect
  <2>1. phase = "detect" /\ phase' = phase /\ logs' = logs
    BY <1>4 DEF Detect
  <2>. QED
    BY <2>1 DEF Counted
<1>5. CASE Fetch
  <2>1. /\ logs' = logs /\ accepted' = accepted /\ conflicts' = conflicts
        /\ \/ phase = "detect" /\ phase' = "commit"
           \/ phase = "redone" /\ phase' = "recommit"
           \/ phase' = "stuck"
    BY <1>5 DEF Fetch
  <2>. QED
    BY <2>1 DEF Counted
<1>6. CASE \E a \in Account : CommitAccount(a)
  <2>1. logs' = logs /\ accepted' = accepted /\ conflicts' = conflicts /\ phase' = phase
    BY <1>6 DEF CommitAccount
  <2>. QED
    BY <2>1 DEF Counted
<1>7. CASE Return
  <2>1. /\ logs' = logs /\ accepted' = accepted /\ conflicts' = conflicts
        /\ phase \in {"committed", "redo"} /\ phase' = "done"
    BY <1>7 DEF Return
  <2>. QED
    BY <2>1 DEF Counted
<1>8. CASE UNCHANGED vars
  BY <1>8 DEF vars, Counted
<1>. QED
  BY <1>1, <1>2, <1>3, <1>4, <1>5, <1>6, <1>7, <1>8 DEF Next

\* The logs of every transaction with a write set reach the state, through the
\* merged cache or when it is executed again, and are repeated at most once for
\* each transaction executed again (cacheSet.go:231, 282, process.go:553-557).
THEOREM LogsReachTheState == Spec => []LogsAreAdded
<1>1. Init => Counted
  BY DEF Init, Counted
<1>2. LevelInv /\ Counted => LogsAreAdded
  <2>. SUFFICES ASSUME LevelInv, Counted, phase = "done", NEW t \in 1 .. Level, Writes(recs[t]) # {}
                PROVE  logs[t] \in 1 .. 1 + Level - Len(accepted)
    BY DEF LogsAreAdded
  <2>1. next > Len(order) /\ next \in Nat /\ Len(order) \in Nat
    BY Constants DEF LevelInv, Judged, Typing
  <2>2. Conflicts = {} /\ conflicts = <<>>
    BY DEF LevelInv, Logged, Conflicts, ToSet
  <2>3. t \in wLogs
    BY <2>1, <2>2 DEF LevelInv, Logged
  <2>4. logs[t] >= 1
    BY <2>3 DEF LevelInv, Logged
  <2>5. logs[t] + Len(conflicts) <= 1 + Level - Len(accepted)
    BY DEF Counted
  <2>6. Level \in Nat /\ Len(accepted) \in Nat /\ logs[t] \in Nat /\ Len(conflicts) = 0
    BY <2>2, CountedTypes
  <2>. QED
    BY <2>4, <2>5, <2>6
<1>. QED
  BY <1>1, <1>2, CountStep, LevelInvariance, PTL DEF Spec
-----------------------------------------------------------------------------
(* The results one after the other.  SerialOf, the sum of BalancesAddUp and  *)
(* with them InOrder are stated here for any results rs, to compare them     *)
(* before and after a step.                                                  *)

Replayed(rs, state, t) ==
    [a \in Account |->
        IF a \in Writes(rs[t])
        THEN UpdatedInOrder(state[a],
                 [b \in Writes(rs[t]) |->
                     LET m == Written(t, rs[t].use[b], Fresh)
                     IN  IF rs[t].failed THEN OnlyNonce(m) ELSE m][a])
        ELSE state[a]]
SerialFrom(rs, ts) == FoldLeft(LAMBDA state, t : Replayed(rs, state, t), Before, ts)
PaidFrom(rs, a, S) == MapThenSumSet(LAMBDA t : Credit(t, rs[t].use[a]) - Debit(t, rs[t].use[a]), S)

\* They are those of the model.
LEMMA SerialIs == ASSUME NEW ts PROVE SerialOf(ts) = SerialFrom(recs, ts)
  BY DEF SerialOf, SerialFrom, FoldLeft, MapThenFoldSet, Replayed, InOrder, InOrderMap

\* The folds of FoldTheorems they are.
ItemOf(s, i) == s[i]
Greatest(S) == Max(S)
InTurn(t, state) == InOrder(state, t)
Anything(n, acc) == TRUE
SerialFold == INSTANCE FoldTheorems WITH
    op <- InTurn, base <- Before, f <- ItemOf, choose <- Greatest, Good <- Anything

Plus(x, y) == x + y
AnyOf(S) == CHOOSE x \in S : TRUE
Payment(a, t) == Credit(t, recs[t].use[a]) - Debit(t, recs[t].use[a])
PaidFold == INSTANCE FoldTheorems WITH
    op <- Plus, base <- 0, f <- Payment, choose <- AnyOf, Good <- Anything

\* SerialOf is the first of them, ...
LEMMA SerialIsFold ==
    ASSUME NEW ts, NEW n, DOMAIN ts = 1 .. n
    PROVE  SerialFrom(recs, ts) = SerialFold!Fold(ts, 1 .. n)
<1>1. SerialOf(ts) = SerialFold!Fold(ts, DOMAIN ts)
  BY DEF SerialOf, FoldLeft, MapThenFoldSet, SerialFold!Fold, SerialFold!MapThenFoldSet,
         InTurn, ItemOf, Greatest
<1>. QED
  BY <1>1, SerialIs

\* ... and the sum is the second.
LEMMA PaidIsFold == ASSUME NEW a, NEW S PROVE PaidFrom(recs, a, S) = PaidFold!Fold(a, S)
  BY DEF PaidFrom, MapThenSumSet, MapThenFoldSet, PaidFold!Fold, PaidFold!MapThenFoldSet,
         Plus, Payment, AnyOf

\* Replaying one transaction more is replaying it on what the others left.
LEMMA SerialAppend ==
    ASSUME NEW ts \in Seq(1 .. Level), NEW t \in 1 .. Level
    PROVE  /\ SerialFrom(recs, <<>>) = Before
           /\ SerialFrom(recs, Append(ts, t)) = InOrder(SerialFrom(recs, ts), t)
<1>. DEFINE n == Len(ts)
            new == Append(ts, t)
<1>1. /\ n \in Nat /\ DOMAIN ts = 1 .. n /\ DOMAIN new = 1 .. n + 1 /\ new[n + 1] = t
      /\ \A i \in 1 .. n : new[i] = ts[i]
  OBVIOUS
<1>2. DOMAIN <<>> = 1 .. 0
  OBVIOUS
<1>. HIDE DEF n, new
<1>3. ASSUME NEW m \in Nat PROVE SerialFold!Foldable(1 .. m)
  <2>1. ASSUME NEW S \in SUBSET (1 .. m), S # {} PROVE Greatest(S) \in S
    <3>1. S \in SUBSET (0 .. m)
      OBVIOUS
    <3>. QED
      BY <2>1, <3>1, MaxLemma DEF Greatest
  <2>2. SerialFold!IsFiniteSet(1 .. m)
    BY 1 \in Int, m \in Int, SerialFold!FS_Interval
  <2>. QED
    BY <2>1, <2>2 DEF SerialFold!Foldable
<1>4. SerialFrom(recs, <<>>) = Before
  <2>1. SerialFrom(recs, <<>>) = SerialFold!Fold(<<>>, 1 .. 0)
    BY <1>2, SerialIsFold
  <2>2. SerialFold!Foldable(1 .. 0) /\ 1 .. 0 = {}
    BY <1>3
  <2>3. SerialFold!Fold(<<>>, 1 .. 0) = Before
    BY <2>2, SerialFold!FoldSteps
  <2>. QED
    BY <2>1, <2>3
<1>5. Greatest(1 .. n + 1) = n + 1
  <2>1. 1 .. n + 1 \in SUBSET (0 .. n + 1) /\ n + 1 \in 1 .. n + 1 /\ n + 1 \in Nat
    BY <1>1
  <2>2. Max(1 .. n + 1) \in 1 .. n + 1 /\ Max(1 .. n + 1) >= n + 1
    BY <2>1, MaxLemma
  <2>. QED
    BY <1>1, <2>2 DEF Greatest
<1>6. (1 .. n + 1) \ {n + 1} = 1 .. n /\ 1 .. n + 1 # {}
  <2>1. \A m \in Nat : (1 .. m + 1) \ {m + 1} = 1 .. m /\ m + 1 \in 1 .. m + 1
    OBVIOUS
  <2>2. n \in Nat
    BY <1>1
  <2>. QED
    BY <2>1, <2>2
<1>7. SerialFold!Fold(new, 1 .. n + 1) = InTurn(ItemOf(new, n + 1), SerialFold!Fold(new, 1 .. n))
  <2>1. SerialFold!Foldable(1 .. n + 1)
    BY <1>1, <1>3
  <2>2. SerialFold!Fold(new, 1 .. n + 1)
            = InTurn(ItemOf(new, Greatest(1 .. n + 1)),
                     SerialFold!Fold(new, (1 .. n + 1) \ {Greatest(1 .. n + 1)}))
    BY <1>6, <2>1, SerialFold!FoldSteps
  <2>. QED
    BY <1>5, <1>6, <2>2
<1>8. SerialFold!Fold(new, 1 .. n) = SerialFold!Fold(ts, 1 .. n)
  <2>1. SerialFold!Foldable(1 .. n) /\ \A i \in 1 .. n : ItemOf(new, i) = ItemOf(ts, i)
    BY <1>1, <1>3 DEF ItemOf
  <2>. QED
    BY <2>1, SerialFold!FoldSame
<1>9. SerialFrom(recs, new) = InOrder(SerialFrom(recs, ts), t)
  <2>1. SerialFrom(recs, new) = SerialFold!Fold(new, 1 .. n + 1)
    BY <1>1, SerialIsFold
  <2>2. SerialFrom(recs, ts) = SerialFold!Fold(ts, 1 .. n)
    BY <1>1, SerialIsFold
  <2>. QED
    BY <1>1, <1>7, <1>8, <2>1, <2>2 DEF InTurn, ItemOf
<1>. QED
  BY <1>4, <1>9 DEF new

\* One transaction more adds its payment to the sum.
LEMMA PaidAdds ==
    ASSUME NEW a, NEW S \in SUBSET (1 .. Level), NEW t \in (1 .. Level) \ S
    PROVE  /\ PaidFrom(recs, a, {}) = 0 /\ PaidFrom(recs, a, S) \in Int
           /\ PaidFrom(recs, a, S \cup {t}) = PaidFrom(recs, a, S) + Payment(a, t)
<1>. DEFINE U == 1 .. Level
<1>1. PaidFold!IsFiniteSet(U)
  BY Constants, 1 \in Int, Level \in Int, PaidFold!FS_Interval
<1>2. \A u \in U : Payment(a, u) \in Int
  BY Constants DEF Payment, Credit, Debit
<1>3. \A s : s # {} => AnyOf(s) \in s
  BY DEF AnyOf
<1>. HIDE DEF U
<1>4. PaidFold!Foldable(U) /\ PaidFold!Foldable({})
  <2>1. PaidFold!IsFiniteSet({})
    BY <1>1, PaidFold!FS_EmptySet
  <2>. QED
    BY <1>1, <1>3, <2>1 DEF PaidFold!Foldable
<1>5. PaidFold!Closed(a, U, Int)
  BY <1>2 DEF PaidFold!Closed, Plus
<1>6. PaidFold!Commutes(a, U, Int)
  BY <1>2 DEF PaidFold!Commutes, Plus
<1>7. S \in SUBSET U /\ t \in U \ S
  BY DEF U
<1>8. PaidFold!Fold(a, S) \in Int /\ PaidFold!Fold(a, S \cup {t}) = Plus(Payment(a, t), PaidFold!Fold(a, S))
  BY <1>4, <1>5, <1>6, <1>7, PaidFold!FoldAdd
<1>9. PaidFold!Fold(a, {}) = 0
  BY <1>4, PaidFold!FoldSteps
<1>. QED
  BY <1>2, <1>7, <1>8, <1>9, PaidIsFold DEF Plus
-----------------------------------------------------------------------------
(* The merged maps.  What is said of an account holds where no accepted      *)
(* result failed on it or created it.                                        *)

MergedOf(a) == IF a \in DOMAIN written THEN maps[written[a]] ELSE NoEntries
Plain(a) == ~FailedOn(a) /\ UsersOf(a, {"created"}) = {}
Debitors(a) == UsersOf(a, {"payer", "sender"})
Payments(a) == UsersOf(a, {"payer", "sender", "payee"})
AtMostOne(S) == \A x, y \in S : x = y

\* A key in the merged map was written by an accepted transaction.
KeysWritten(a) ==
    \A k \in DOMAIN MergedOf(a) : \E t \in Accepted : k \in Uses[recs[t].use[a]].writes

\* The fields of the account's object after the accepted transactions in order
\* are those the merged map gives it; the balance is, unless the account is
\* debited by one and paid by another, and is right if it is debited once.
SameFields(serial, both) ==
    /\ serial \in Object /\ serial.code = 0
    /\ serial.nonce = both.nonce /\ serial.slot = both.slot
Merging(a) ==
    LET both   == Updated(Fresh, MergedOf(a))
        serial == SerialFrom(recs, accepted)[a]
    IN  Plain(a) =>
            /\ KeysWritten(a) /\ SameFields(serial, both)
            /\ Debitors(a) = {} \/ AtMostOne(Payments(a)) => serial.bal = both.bal
            /\ AtMostOne(Debitors(a)) => both.bal = Funds + PaidFrom(recs, a, Accepted)
Merges == Judging => \A a \in Account : Merging(a)

\* What each accepted transaction read is what the ones before it leave.
Replays ==
    Judging => \A i \in DOMAIN accepted : \A a \in Account :
        <<a, Slot>> \in Reads(recs[accepted[i]]) /\ Plain(a) =>
            SerialFrom(recs, SubSeq(accepted, 1, i - 1))[a].slot = 0

\* The objects: as before the level, or updated with the merged map.
Updating ==
    phase \in {"collect", "detect", "commit", "committed"} => \A a \in Account :
        /\ db[a][1] = a
        /\ a \in DOMAIN fetched => fetched[a] = db[a]
        /\ IF phase \in {"commit", "committed"} /\ a \in DOMAIN written \ DOMAIN fetched
           THEN CreatAccountKey \notin DOMAIN MergedOf(a) => State(a) = Updated(Fresh, MergedOf(a))
           ELSE State(a) = Fresh

CommitInv == Merges /\ Replays /\ Updating

\* Which uses of an account write which of the keys with a meaning.
LEMMA UsesLemma ==
    ASSUME NEW use \in DOMAIN Uses
    PROVE  /\ BalanceKey \in Uses[use].writes <=> use \in {"sender", "payee"}
           /\ SubBalanceKey \in Uses[use].writes <=> use \in {"sender", "payer"}
           /\ CreatAccountKey \in Uses[use].writes => use = "created"
           /\ SetCodeKey \in Uses[use].writes => use = "created"
           /\ use \in {"sender", "payee", "payer"} => BalanceKey \in Uses[use].reads
<1>. DEFINE keys == {BalanceKey, SubBalanceKey, NonceKey, CreatAccountKey, SetCodeKey, Slot}
<1>1. use \in {"untouched", "sender", "payee", "payer", "loads", "stores", "updates", "creates", "created"}
  BY DEF Uses
<1>2. /\ Uses["untouched"] = [reads |-> {}, writes |-> {}]
      /\ Uses["sender"] = [reads |-> {BalanceKey}, writes |-> {SubBalanceKey, NonceKey, BalanceKey}]
      /\ Uses["payee"] = [reads |-> {BalanceKey}, writes |-> {BalanceKey}]
      /\ Uses["payer"] = [reads |-> {BalanceKey}, writes |-> {SubBalanceKey}]
      /\ Uses["loads"] = [reads |-> {Slot}, writes |-> {}]
      /\ Uses["stores"] = [reads |-> {}, writes |-> {Slot}]
      /\ Uses["updates"] = [reads |-> {Slot}, writes |-> {Slot}]
      /\ Uses["creates"] = [reads |-> {NonceKey}, writes |-> {NonceKey, Slot}]
      /\ Uses["created"] = [reads |-> {}, writes |-> {CreatAccountKey, SetCodeKey, Slot}]
  BY DEF Uses
<1>. QED
  BY <1>1, <1>2, KeysDiffer

\* The map new is m after own has been merged into it.
IsMerged(new, m, own) ==
    /\ DOMAIN new = DOMAIN m \cup DOMAIN own
    /\ \A k \in DOMAIN own : new[k] = own[k]
    /\ \A k \in DOMAIN m \ DOMAIN own : new[k] = m[k]

\* Accepting a transaction that did not fail merges what it wrote to an account
\* into the account's map, and into no other (cacheSet.go:209-228).
LEMMA AcceptMerges ==
    ASSUME MapsGood, Lent, phase = "detect", NEW t \in (1 .. Level) \ Accepted, Accept(t),
           NEW a \in Account, ~(a \in Writes(recs[t]) /\ recs[t].failed)
    PROVE  IsMerged(MergedOf(a)', MergedOf(a), Written(t, recs[t].use[a], Fresh))
<1>. DEFINE ws == Writes(recs[t])
            own == Written(t, recs[t].use[a], Fresh)
            from(n) == CHOOSE b \in ws : Target(t, b) = n
            merged == [n \in {Target(t, b) : b \in ws} |-> Merge(maps[n], maps[Own(t, from(n))])]
            keeping == {b \in ws : KeepsNonce(t, b)}
            nonces == [n \in {Nonce(t, b) : b \in keeping} |-> OnlyNonce(maps[Own(t, n[2])])]
            targets == [b \in ws |-> IF KeepsNonce(t, b) THEN Nonce(t, b) ELSE Target(t, b)]
<1>1. maps' = Merge(Merge(maps, merged), nonces) /\ written' = Merge(written, targets)
  BY DEF Accept
<1>2. ws \subseteq Account /\ keeping \subseteq ws
  BY DEF Writes
<1>3. /\ \A b \in DOMAIN written : \E u \in Accepted : written[b] \in {Own(u, b), Nonce(u, b)}
      /\ maps[Own(t, a)] = own
      /\ DOMAIN written \subseteq Account /\ \A b \in DOMAIN written : written[b] \in DOMAIN maps
  BY DEF MapsGood, Lent, Judging
<1>4. DOMAIN own = Uses[recs[t].use[a]].writes /\ (a \notin ws => DOMAIN own = {})
  BY DEF Written, Writes
<1>5. /\ \A v, b : Own(v, b)[1] = v /\ Own(v, b)[2] = b /\ Nonce(v, b)[1] = v /\ Nonce(v, b)[2] = b
      /\ \A v, w, b, c : Own(v, b) # Nonce(w, c)
  BY DEF Own, Nonce
<1>6. \A b \in Account : Target(t, b)[2] = b /\ \A c : Target(t, b) # Nonce(t, c)
  BY <1>3, <1>5 DEF Target
<1>7. \A b \in ws : from(Target(t, b)) = b
  <2>. TAKE b \in ws
  <2>1. from(Target(t, b)) \in ws /\ Target(t, from(Target(t, b))) = Target(t, b)
    OBVIOUS
  <2>. QED
    BY <1>2, <1>6, <2>1
<1>8. /\ DOMAIN merged = {Target(t, b) : b \in ws} /\ DOMAIN nonces = {Nonce(t, b) : b \in keeping}
      /\ DOMAIN targets = ws
      /\ \A n \in DOMAIN merged : merged[n] = Merge(maps[n], maps[Own(t, from(n))])
      /\ \A b \in ws : targets[b] = IF KeepsNonce(t, b) THEN Nonce(t, b) ELSE Target(t, b)
  OBVIOUS
<1>. HIDE DEF ws, own, from, merged, keeping, nonces, targets
<1>9. /\ \A n \in DOMAIN maps \cup DOMAIN merged :
            n \notin DOMAIN nonces => maps'[n] = IF n \in DOMAIN merged THEN merged[n] ELSE maps[n]
      /\ DOMAIN written' = DOMAIN written \cup ws
      /\ \A b \in DOMAIN written' : written'[b] = IF b \in ws THEN targets[b] ELSE written[b]
  BY <1>1, <1>8 DEF Merge
<1>10. /\ MergedOf(a)' = IF a \in DOMAIN written' THEN maps'[written'[a]] ELSE NoEntries
       /\ MergedOf(a) = IF a \in DOMAIN written THEN maps[written[a]] ELSE NoEntries
       /\ DOMAIN NoEntries = {}
  BY DEF MergedOf, NoEntries
<1>11. ASSUME a \in ws PROVE IsMerged(MergedOf(a)', MergedOf(a), own)
  <2>0. \A m : IsMerged(Merge(m, own), m, own)
    BY DEF IsMerged, Merge
  <2>1. written'[a] = Target(t, a)
    <3>1. ~KeepsNonce(t, a)
      BY <1>11 DEF KeepsNonce, ws
    <3>. QED
      BY <1>8, <1>9, <1>11, <3>1
  <2>2. Target(t, a) \in DOMAIN merged /\ Target(t, a) \notin DOMAIN nonces
    BY <1>6, <1>8, <1>11
  <2>3. MergedOf(a)' = Merge(maps[Target(t, a)], own)
    BY <1>3, <1>7, <1>8, <1>9, <1>10, <1>11, <2>1, <2>2
  <2>4. CASE a \in DOMAIN written
    <3>1. maps[Target(t, a)] = MergedOf(a)
      BY <1>10, <2>4 DEF Target
    <3>. QED
      BY <2>0, <2>3, <3>1, Zenon
  <2>5. CASE a \notin DOMAIN written
    <3>1. maps[Target(t, a)] = own /\ DOMAIN MergedOf(a) = {}
      BY <1>3, <1>10, <2>5 DEF Target
    <3>2. IsMerged(Merge(own, own), own, own) /\ MergedOf(a)' = Merge(own, own)
      BY <2>0, <2>3, <3>1
    <3>. QED
      BY <3>1, <3>2 DEF IsMerged
  <2>. QED
    BY <1>11, <2>4, <2>5
<1>12. ASSUME a \notin ws PROVE IsMerged(MergedOf(a)', MergedOf(a), own)
  <2>1. MergedOf(a)' = MergedOf(a)
    <3>1. CASE a \in DOMAIN written
      <4>1. written[a] \notin DOMAIN merged /\ written[a] \notin DOMAIN nonces
        <5>1. written[a][2] = a
          BY <1>3, <1>5, <3>1
        <5>2. \A n \in DOMAIN merged : n[2] # a
          BY <1>2, <1>6, <1>8, <1>12
        <5>3. \A n \in DOMAIN nonces : n[2] # a
          BY <1>2, <1>5, <1>8, <1>12
        <5>. QED
          BY <5>1, <5>2, <5>3
      <4>. QED
        BY <1>3, <1>9, <1>10, <1>12, <3>1, <4>1
    <3>2. CASE a \notin DOMAIN written
      BY <1>9, <1>10, <1>12, <3>2
    <3>. QED
      BY <3>1, <3>2
  <2>. QED
    BY <1>4, <1>12, <2>1 DEF IsMerged
<1>. QED
  BY <1>11, <1>12 DEF own

\* Storing one result in order is updating the object with what it wrote, where
\* it neither failed nor created the account (process.go:568-615).
LEMMA InOrderPlain ==
    ASSUME NEW state, NEW t \in DOMAIN recs, NEW a \in Account, state[a] \in Object,
           recs[t].use[a] \in DOMAIN Uses \ {"created"},
           ~(a \in Writes(recs[t]) /\ recs[t].failed)
    PROVE  InOrder(state, t)[a] = Updated(state[a], Written(t, recs[t].use[a], Fresh))
<1>. DEFINE own == Written(t, recs[t].use[a], Fresh)
            o == state[a]
<1>1. DOMAIN own = Uses[recs[t].use[a]].writes
  BY DEF Written
<1>2. InOrder(state, t)[a] = IF a \in Writes(recs[t]) THEN UpdatedInOrder(o, InOrderMap(t)[a]) ELSE o
  BY DEF InOrder
<1>3. a \in Writes(recs[t]) => InOrderMap(t)[a] = own
  BY DEF InOrderMap
<1>4. a \notin Writes(recs[t]) => DOMAIN own = {}
  BY <1>1 DEF Writes
<1>5. CreatAccountKey \notin DOMAIN own /\ SetCodeKey \notin DOMAIN own
  BY <1>1, UsesLemma
<1>6. o = [bal |-> o.bal, nonce |-> o.nonce, slot |-> o.slot, code |-> o.code] /\ o.bal \in Int
  BY DEF Object
<1>. HIDE DEF own, o
<1>7. UpdatedInOrder(o, own) = Updated(o, own)
  BY <1>5 DEF UpdatedInOrder, Updated
<1>8. DOMAIN own = {} => Updated(o, own) = o
  BY <1>6 DEF Updated
<1>. QED
  BY <1>2, <1>3, <1>4, <1>7, <1>8 DEF own, o

\* Updating an object in turn with two maps gives it the fields that the merged
\* map gives it at once, and the balance where the maps do not both change it, a
\* debit among the changes.
LEMMA UpdatesMerge ==
    ASSUME NEW m, NEW own, NEW new, IsMerged(new, m, own), GoodMap(m), GoodMap(own),
           NEW o, SameFields(o, Updated(Fresh, m))
    PROVE  LET balances == {BalanceKey, SubBalanceKey}
               same     == o.bal = Updated(Fresh, m).bal
               sameNow  == Updated(o, own).bal = Updated(Fresh, new).bal
           IN  /\ SameFields(Updated(o, own), Updated(Fresh, new))
               /\ SubBalanceKey \notin DOMAIN new /\ same => sameNow
               /\ balances \cap DOMAIN own = {} /\ same => sameNow
               /\ balances \cap DOMAIN m = {} /\ same => sameNow
<1>1. o \in Object /\ o.code = 0 /\ Fresh \in Object /\ Fresh.code = 0
  BY FreshObject DEF SameFields, Fresh
<1>2. o.nonce = Updated(Fresh, m).nonce /\ o.slot = Updated(Fresh, m).slot
  BY DEF SameFields
<1>3. Updated(o, own) \in Object
  BY <1>1, GoodUpdate
<1>4. /\ \A k \in DOMAIN own : k \in DOMAIN new /\ new[k] = own[k]
      /\ \A k \in DOMAIN m : k \in DOMAIN new /\ (k \notin DOMAIN own => new[k] = m[k])
      /\ \A k \in DOMAIN new : k \in DOMAIN m \/ k \in DOMAIN own
  BY DEF IsMerged
<1>5. ASSUME NEW x, NEW map
      PROVE  /\ Updated(x, map).bal = (IF BalanceKey \in DOMAIN map THEN map[BalanceKey] ELSE x.bal)
                                      - (IF SubBalanceKey \in DOMAIN map THEN map[SubBalanceKey] ELSE 0)
             /\ Updated(x, map).nonce = IF NonceKey \in DOMAIN map THEN map[NonceKey] ELSE x.nonce
             /\ Updated(x, map).slot = IF Slot \in DOMAIN map THEN map[Slot] ELSE x.slot
             /\ Updated(x, map).code = x.code
  BY DEF Updated
<1>6. SameFields(Updated(o, own), Updated(Fresh, new))
  <2>1. Updated(o, own).nonce = Updated(Fresh, new).nonce
    BY <1>2, <1>4, <1>5
  <2>2. Updated(o, own).slot = Updated(Fresh, new).slot
    BY <1>2, <1>4, <1>5
  <2>3. Updated(o, own).code = 0
    BY <1>1, <1>5
  <2>. QED
    BY <1>3, <2>1, <2>2, <2>3 DEF SameFields
<1>7. o.bal \in Int /\ Fresh.bal \in Int
  BY <1>1 DEF Object
<1>8. ASSUME o.bal = Updated(Fresh, m).bal, SubBalanceKey \notin DOMAIN new
      PROVE  Updated(o, own).bal = Updated(Fresh, new).bal
  <2>1. /\ BalanceKey \in DOMAIN m => m[BalanceKey] \in Int
        /\ BalanceKey \in DOMAIN own => own[BalanceKey] \in Int
    BY DEF GoodMap
  <2>. QED
    BY <1>4, <1>5, <1>7, <1>8, <2>1
<1>9. ASSUME o.bal = Updated(Fresh, m).bal, {BalanceKey, SubBalanceKey} \cap DOMAIN own = {}
      PROVE  Updated(o, own).bal = Updated(Fresh, new).bal
  BY <1>4, <1>5, <1>7, <1>9
<1>10. ASSUME o.bal = Updated(Fresh, m).bal, {BalanceKey, SubBalanceKey} \cap DOMAIN m = {}
       PROVE  Updated(o, own).bal = Updated(Fresh, new).bal
  BY <1>4, <1>5, <1>7, <1>10
<1>. QED
  BY <1>6, <1>8, <1>9, <1>10

\* The merged map pays out what the transaction merged into it does, where it
\* is the first to change the part of the balance that it changes.
LEMMA PaymentsMerge ==
    ASSUME NEW t \in 1 .. Level, NEW use \in DOMAIN Uses, NEW m, NEW new,
           IsMerged(new, m, Written(t, use, Fresh)), GoodMap(m),
           use \in {"sender", "payee", "payer"} => BalanceKey \notin DOMAIN m,
           use \in {"sender", "payer"} => SubBalanceKey \notin DOMAIN m
    PROVE  Updated(Fresh, new).bal = Updated(Fresh, m).bal + (Credit(t, use) - Debit(t, use))
<1>. DEFINE own == Written(t, use, Fresh)
<1>1. /\ Fresh.bal = Funds /\ Funds \in Int /\ Amount \in Int /\ t \in Int
      /\ BalanceKey \in DOMAIN m => m[BalanceKey] \in Int
      /\ SubBalanceKey \in DOMAIN m => m[SubBalanceKey] \in Int
  BY Constants, KeysDiffer DEF Fresh, GoodMap
<1>2. /\ BalanceKey \in DOMAIN own <=> use \in {"sender", "payee"}
      /\ SubBalanceKey \in DOMAIN own <=> use \in {"sender", "payer"}
  BY UsesLemma DEF Written
<1>3. /\ BalanceKey \in DOMAIN own => own[BalanceKey] = Funds + Credit(t, use)
      /\ SubBalanceKey \in DOMAIN own => own[SubBalanceKey] = Debit(t, use)
  BY <1>1, KeysDiffer DEF Written
<1>4. /\ Credit(t, use) = IF use \in {"payee", "sender"} THEN Amount + t ELSE 0
      /\ Debit(t, use) = IF use \in {"payer", "sender"} THEN Amount ELSE 0
  BY DEF Credit, Debit
<1>. HIDE DEF own
<1>5. /\ \A k \in DOMAIN own : k \in DOMAIN new /\ new[k] = own[k]
      /\ \A k \in DOMAIN m : k \in DOMAIN new /\ (k \notin DOMAIN own => new[k] = m[k])
      /\ \A k \in DOMAIN new : k \in DOMAIN m \/ k \in DOMAIN own
  BY DEF IsMerged, own
<1>6. ASSUME NEW map
      PROVE  Updated(Fresh, map).bal = (IF BalanceKey \in DOMAIN map THEN map[BalanceKey] ELSE Fresh.bal)
                                       - (IF SubBalanceKey \in DOMAIN map THEN map[SubBalanceKey] ELSE 0)
  BY DEF Updated
<1>7. CASE use = "sender"
  <2>1. Updated(Fresh, new).bal = (Funds + (Amount + t)) - Amount /\ Updated(Fresh, m).bal = Funds - 0
    BY <1>1, <1>2, <1>3, <1>4, <1>5, <1>6, <1>7
  <2>2. Credit(t, use) = Amount + t /\ Debit(t, use) = Amount
    BY <1>4, <1>7
  <2>. QED
    BY <1>1, <2>1, <2>2
<1>8. CASE use = "payer"
  <2>1. Updated(Fresh, new).bal = Funds - Amount /\ Updated(Fresh, m).bal = Funds - 0
    BY <1>1, <1>2, <1>3, <1>4, <1>5, <1>6, <1>8
  <2>2. Credit(t, use) = 0 /\ Debit(t, use) = Amount
    BY <1>4, <1>8
  <2>. QED
    BY <1>1, <2>1, <2>2
<1>9. CASE use = "payee"
  <2>. DEFINE debit == IF SubBalanceKey \in DOMAIN m THEN m[SubBalanceKey] ELSE 0
  <2>1. Updated(Fresh, new).bal = (Funds + (Amount + t)) - debit /\ Updated(Fresh, m).bal = Funds - debit
    BY <1>1, <1>2, <1>3, <1>4, <1>5, <1>6, <1>9
  <2>2. Credit(t, use) = Amount + t /\ Debit(t, use) = 0 /\ debit \in Int
    BY <1>1, <1>4, <1>9
  <2>. HIDE DEF debit
  <2>. QED
    BY <1>1, <2>1, <2>2
<1>10. CASE use \notin {"sender", "payer", "payee"}
  <2>1. Updated(Fresh, new).bal = Updated(Fresh, m).bal /\ Updated(Fresh, m).bal \in Int
    BY <1>1, <1>2, <1>5, <1>6, <1>10
  <2>2. Credit(t, use) = 0 /\ Debit(t, use) = 0
    BY <1>4, <1>10
  <2>. QED
    BY <2>1, <2>2
<1>. QED
  BY <1>7, <1>8, <1>9, <1>10

\* Accepting a transaction keeps what is said of the merged map of an account,
\* and its storage still has what the transaction read.
LEMMA AcceptCommits ==
    ASSUME LevelInv, CommitInv, phase = "detect", NEW t \in (1 .. Level) \ Accepted,
           DOMAIN recs = 1 .. Level, ~HasConflict(t), Accept(t), recs' = recs,
           Accepted' = Accepted \cup {t}, NEW a \in Account
    PROVE  /\ Merging(a)'
           /\ <<a, Slot>> \in Reads(recs[t]) /\ Plain(a)' => SerialFrom(recs, accepted)[a].slot = 0
<1>. DEFINE use == recs[t].use[a]
            own == Written(t, use, Fresh)
            m == MergedOf(a)
            new == MergedOf(a)'
            o == SerialFrom(recs, accepted)[a]
            serial == SerialFrom(recs, accepted')[a]
            both == Updated(Fresh, new)
<1>1. /\ recs[t] \in Results /\ use \in DOMAIN Uses /\ t \in 1 .. Level
      /\ accepted \in Seq(1 .. Level) /\ Accepted \in SUBSET (1 .. Level)
  <2>1. recs[t] \in Results /\ accepted \in Seq(1 .. Level)
    BY DEF LevelInv, Typing
  <2>2. Accepted \subseteq 1 .. Level
    BY <2>1, MembersOf DEF Accepted
  <2>. QED
    BY <2>1, <2>2, ResultsAssumption
<1>2. SUFFICES ASSUME Plain(a)'
               PROVE  /\ KeysWritten(a)' /\ SameFields(serial, both)
                      /\ Debitors(a)' = {} \/ AtMostOne(Payments(a)') => serial.bal = both.bal
                      /\ AtMostOne(Debitors(a)') => both.bal = Funds + PaidFrom(recs, a, Accepted')
                      /\ <<a, Slot>> \in Reads(recs[t]) => o.slot = 0
  <2>1. SerialFrom(recs', accepted')[a] = serial /\ PaidFrom(recs', a, Accepted') = PaidFrom(recs, a, Accepted')
    OBVIOUS
  <2>2. Merging(a)' <=> (Plain(a)' =>
            /\ KeysWritten(a)' /\ SameFields(SerialFrom(recs', accepted')[a], both)
            /\ Debitors(a)' = {} \/ AtMostOne(Payments(a)') => SerialFrom(recs', accepted')[a].bal = both.bal
            /\ AtMostOne(Debitors(a)') => both.bal = Funds + PaidFrom(recs', a, Accepted'))
    BY DEF Merging
  <2>. QED
    BY <2>1, <2>2
<1>3. /\ \A uses : UsersOf(a, uses)' = {u \in Accepted \cup {t} : recs[u].use[a] \in uses}
      /\ \A u \in Accepted \cup {t} : ~(recs[u].failed /\ a \in Writes(recs[u]))
      /\ \A u \in Accepted \cup {t} : recs[u].use[a] # "created"
  <2>1. \A uses : UsersOf(a, uses)' = {u \in Accepted \cup {t} : recs[u].use[a] \in uses}
    BY DEF UsersOf
  <2>2. ~FailedOn(a)' /\ UsersOf(a, {"created"})' = {}
    BY <1>2 DEF Plain
  <2>3. FailedOn(a)' <=> \E u \in Accepted \cup {t} : recs[u].failed /\ a \in Writes(recs[u])
    BY DEF FailedOn, Writes
  <2>. QED
    BY <2>1, <2>2, <2>3
<1>4. /\ Debitors(a)' = {u \in Accepted \cup {t} : recs[u].use[a] \in {"payer", "sender"}}
      /\ Payments(a)' = {u \in Accepted \cup {t} : recs[u].use[a] \in {"payer", "sender", "payee"}}
      /\ Debitors(a) = {u \in Accepted : recs[u].use[a] \in {"payer", "sender"}}
      /\ Payments(a) = {u \in Accepted : recs[u].use[a] \in {"payer", "sender", "payee"}}
  <2>1. Debitors(a)' = UsersOf(a, {"payer", "sender"})' /\ Payments(a)' = UsersOf(a, {"payer", "sender", "payee"})'
    BY DEF Debitors, Payments
  <2>. QED
    BY <1>3, <2>1 DEF Debitors, Payments, UsersOf
<1>5. Plain(a)
  BY <1>3 DEF Plain, FailedOn, UsersOf
<1>6. /\ KeysWritten(a) /\ SameFields(o, Updated(Fresh, m))
      /\ Debitors(a) = {} \/ AtMostOne(Payments(a)) => o.bal = Updated(Fresh, m).bal
      /\ AtMostOne(Debitors(a)) => Updated(Fresh, m).bal = Funds + PaidFrom(recs, a, Accepted)
  BY <1>5 DEF CommitInv, Merges, Merging, Judging
<1>7. IsMerged(new, m, own)
  BY <1>3, AcceptMerges DEF LevelInv
<1>8. DOMAIN own = Uses[use].writes /\ \A k \in DOMAIN new : k \in DOMAIN m \/ k \in DOMAIN own
  BY <1>7 DEF IsMerged, Written
<1>9. GoodMap(m) /\ GoodMap(own)
  <2>1. GoodMap(own)
    BY <1>1, FreshObject, GoodWritten
  <2>2. DOMAIN NoEntries = {}
    BY DEF NoEntries
  <2>. QED
    BY <2>1, <2>2 DEF MergedOf, LevelInv, MapsGood, GoodMap
<1>10. serial = Updated(o, own)
  <2>1. accepted' = Append(accepted, t)
    BY DEF Accept
  <2>2. SerialFrom(recs, Append(accepted, t)) = InOrder(SerialFrom(recs, accepted), t)
    BY <1>1, SerialAppend
  <2>3. o \in Object
    BY <1>6 DEF SameFields
  <2>4. InOrder(SerialFrom(recs, accepted), t)[a] = Updated(o, own)
    <3>1. ~(a \in Writes(recs[t]) /\ recs[t].failed) /\ use \in DOMAIN Uses \ {"created"}
      BY <1>1, <1>3
    <3>. QED
      BY <2>3, <3>1, InOrderPlain
  <2>. QED
    BY <2>1, <2>2, <2>4
<1>11. \A k \in Uses[use].reads : k \notin DOMAIN m
  <2>1. \A k \in Uses[use].reads : <<a, k>> \in Reads(recs[t])
    BY DEF Reads
  <2>2. DOMAIN NoEntries = {}
    BY DEF NoEntries
  <2>. QED
    BY <2>1, <2>2 DEF HasConflict, MergedOf
<1>12. /\ KeysWritten(a)' <=> \A k \in DOMAIN new : \E u \in Accepted \cup {t} : k \in Uses[recs[u].use[a]].writes
       /\ \A k \in DOMAIN new : \E u \in Accepted \cup {t} : k \in Uses[recs[u].use[a]].writes
  <2>1. KeysWritten(a)' <=> \A k \in DOMAIN new : \E u \in Accepted \cup {t} : k \in Uses[recs[u].use[a]].writes
    BY DEF KeysWritten
  <2>2. \A k \in DOMAIN m : \E u \in Accepted : k \in Uses[recs[u].use[a]].writes
    BY <1>6 DEF KeysWritten
  <2>. QED
    BY <1>8, <2>1, <2>2
<1>13. \A u \in Accepted \cup {t} : recs[u].use[a] \in DOMAIN Uses
  BY <1>1, ResultsAssumption DEF LevelInv, Typing
<1>. HIDE DEF use, own, m, new, o, serial, both
<1>14. /\ BalanceKey \in DOMAIN own <=> use \in {"sender", "payee"}
       /\ SubBalanceKey \in DOMAIN own <=> use \in {"sender", "payer"}
       /\ use \in {"sender", "payee", "payer"} => BalanceKey \notin DOMAIN m
  BY <1>1, <1>8, <1>11, UsesLemma
<1>15. /\ SubBalanceKey \in DOMAIN m => Debitors(a) # {}
       /\ SubBalanceKey \in DOMAIN new => Debitors(a)' # {}
       /\ {BalanceKey, SubBalanceKey} \cap DOMAIN m # {} => Payments(a) # {}
  <2>1. \A u \in Accepted \cup {t} :
            /\ BalanceKey \in Uses[recs[u].use[a]].writes <=> recs[u].use[a] \in {"sender", "payee"}
            /\ SubBalanceKey \in Uses[recs[u].use[a]].writes <=> recs[u].use[a] \in {"sender", "payer"}
    BY <1>13, UsesLemma
  <2>2. \A k \in DOMAIN m : \E u \in Accepted : k \in Uses[recs[u].use[a]].writes
    BY <1>6 DEF KeysWritten, m
  <2>. QED
    BY <1>4, <1>12, <2>1, <2>2
<1>16. SameFields(serial, both)
  BY <1>6, <1>7, <1>9, <1>10, UpdatesMerge DEF both
<1>17. ASSUME Debitors(a)' = {} \/ AtMostOne(Payments(a)') PROVE serial.bal = both.bal
  <2>1. Debitors(a) = {} \/ AtMostOne(Payments(a))
    BY <1>4, <1>17 DEF AtMostOne
  <2>2. o.bal = Updated(Fresh, m).bal
    BY <1>6, <2>1
  <2>3. \/ SubBalanceKey \notin DOMAIN new
        \/ {BalanceKey, SubBalanceKey} \cap DOMAIN own = {}
        \/ {BalanceKey, SubBalanceKey} \cap DOMAIN m = {}
    <3>1. CASE Debitors(a)' = {}
      BY <1>15, <3>1
    <3>2. CASE AtMostOne(Payments(a)') /\ use \in {"payer", "sender", "payee"}
      <4>1. t \in Payments(a)' /\ \A u \in Payments(a) : u \in Payments(a)' /\ u # t
        BY <1>4, <3>2 DEF use
      <4>2. Payments(a) = {}
        BY <3>2, <4>1 DEF AtMostOne
      <4>. QED
        BY <1>15, <4>2
    <3>3. CASE use \notin {"payer", "sender", "payee"}
      BY <1>14, <3>3
    <3>. QED
      BY <1>17, <3>1, <3>2, <3>3
  <2>. QED
    BY <1>6, <1>7, <1>9, <1>10, <2>2, <2>3, UpdatesMerge DEF both
<1>18. ASSUME AtMostOne(Debitors(a)') PROVE both.bal = Funds + PaidFrom(recs, a, Accepted')
  <2>1. AtMostOne(Debitors(a))
    BY <1>4, <1>18 DEF AtMostOne
  <2>2. Updated(Fresh, m).bal = Funds + PaidFrom(recs, a, Accepted)
    BY <1>6, <2>1
  <2>3. use \in {"sender", "payer"} => SubBalanceKey \notin DOMAIN m
    <3>. SUFFICES ASSUME use \in {"sender", "payer"} PROVE SubBalanceKey \notin DOMAIN m
      OBVIOUS
    <3>1. t \in Debitors(a)' /\ \A u \in Debitors(a) : u \in Debitors(a)' /\ u # t
      BY <1>4 DEF use
    <3>2. Debitors(a) = {}
      BY <1>18, <3>1 DEF AtMostOne
    <3>. QED
      BY <1>15, <3>2
  <2>4. Updated(Fresh, new).bal = Updated(Fresh, m).bal + (Credit(t, use) - Debit(t, use))
    BY <1>1, <1>7, <1>9, <1>14, <2>3, PaymentsMerge DEF own
  <2>5. Payment(a, t) = Credit(t, use) - Debit(t, use) /\ Payment(a, t) \in Int
    BY <1>1, Constants DEF Payment, use, Credit, Debit
  <2>6. /\ PaidFrom(recs, a, Accepted) \in Int
        /\ PaidFrom(recs, a, Accepted \cup {t}) = PaidFrom(recs, a, Accepted) + Payment(a, t)
    BY <1>1, PaidAdds
  <2>. QED
    BY <2>2, <2>4, <2>5, <2>6, Constants DEF both
<1>19. ASSUME <<a, Slot>> \in Reads(recs[t]) PROVE o.slot = 0
  <2>1. Slot \in Uses[use].reads
    BY <1>19 DEF Reads, use
  <2>2. Slot \notin DOMAIN m
    BY <1>11, <2>1
  <2>3. Updated(Fresh, m).slot = 0
    BY <2>2 DEF Updated, Fresh
  <2>. QED
    BY <1>6, <2>3 DEF SameFields
<1>. QED
  BY <1>12, <1>16, <1>17, <1>18, <1>19
-----------------------------------------------------------------------------
(* Every step keeps CommitInv.                                               *)

\* What is said of a merged map holds of a state that agrees on it, on the
\* accepted transactions and on their results.
LEMMA SameMerges ==
    ASSUME recs' = recs, accepted' = accepted, NEW a \in Account, MergedOf(a)' = MergedOf(a)
    PROVE  Merging(a)' <=> Merging(a)
<1>1. Accepted' = Accepted
  BY DEF Accepted
<1>2. /\ Plain(a)' <=> Plain(a)
      /\ Debitors(a)' = Debitors(a) /\ Payments(a)' = Payments(a)
  BY <1>1 DEF Plain, FailedOn, UsersOf, Writes, Debitors, Payments
<1>3. KeysWritten(a)' <=> KeysWritten(a)
  BY <1>1 DEF KeysWritten
<1>4. SerialFrom(recs', accepted') = SerialFrom(recs, accepted)
  OBVIOUS
<1>5. PaidFrom(recs', a, Accepted') = PaidFrom(recs, a, Accepted)
  BY <1>1
<1>. QED
  BY <1>2, <1>3, <1>4, <1>5 DEF Merging

\* So does what is said of the reads.
LEMMA SameReplays ==
    ASSUME recs' = recs, accepted' = accepted, Judging, Replays
    PROVE  Replays'
<1>1. Accepted' = Accepted
  BY DEF Accepted
<1>2. \A a \in Account : Plain(a)' <=> Plain(a)
  BY <1>1 DEF Plain, FailedOn, UsersOf, Writes
<1>3. ASSUME NEW i \in DOMAIN accepted, NEW a \in Account,
             <<a, Slot>> \in Reads(recs[accepted[i]]), Plain(a)'
      PROVE  SerialFrom(recs, SubSeq(accepted, 1, i - 1))[a].slot = 0
  BY <1>2, <1>3 DEF Replays
<1>4. Replays' <=> (Judging' => \A i \in DOMAIN accepted : \A a \in Account :
          <<a, Slot>> \in Reads(recs[accepted[i]])' /\ Plain(a)' =>
              SerialFrom(recs, SubSeq(accepted, 1, i - 1))[a].slot = 0)
  BY DEF Replays
<1>5. \A i \in DOMAIN accepted : Reads(recs[accepted[i]])' = Reads(recs[accepted[i]])
  BY DEF Reads
<1>. QED
  BY <1>3, <1>4, <1>5

\* With nothing written the merged map and the serial state are as before.
LEMMA NothingMerged ==
    ASSUME DOMAIN written = {}, accepted = <<>>, NEW a \in Account
    PROVE  Merging(a)
<1>1. Accepted = {}
  BY DEF Accepted, ToSet
<1>2. MergedOf(a) = NoEntries /\ DOMAIN NoEntries = {}
  BY DEF MergedOf, NoEntries
<1>3. KeysWritten(a)
  BY <1>2 DEF KeysWritten
<1>4. SerialFrom(recs, accepted)[a] = Fresh
  <2>1. 1 \in 1 .. Level /\ <<>> \in Seq(1 .. Level)
    BY Constants
  <2>2. SerialFrom(recs, <<>>) = Before
    BY <2>1, SerialAppend
  <2>. QED
    BY <2>2 DEF Before
<1>5. Updated(Fresh, MergedOf(a)) = Fresh
  BY <1>2, Constants DEF Updated, Fresh
<1>6. PaidFrom(recs, a, Accepted) = 0
  <2>1. 1 \in (1 .. Level) \ {} /\ {} \in SUBSET (1 .. Level)
    BY Constants
  <2>. QED
    BY <1>1, <2>1, PaidAdds
<1>7. SameFields(Fresh, Fresh) /\ Fresh.bal = Funds /\ Funds + 0 = Funds
  BY FreshObject, Constants DEF SameFields, Fresh
<1>. QED
  BY <1>3, <1>4, <1>5, <1>6, <1>7 DEF Merging

\* Before the level nothing is merged and no object updated.
LEMMA CommitInit == Init => CommitInv
<1>. SUFFICES ASSUME Init PROVE CommitInv
  OBVIOUS
<1>1. /\ phase = "collect" /\ objs = [o \in Account \X {0} |-> Fresh]
      /\ db = [a \in Account |-> <<a, 0>>] /\ fetched = NoEntries
  BY DEF Init
<1>2. Merges /\ Replays
  BY <1>1 DEF Merges, Replays, Judging
<1>3. Updating
  BY <1>1 DEF Updating, State, NoEntries
<1>. QED
  BY <1>2, <1>3 DEF CommitInv

\* Receiving a result touches neither maps nor objects.
LEMMA SetCacheCommits ==
    ASSUME LevelInv, CommitInv, NEW t \in 1 .. Level, NEW rec \in Results, SetCache(t, rec)
    PROVE  CommitInv'
<1>1. /\ phase = "collect" /\ phase' = phase /\ db' = db /\ objs' = objs /\ fetched' = fetched
  BY DEF SetCache
<1>. QED
  BY <1>1 DEF CommitInv, Merges, Replays, Updating, State, Judging

\* The sort ends with nothing accepted.
LEMMA SortCommits == LevelInv /\ CommitInv /\ Sort => CommitInv'
<1>. SUFFICES ASSUME LevelInv, CommitInv, Sort PROVE CommitInv'
  OBVIOUS
<1>1. /\ phase = "collect" /\ phase' \in {"collect", "detect"}
      /\ recs' = recs /\ accepted' = accepted /\ written' = written
      /\ db' = db /\ objs' = objs /\ fetched' = fetched
  BY DEF Sort
<1>2. DOMAIN written = {} /\ accepted = <<>>
  BY <1>1 DEF LevelInv, Judged
<1>3. Merges'
  <2>1. ASSUME NEW a \in Account PROVE Merging(a)'
    <3>1. MergedOf(a)' = MergedOf(a)
      BY <1>1, <1>2 DEF MergedOf
    <3>. QED
      BY <1>1, <1>2, <3>1, NothingMerged, SameMerges
  <2>. QED
    BY <2>1 DEF Merges
<1>4. Replays'
  BY <1>1, <1>2 DEF Replays
<1>5. Updating'
  BY <1>1 DEF CommitInv, Updating, State
<1>. QED
  BY <1>3, <1>4, <1>5 DEF CommitInv

\* A turn of DetectConflicts: a conflicting record changes nothing, one that does
\* not conflict is accepted.
LEMMA DetectCommits == LevelInv /\ CommitInv /\ Detect => CommitInv'
<1>. SUFFICES ASSUME LevelInv, CommitInv, Detect PROVE CommitInv'
  OBVIOUS
<1>. DEFINE t == order[next].hash
<1>1. /\ phase = "detect" /\ phase' = phase /\ next <= Len(order)
      /\ recs' = recs /\ db' = db /\ objs' = objs /\ fetched' = fetched
  BY DEF Detect
<1>2. Updating'
  BY <1>1 DEF CommitInv, Updating, State
<1>3. CASE HasConflict(t)
  <2>1. maps' = maps /\ written' = written /\ accepted' = accepted
    BY <1>3 DEF Detect
  <2>2. Merges'
    <3>1. ASSUME NEW a \in Account PROVE Merging(a)'
      <4>1. MergedOf(a)' = MergedOf(a) /\ Merging(a)
        BY <1>1, <2>1 DEF MergedOf, CommitInv, Merges, Judging
      <4>. QED
        BY <1>1, <2>1, <4>1, SameMerges
    <3>. QED
      BY <3>1 DEF Merges
  <2>3. Replays'
    BY <1>1, <2>1, SameReplays DEF CommitInv, Judging
  <2>. QED
    BY <1>2, <2>2, <2>3 DEF CommitInv
<1>4. CASE ~HasConflict(t)
  <2>1. Accept(t) /\ accepted' = Append(accepted, t)
    BY <1>4 DEF Detect, Accept
  <2>2. /\ next \in 1 .. Len(order) /\ order \in Seq(Records) /\ accepted \in Seq(1 .. Level)
        /\ DOMAIN recs = 1 .. Level /\ next \in Nat
    BY <1>1, Constants DEF LevelInv, Typing
  <2>3. t \in (1 .. Level) \ Accepted
    <3>1. t \in 1 .. Level
      <4>1. order[next] \in Records
        BY <2>2
      <4>. QED
        BY <4>1 DEF Records
    <3>2. \A i \in 1 .. next - 1 : i \in 1 .. Len(order) /\ i # next
      BY <2>2
    <3>3. t \notin Hashes(order, next - 1)
      BY <2>2, <3>2 DEF Hashes, LevelInv, Listed
    <3>4. Accepted \subseteq Hashes(order, next - 1)
      BY <1>1 DEF LevelInv, Judged, Judging
    <3>. QED
      BY <3>1, <3>3, <3>4
  <2>. HIDE DEF t
  <2>4. /\ accepted' \in Seq(1 .. Level) /\ Len(accepted) \in Nat
        /\ Len(accepted') = Len(accepted) + 1
        /\ accepted'[Len(accepted) + 1] = t /\ \A i \in 1 .. Len(accepted) : accepted'[i] = accepted[i]
        /\ DOMAIN accepted' = 1 .. Len(accepted) + 1 /\ DOMAIN accepted = 1 .. Len(accepted)
    BY <2>1, <2>2, <2>3
  <2>5. Accepted' = Accepted \cup {t}
    <3>1. ToSet(accepted') = ToSet(accepted) \cup {t}
      BY <2>2, <2>4, AppendMembers
    <3>. QED
      BY <3>1, Zenon DEF Accepted
  <2>6. ASSUME NEW a \in Account
        PROVE  /\ Merging(a)'
               /\ <<a, Slot>> \in Reads(recs[t]) /\ Plain(a)' => SerialFrom(recs, accepted)[a].slot = 0
    <3>1. phase = "detect" /\ ~HasConflict(t) /\ recs' = recs /\ DOMAIN recs = 1 .. Level
      BY <1>1, <1>4, <2>2
    <3>. QED
      BY <2>1, <2>3, <2>5, <3>1, AcceptCommits
  <2>7. Replays'
    <3>1. ASSUME NEW i \in DOMAIN accepted', NEW a \in Account,
                 <<a, Slot>> \in Reads(recs[accepted'[i]]), Plain(a)'
          PROVE  SerialFrom(recs, SubSeq(accepted', 1, i - 1))[a].slot = 0
      <4>1. CASE i = Len(accepted) + 1
        <5>1. SubSeq(accepted', 1, i - 1) = accepted
          BY <2>1, <2>2, <2>3, <4>1
        <5>. QED
          BY <2>4, <2>6, <3>1, <4>1, <5>1
      <4>2. CASE i # Len(accepted) + 1
        <5>1. i \in 1 .. Len(accepted) /\ accepted'[i] = accepted[i]
          BY <2>4, <4>2
        <5>2. SubSeq(accepted', 1, i - 1) = SubSeq(accepted, 1, i - 1)
          BY <2>1, <2>2, <2>3, <5>1
        <5>3. Plain(a)
          BY <1>1, <2>5, <3>1 DEF Plain, FailedOn, UsersOf, Writes
        <5>. QED
          BY <1>1, <2>4, <3>1, <5>1, <5>2, <5>3 DEF CommitInv, Replays, Judging
      <4>. QED
        BY <4>1, <4>2
    <3>2. Replays' <=> (Judging' => \A i \in DOMAIN accepted' : \A a \in Account :
              <<a, Slot>> \in Reads(recs[accepted[i]])' /\ Plain(a)' =>
                  SerialFrom(recs', SubSeq(accepted', 1, i - 1))[a].slot = 0)
      BY DEF Replays
    <3>. QED
      BY <1>1, <3>1, <3>2 DEF Reads
  <2>. QED
    BY <1>2, <2>6, <2>7 DEF CommitInv, Merges
<1>. QED
  BY <1>3, <1>4

\* The objects to update are those of the state.
LEMMA FetchCommits == LevelInv /\ CommitInv /\ Fetch => CommitInv'
<1>. SUFFICES ASSUME LevelInv, CommitInv, Fetch PROVE CommitInv'
  OBVIOUS
<1>1. /\ phase \in {"detect", "redone"} /\ phase' \in {"stuck", "commit", "recommit"}
      /\ phase' = "commit" => phase = "detect"
      /\ fetched' = [a \in DOMAIN written |-> db[a]]
      /\ recs' = recs /\ accepted' = accepted /\ written' = written /\ maps' = maps
      /\ db' = db /\ objs' = objs
  BY DEF Fetch
<1>2. Merges'
  <2>1. ASSUME NEW a \in Account, Judging' PROVE Merging(a)'
    <3>1. MergedOf(a)' = MergedOf(a) /\ Merging(a)
      BY <1>1, <2>1 DEF MergedOf, CommitInv, Merges, Judging
    <3>. QED
      BY <1>1, <3>1, SameMerges
  <2>. QED
    BY <2>1 DEF Merges
<1>3. Replays'
  <2>1. CASE Judging
    BY <1>1, <2>1, SameReplays DEF CommitInv
  <2>2. CASE ~Judging
    BY <1>1, <2>2 DEF Replays, Judging
  <2>. QED
    BY <2>1, <2>2
<1>4. Updating'
  BY <1>1 DEF CommitInv, Updating, State
<1>. QED
  BY <1>2, <1>3, <1>4 DEF CommitInv

\* The object fetched is the account's, and no other account's, so that updating
\* it changes this account alone.
LEMMA CommitAccountCommits ==
    ASSUME LevelInv, CommitInv, NEW b \in Account, CommitAccount(b)
    PROVE  CommitInv'
<1>. DEFINE new == <<b, db[b][2] + 1>>
            created == CreatAccountKey \in DOMAIN maps[written[b]]
            updated == Updated(objs[fetched[b]], maps[written[b]])
<1>1. /\ phase \in {"commit", "recommit"} /\ phase' = phase /\ b \in DOMAIN fetched
      /\ recs' = recs /\ accepted' = accepted /\ written' = written /\ maps' = maps
      /\ fetched' = [a \in DOMAIN fetched \ {b} |-> fetched[a]]
      /\ objs' = IF created THEN Put(Put(objs, new, Recreated(objs[db[b]])), fetched[b], updated)
                 ELSE Put(objs, fetched[b], updated)
      /\ db' = IF created THEN [db EXCEPT ![b] = new] ELSE db
  BY DEF CommitAccount
<1>2. Merges'
  <2>1. ASSUME NEW a \in Account, Judging' PROVE Merging(a)'
    <3>1. MergedOf(a)' = MergedOf(a) /\ Merging(a)
      BY <1>1, <2>1 DEF MergedOf, CommitInv, Merges, Judging
    <3>. QED
      BY <1>1, <3>1, SameMerges
  <2>. QED
    BY <2>1 DEF Merges
<1>3. Replays'
  <2>1. CASE Judging
    BY <1>1, <2>1, SameReplays DEF CommitInv
  <2>2. CASE ~Judging
    BY <1>1, <2>2 DEF Replays, Judging
  <2>. QED
    BY <2>1, <2>2
<1>4. CASE phase = "recommit"
  BY <1>1, <1>2, <1>3, <1>4 DEF CommitInv, Updating
<1>5. CASE phase = "commit"
  <2>1. \A a \in Account : db[a][1] = a /\ (a \in DOMAIN fetched => fetched[a] = db[a])
    BY <1>5 DEF CommitInv, Updating
  <2>2. /\ \A a \in Account : a \in DOMAIN fetched => State(a) = Fresh
        /\ \A a \in Account : a \notin DOMAIN written => State(a) = Fresh
        /\ \A a \in DOMAIN written \ DOMAIN fetched :
              CreatAccountKey \notin DOMAIN MergedOf(a) => State(a) = Updated(Fresh, MergedOf(a))
        /\ DOMAIN written \subseteq Account
    BY <1>5 DEF CommitInv, Updating, LevelInv, MapsGood
  <2>3. /\ db \in [Account -> Account \X Nat] /\ \A a \in Account : db[a] \in DOMAIN objs
        /\ b \in DOMAIN written /\ fetched[b] = db[b] /\ new[1] = b
    BY <1>1, <2>1 DEF LevelInv, ObjectsGood
  <2>4. MergedOf(b) = maps[written[b]] /\ \A a \in Account : MergedOf(a)' = MergedOf(a)
    BY <1>1, <2>3 DEF MergedOf
  <2>. HIDE DEF new, created, updated
  <2>5. \A a \in Account : a # b => db'[a] = db[a]
    BY <1>1, <2>3
  <2>6. db'[b][1] = b
    BY <1>1, <2>1, <2>3
  <2>7. ASSUME NEW a \in Account, a # b PROVE State(a)' = State(a)
    <3>1. db[a][1] # b /\ db[b][1] = b
      BY <2>1, <2>7
    <3>2. db[a] # new /\ db[a] # fetched[b]
      BY <2>3, <3>1
    <3>3. objs'[db[a]] = objs[db[a]]
      BY <1>1, <2>3, <3>2 DEF Put
    <3>. QED
      BY <2>5, <2>7, <3>3 DEF State
  <2>8. ~created => State(b)' = Updated(Fresh, MergedOf(b))
    <3>. SUFFICES ASSUME ~created PROVE State(b)' = Updated(Fresh, MergedOf(b))
      OBVIOUS
    <3>1. objs'[db[b]] = updated /\ db' = db
      BY <1>1, <2>3 DEF Put
    <3>2. objs[fetched[b]] = Fresh
      BY <1>1, <2>2, <2>3 DEF State
    <3>. QED
      BY <2>4, <3>1, <3>2 DEF State, updated
  <2>9. DOMAIN fetched' = DOMAIN fetched \ {b} /\ \A a \in DOMAIN fetched \ {b} : fetched'[a] = fetched[a]
    BY <1>1
  <2>10. ASSUME NEW a \in Account
         PROVE  /\ db'[a][1] = a
                /\ a \in DOMAIN fetched' => fetched'[a] = db'[a]
                /\ IF a \in DOMAIN written \ DOMAIN fetched'
                   THEN CreatAccountKey \notin DOMAIN MergedOf(a) => State(a)' = Updated(Fresh, MergedOf(a))
                   ELSE State(a)' = Fresh
    <3>1. CASE a = b
      BY <2>3, <2>4, <2>6, <2>8, <2>9, <3>1 DEF created
    <3>2. CASE a # b
      BY <2>1, <2>2, <2>5, <2>7, <2>9, <3>2
    <3>. QED
      BY <3>1, <3>2
  <2>11. Updating'
    BY <1>1, <1>5, <2>4, <2>10 DEF Updating
  <2>. QED
    BY <1>2, <1>3, <2>11 DEF CommitInv
<1>. QED
  BY <1>1, <1>4, <1>5

\* Every object has been updated when the logs are added.
LEMMA AddLogsCommits == LevelInv /\ CommitInv /\ AddLogs => CommitInv'
<1>. SUFFICES ASSUME LevelInv, CommitInv, AddLogs PROVE CommitInv'
  OBVIOUS
<1>1. /\ phase \in {"commit", "recommit"} /\ phase' \in {"committed", "redo"}
      /\ phase' = "committed" => phase = "commit"
      /\ recs' = recs /\ accepted' = accepted /\ written' = written /\ maps' = maps
      /\ db' = db /\ objs' = objs /\ fetched' = fetched
  BY DEF AddLogs
<1>2. Merges'
  <2>1. ASSUME NEW a \in Account, Judging' PROVE Merging(a)'
    <3>1. MergedOf(a)' = MergedOf(a) /\ Merging(a)
      BY <1>1, <2>1 DEF MergedOf, CommitInv, Merges, Judging
    <3>. QED
      BY <1>1, <3>1, SameMerges
  <2>. QED
    BY <2>1 DEF Merges
<1>3. Replays'
  <2>1. CASE Judging
    BY <1>1, <2>1, SameReplays DEF CommitInv
  <2>2. CASE ~Judging
    BY <1>1, <2>2 DEF Replays, Judging
  <2>. QED
    BY <2>1, <2>2
<1>4. Updating'
  BY <1>1 DEF CommitInv, Updating, State, MergedOf
<1>. QED
  BY <1>2, <1>3, <1>4 DEF CommitInv

\* Executing a transaction again or returning leaves what CommitInv is about.
LEMMA LeaveCommits == CommitInv /\ (Redo \/ Return) => CommitInv'
<1>. SUFFICES ASSUME Redo \/ Return PROVE CommitInv'
  OBVIOUS
<1>1. phase' \in {"redone", "crashed", "done"}
  BY DEF Redo, Return
<1>. QED
  BY <1>1 DEF CommitInv, Merges, Replays, Updating, Judging

\* A step that changes nothing.
LEMMA StutterCommits == CommitInv /\ UNCHANGED vars => CommitInv'
<1>. SUFFICES ASSUME CommitInv, UNCHANGED vars PROVE CommitInv'
  OBVIOUS
<1>1. /\ phase' = phase /\ recs' = recs /\ accepted' = accepted /\ written' = written /\ maps' = maps
      /\ db' = db /\ objs' = objs /\ fetched' = fetched
  BY DEF vars
<1>2. \A a \in Account : MergedOf(a)' = MergedOf(a)
  BY <1>1 DEF MergedOf
<1>3. Merges'
  <2>1. ASSUME NEW a \in Account, Judging' PROVE Merging(a)'
    BY <1>1, <1>2, <2>1, SameMerges DEF CommitInv, Merges, Judging
  <2>. QED
    BY <2>1 DEF Merges
<1>4. Replays'
  <2>1. CASE Judging
    BY <1>1, <2>1, SameReplays DEF CommitInv
  <2>2. CASE ~Judging
    BY <1>1, <2>2 DEF Replays, Judging
  <2>. QED
    BY <2>1, <2>2
<1>5. Updating'
  BY <1>1, <1>2 DEF CommitInv, Updating, State
<1>. QED
  BY <1>3, <1>4, <1>5 DEF CommitInv

LEMMA CommitStep == LevelInv /\ CommitInv /\ [Next]_vars => CommitInv'
<1>. SUFFICES ASSUME LevelInv, CommitInv, [Next]_vars PROVE CommitInv'
  OBVIOUS
<1>1. CASE \E t \in 1 .. Level, rec \in Results : SetCache(t, rec)
  BY <1>1, SetCacheCommits
<1>2. CASE Sort
  BY <1>2, SortCommits
<1>3. CASE Detect
  BY <1>3, DetectCommits
<1>4. CASE Fetch
  BY <1>4, FetchCommits
<1>5. CASE \E a \in Account : CommitAccount(a)
  BY <1>5, CommitAccountCommits
<1>6. CASE AddLogs
  BY <1>6, AddLogsCommits
<1>7. CASE Redo \/ Return
  BY <1>7, LeaveCommits
<1>8. CASE UNCHANGED vars
  BY <1>8, StutterCommits
<1>. QED
  BY <1>1, <1>2, <1>3, <1>4, <1>5, <1>6, <1>7, <1>8 DEF Next

\* At every state the merged map of an account, the serial replay of the
\* accepted transactions and the account's object fit together.
THEOREM CommitInvariance == Spec => [](LevelInv /\ CommitInv)
<1>1. Init => CommitInv
  BY CommitInit
<1>2. LevelInv /\ CommitInv /\ [Next]_vars => CommitInv'
  BY CommitStep
<1>. QED
  BY <1>1, <1>2, LevelInvariance, PTL DEF Spec
-----------------------------------------------------------------------------
(* What the level leaves behind, against the serial executor.                *)

\* What the bounds of the properties on the number of transactions say.
LEMMA FewOf ==
    ASSUME NEW S \in SUBSET (1 .. Level)
    PROVE  /\ ~(Cardinality(S) > 1) => AtMostOne(S)
           /\ ~(Cardinality(S) > 0) => S = {}
<1>1. IsFiniteSet(S) /\ Cardinality(S) \in Nat
  <2>1. 1 \in Int /\ Level \in Int
    BY Constants
  <2>2. IsFiniteSet(1 .. Level)
    BY <2>1, FS_Interval
  <2>3. IsFiniteSet(S)
    BY <2>2, FS_Subset
  <2>. QED
    BY <2>3, FS_CardinalityType
<1>2. Cardinality(S) = 0 => S = {}
  BY <1>1, FS_EmptySet
<1>3. ASSUME NEW x \in S, NEW y \in S, x # y PROVE Cardinality(S) > 1
  <2>1. IsFiniteSet({x}) /\ Cardinality({x}) = 1 /\ y \notin {x}
    BY <1>3, FS_Singleton
  <2>2. Cardinality({x} \cup {y}) = 2
    BY <2>1, FS_AddElement
  <2>3. Cardinality({x} \cup {y}) <= Cardinality(S)
    BY <1>1, FS_Subset
  <2>. QED
    BY <1>1, <2>2, <2>3
<1>. QED
  BY <1>1, <1>2, <1>3 DEF AtMostOne

\* When the level has been committed the object of an account has what the
\* merged map gives it.
LEMMA CommittedState ==
    ASSUME LevelInv, CommitInv, Committed, NEW a \in Account, Plain(a)
    PROVE  State(a) = Updated(Fresh, MergedOf(a)) /\ Merging(a)
<1>1. Merging(a) /\ KeysWritten(a)
  BY DEF CommitInv, Merges, Merging, Judging, Committed
<1>2. DOMAIN fetched = {}
  BY DEF LevelInv, ObjectsGood, Committed
<1>3. CreatAccountKey \notin DOMAIN MergedOf(a)
  <2>1. ASSUME NEW t \in Accepted, CreatAccountKey \in Uses[recs[t].use[a]].writes PROVE FALSE
    <3>1. accepted \in Seq(1 .. Level) /\ DOMAIN recs = 1 .. Level /\ \A u \in DOMAIN recs : recs[u] \in Results
      BY DEF LevelInv, Typing, Committed
    <3>2. t \in 1 .. Level
      BY <3>1, MembersOf DEF Accepted
    <3>3. recs[t].use[a] \in DOMAIN Uses
      BY <3>1, <3>2, ResultsAssumption
    <3>4. recs[t].use[a] = "created"
      BY <2>1, <3>3, UsesLemma
    <3>. QED
      BY <3>4 DEF Plain, UsersOf
  <2>. QED
    BY <1>1, <2>1 DEF KeysWritten
<1>4. CASE a \in DOMAIN written
  BY <1>1, <1>2, <1>3, <1>4 DEF CommitInv, Updating, Committed
<1>5. CASE a \notin DOMAIN written
  <2>1. State(a) = Fresh
    BY <1>5 DEF CommitInv, Updating, Committed
  <2>2. Updated(Fresh, NoEntries) = Fresh
    BY Constants DEF Updated, Fresh, NoEntries
  <2>. QED
    BY <1>1, <1>5, <2>1, <2>2 DEF MergedOf
<1>. QED
  BY <1>4, <1>5, <1>1

\* A storage slot an accepted transaction read has, when the accepted ones
\* before it are committed in order, still the value it read from its copy
\* (cacheSet.go:188-207).
THEOREM SlotsReadAreCurrent == Spec => []ReadsAreSerializable
<1>1. CommitInv => ReadsAreSerializable
  <2>. SUFFICES ASSUME CommitInv, Committed, NEW i \in DOMAIN accepted, NEW a \in Account,
                       <<a, Slot>> \in Reads(recs[accepted[i]]), ~FailedOn(a),
                       UsersOf(a, {"created"}) = {}
                PROVE  SerialOf(SubSeq(accepted, 1, i - 1))[a].slot = 0
    BY DEF ReadsAreSerializable
  <2>1. SerialFrom(recs, SubSeq(accepted, 1, i - 1))[a].slot = 0
    BY DEF CommitInv, Replays, Judging, Committed, Plain
  <2>2. SerialOf(SubSeq(accepted, 1, i - 1)) = SerialFrom(recs, SubSeq(accepted, 1, i - 1))
    BY SerialIs
  <2>. QED
    BY <2>1, <2>2
<1>. QED
  BY <1>1, CommitInvariance, PTL

\* Merging the accepted results into one map per account and storing that leaves
\* the state of the serial executor, where it stores the same results one by
\* one, but for an account a result failed on or created, or one debited by one
\* transaction and paid by another (cacheSet.go:209-220, process.go:488-559).
THEOREM CommitsLikeSerial == Spec => []AgreesWithSerial
<1>1. LevelInv /\ CommitInv => AgreesWithSerial
  <2>. SUFFICES ASSUME LevelInv, CommitInv, Committed, NEW a \in Account, ~FailedOn(a),
                       UsersOf(a, {"created"}) = {},
                       ~(/\ Cardinality(UsersOf(a, {"payer", "sender"})) > 0
                         /\ Cardinality(UsersOf(a, {"payer", "sender", "payee"})) > 1)
                PROVE  State(a) = SerialOf(accepted)[a]
    BY DEF AgreesWithSerial
  <2>. DEFINE serial == SerialFrom(recs, accepted)[a]
              both == Updated(Fresh, MergedOf(a))
  <2>1. Plain(a)
    BY DEF Plain
  <2>2. State(a) = both /\ Merging(a)
    BY <2>1, CommittedState
  <2>3. Debitors(a) = {} \/ AtMostOne(Payments(a))
    <3>1. Accepted \subseteq 1 .. Level
      BY MembersOf DEF Accepted, LevelInv, Typing
    <3>2. Debitors(a) \in SUBSET (1 .. Level) /\ Payments(a) \in SUBSET (1 .. Level)
      BY <3>1 DEF Debitors, Payments, UsersOf
    <3>3. ~(Cardinality(Debitors(a)) > 0) \/ ~(Cardinality(Payments(a)) > 1)
      BY DEF Debitors, Payments
    <3>. QED
      BY <3>2, <3>3, FewOf
  <2>4. SameFields(serial, both) /\ serial.bal = both.bal
    BY <2>1, <2>2, <2>3 DEF Merging
  <2>5. both = [bal |-> both.bal, nonce |-> both.nonce, slot |-> both.slot, code |-> 0]
    BY DEF Updated, Fresh
  <2>6. SerialOf(accepted) = SerialFrom(recs, accepted)
    BY SerialIs
  <2>. HIDE DEF serial, both
  <2>7. serial = [bal |-> serial.bal, nonce |-> serial.nonce, slot |-> serial.slot, code |-> 0]
    BY <2>4 DEF SameFields, Object
  <2>8. serial = both
    BY <2>4, <2>5, <2>7 DEF SameFields
  <2>. QED
    BY <2>2, <2>6, <2>8 DEF serial, both
<1>. QED
  BY <1>1, CommitInvariance, PTL

\* Credits and debits of one level all reach the balance, in whatever order the
\* transactions were accepted, as long as one at most debits the account: of two
\* debits under one key the merged map keeps the last (ethvm.go:557).
THEOREM BalancesAreSums == Spec => []BalancesAddUp
<1>1. LevelInv /\ CommitInv => BalancesAddUp
  <2>. SUFFICES ASSUME LevelInv, CommitInv, Committed, NEW a \in Account, ~FailedOn(a),
                       UsersOf(a, {"created"}) = {},
                       ~(Cardinality(UsersOf(a, {"payer", "sender"})) > 1)
                PROVE  State(a).bal = Funds + PaidFrom(recs, a, Accepted)
    BY DEF BalancesAddUp, PaidFrom
  <2>1. Plain(a)
    BY DEF Plain
  <2>2. State(a) = Updated(Fresh, MergedOf(a)) /\ Merging(a)
    BY <2>1, CommittedState
  <2>3. AtMostOne(Debitors(a))
    <3>1. Accepted \subseteq 1 .. Level
      BY MembersOf DEF Accepted, LevelInv, Typing
    <3>2. Debitors(a) \in SUBSET (1 .. Level) /\ ~(Cardinality(Debitors(a)) > 1)
      BY <3>1 DEF Debitors, UsersOf
    <3>. QED
      BY <3>2, FewOf
  <2>. QED
    BY <2>1, <2>2, <2>3 DEF Merging
<1>. QED
  BY <1>1, CommitInvariance, PTL
=============================================================================
