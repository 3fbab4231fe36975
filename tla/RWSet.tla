------------------------------- MODULE RWSet -------------------------------
(***************************************************************************)
(* The read and write sets of vm/ethvm/ethvm.go: nested Go maps, account   *)
(* to key to value, with two counters that UpdateCache keeps beside them   *)
(* (and that the ordering of a level reads instead of the maps).           *)
(***************************************************************************)
EXTENDS Integers, FiniteSets

CONSTANTS BalanceKey, SubBalanceKey, NonceKey   \* the keys with a meaning

\* A Go map with no entries, and the map m after m[k] = v.
NoEntries == [x \in {} |-> 0]
Put(m, k, v) == [x \in DOMAIN m \cup {k} |-> IF x = k THEN v ELSE m[x]]

\* The map m after `for k, v := range n { m[k] = v }'.
Merge(m, n) == [x \in DOMAIN m \cup DOMAIN n |-> IF x \in DOMAIN n THEN n[x] ELSE m[x]]

\* cache[addr], an empty map if addr is absent.
At(cache, a) == IF a \in DOMAIN cache THEN cache[a] ELSE NoEntries
Has(set, a, k) == a \in DOMAIN set.cache /\ k \in DOMAIN set.cache[a]
ValueOf(set, a, k) == set.cache[a][k]            \* meant for Has(set, a, k)
Entries(cache) == UNION {{<<a, k>> : k \in DOMAIN cache[a]} : a \in DOMAIN cache}

NewSet == [cache |-> NoEntries, addressCount |-> 0, detailKeyCount |-> 0]

\* Variant of Stored: every update is counted as a new key.
StoredCountingAll(set, a, k, v) ==
    [cache          |-> Put(set.cache, a, Put(At(set.cache, a), k, v)),
     addressCount   |-> set.addressCount + (IF a \in DOMAIN set.cache THEN 0 ELSE 1),
     detailKeyCount |-> set.detailKeyCount + 1]

\* Stores v under (a, k) and counts what is new.
Stored(set, a, k, v) ==
    [cache          |-> Put(set.cache, a, Put(At(set.cache, a), k, v)),
     addressCount   |-> set.addressCount + (IF a \in DOMAIN set.cache THEN 0 ELSE 1),
     detailKeyCount |-> set.detailKeyCount + (IF Has(set, a, k) THEN 0 ELSE 1)]

\* ReadSet.UpdateCache: the two balance keys add up what is read, so that a
\* balance read twice is recorded as the sum; any other key keeps the last.
ReadUpdate(set, a, k, v) ==
    LET sum == IF k \in {BalanceKey, SubBalanceKey} /\ Has(set, a, k)
               THEN ValueOf(set, a, k) + v ELSE v
    IN  Stored(set, a, k, sum)

\* WriteSet.UpdateCache: the first credit of an account is added to the balance
\* its caller read (base), later ones to what is already there.
WriteUpdate(set, a, k, v, base) ==
    LET sum == CASE k = BalanceKey    -> (IF Has(set, a, k) THEN ValueOf(set, a, k) ELSE base) + v
                 [] k = SubBalanceKey -> (IF Has(set, a, k) THEN ValueOf(set, a, k) ELSE 0) + v
                 [] OTHER             -> v
    IN  Stored(set, a, k, sum)

\* A map with only the nonce of m, what a failed transaction may write.
OnlyNonce(m) == [k \in DOMAIN m \cap {NonceKey} |-> m[k]]
=============================================================================
