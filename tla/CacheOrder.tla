---------------------------- MODULE CacheOrder ------------------------------
(***************************************************************************)
(* CacheSet of process/cacheSet.go: the records of one level, collected in *)
(* the order the goroutines answered and sorted with Less before the       *)
(* conflict check.  A record is known here by what Less looks at: its hash *)
(* and the four counters of its read and write sets.                       *)
(***************************************************************************)
EXTENDS Integers, Sequences, SequencesExt

\* Variant of Less: no tie-break by hash.
LessWithoutHash(i, j) ==
    \/ i.w > j.w
    \/ i.w = j.w /\ i.r < j.r
    \/ i.w = j.w /\ i.r = j.r /\ (i.wkeys > j.wkeys \/ i.rkeys > j.rkeys)

\* Less(i, j) on the records at i and j.
Less(i, j) ==
    \/ i.w > j.w
    \/ i.w = j.w /\ i.r < j.r
    \/ /\ i.w = j.w /\ i.r = j.r
       /\ \/ i.wkeys > j.wkeys
          \/ i.rkeys > j.rkeys       \* also when j has the more written keys
          \/ i.wkeys = j.wkeys /\ i.rkeys = j.rkeys /\ i.hash > j.hash

\* sort.Sort on at most 12 elements is an insertion sort: a record moves left
\* while it is less than its neighbour.
Insert(sorted, x) ==
    LET stops == {0} \cup {i \in DOMAIN sorted : ~Less(x, sorted[i])}
    IN  InsertAt(sorted, Max(stops) + 1, x)

Sorted(records) == FoldLeft(Insert, <<>>, records)

\* SetCache keeps the first record of a transaction hash.
Cached(records, x) ==
    IF \E i \in DOMAIN records : records[i].hash = x.hash THEN records
    ELSE Append(records, x)
=============================================================================
