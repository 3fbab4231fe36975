---------------------------- MODULE LevelCommit ----------------------------
(***************************************************************************)
(* The end of one level for arbitrary read and write sets: the results are *)
(* collected in a CacheSet in any order and sorted, DetectConflicts and    *)
(* RelExecTx of process/cacheSet.go run, and UpdateWrittenCacheToDataBase  *)
(* of process/process.go commits, beside what ExecTxsInOrder commits for   *)
(* the same results.                                                       *)
(*                                                                         *)
(* Go maps are references: a map has a name here, so that a map taken over *)
(* by wCache.Written and the write set it came from stay one map.  State   *)
(* objects have names for the same reason.                                 *)
(***************************************************************************)
EXTENDS RWSet, CacheOrder

CONSTANTS CreatAccountKey, SetCodeKey,
          Slot,         \* a storage key; the other keys have a meaning
          Account,
          Results,      \* what a transaction can leave behind, see Uses
          Level,        \* the number of transactions of the level, at most 12
          MaxArrivals,  \* bound: results received, a hash may come again
          Funds,        \* balance of every account before the level
          Amount        \* what a transaction pays or is paid

ASSUME LevelCommitAssumption ==
    /\ {Funds, Amount, MaxArrivals} \subseteq Nat /\ Level \in 1 .. 12
    /\ LET keys == <<BalanceKey, SubBalanceKey, NonceKey, CreatAccountKey, SetCodeKey, Slot>>
       IN  \A i, j \in DOMAIN keys : keys[i] = keys[j] => i = j
    /\ IsFiniteSet(Account)

VARIABLES phase,
          recs,       \* the result of each transaction
          received,   \* the number of results received from resChan
          order,      \* rwSet.Order, as the records Less compares
          maps,       \* the maps by name
          written,    \* wCache.Written: account to map
          next,       \* the record the sort or DetectConflicts looks at
          accepted,   \* the records whose writes were merged, in order
          conflicts,  \* conflictTxHashes
          db,         \* StateDB: account to state object
          objs,       \* the state objects by name
          fetched,    \* the objects the goroutines fetched, not yet updated
          wLogs,      \* wCache.Logs: the transactions with logs in it
          logs        \* how often AddLogWithTxHash was called, per transaction

vars == <<phase, recs, received, order, maps, written, next, accepted, conflicts, db, objs, fetched, wLogs, logs>>

(* What a transaction uses of an account: the keys it reads and writes.      *)
Uses == [untouched |-> [reads |-> {}, writes |-> {}],
         sender    |-> [reads |-> {BalanceKey}, writes |-> {SubBalanceKey, NonceKey, BalanceKey}],
         payee     |-> [reads |-> {BalanceKey}, writes |-> {BalanceKey}],
         payer     |-> [reads |-> {BalanceKey}, writes |-> {SubBalanceKey}],
         loads     |-> [reads |-> {Slot}, writes |-> {}],
         stores    |-> [reads |-> {}, writes |-> {Slot}],
         updates   |-> [reads |-> {Slot}, writes |-> {Slot}],
         creates   |-> [reads |-> {NonceKey}, writes |-> {NonceKey, Slot}],
         created   |-> [reads |-> {}, writes |-> {CreatAccountKey, SetCodeKey, Slot}]]

\* A result: what it uses each account for, and whether the VM ended with an
\* error, of which there is a receipt.
ASSUME ResultsAssumption == Results \subseteq [use : [Account -> DOMAIN Uses], failed : BOOLEAN]

Reads(rec) == UNION {{<<a, k>> : k \in Uses[rec.use[a]].reads} : a \in Account}
Writes(rec) == {a \in Account : Uses[rec.use[a]].writes # {}}

\* The value transaction t writes under k, executed on object o: credits are
\* added to the balance, everything else is its own.
Credit(t, use) == IF use \in {"payee", "sender"} THEN Amount + t ELSE 0
Debit(t, use) == IF use \in {"payer", "sender"} THEN Amount ELSE 0
Written(t, use, o) ==
    [k \in Uses[use].writes |->
        CASE k = BalanceKey    -> o.bal + Credit(t, use)
          [] k = SubBalanceKey -> Debit(t, use)
          [] k = NonceKey      -> o.nonce + 1
          [] OTHER             -> t]

Own(t, a) == <<t, a, "own">>          \* the map of a in the write set of t
Nonce(t, a) == <<t, a, "nonce">>      \* nCache

Object == [bal : Int, nonce : Nat, slot : Nat, code : Nat]
Fresh == [bal |-> Funds, nonce |-> 1, slot |-> 0, code |-> 0]

Init ==
    /\ phase = "collect"
    /\ received = 0 /\ order = <<>>
    /\ recs = NoEntries
    /\ objs = [o \in Account \X {0} |-> Fresh]
    /\ db = [a \in Account |-> <<a, 0>>]
    /\ maps = NoEntries /\ written = NoEntries /\ fetched = NoEntries
    /\ next = 1 /\ accepted = <<>> /\ conflicts = <<>>
    /\ wLogs = {} /\ logs = [t \in 1 .. Level |-> 0]
-----------------------------------------------------------------------------
\* What Less looks at: accounts and keys of the two sets.
RecordOf(t, rec) ==
    LET WKeys == UNION {{<<a, k>> : k \in Uses[rec.use[a]].writes} : a \in Account}
    IN  [hash |-> t, w |-> Cardinality(Writes(rec)), wkeys |-> Cardinality(WKeys),
         r |-> Cardinality({e[1] : e \in Reads(rec)}), rkeys |-> Cardinality(Reads(rec))]

\* SetCache of a result received from resChan; a hash that arrives again is the
\* same transaction, placed twice in the block.
SetCache(t, rec) ==
    /\ phase = "collect" /\ received < MaxArrivals
    /\ t \in DOMAIN recs => /\ received + Cardinality((1 .. Level) \ DOMAIN recs) < MaxArrivals
                            /\ rec = recs[t]
    /\ recs' = IF t \in DOMAIN recs THEN recs ELSE Put(recs, t, rec)
    /\ order' = Cached(order, RecordOf(t, rec))
    /\ received' = received + 1
    /\ UNCHANGED <<phase, maps, written, next, accepted, conflicts, db, objs, fetched, wLogs, logs>>

\* The record after the n sorted ones moves to its place.
Turn(o, n) == Insert(SubSeq(o, 1, n), o[n + 1]) \o SubSeq(o, n + 2, Len(o))

\* Every transaction has answered: sort.Sort, one turn of the insertion sort's
\* outer loop at a time; the first `next' records are sorted.
Sort ==
    /\ phase = "collect" /\ DOMAIN recs = 1 .. Level
    /\ \/ /\ next < Len(order)
          /\ order' = Turn(order, next)
          /\ next' = next + 1
          /\ UNCHANGED <<phase, maps>>
       \/ /\ next >= Len(order)
          /\ phase' = "detect"
          /\ maps' = [n \in {Own(t, a) : t \in 1 .. Level, a \in Account} |->
                         Written(n[1], recs[n[1]].use[n[2]], Fresh)]
          /\ next' = 1
          /\ UNCHANGED order
    /\ received' = MaxArrivals
    /\ UNCHANGED <<recs, written, accepted, conflicts, db, objs, fetched, wLogs, logs>>

\* Variant of HasConflict: only balances are compared.
HasBalanceConflict(t) ==
    \E e \in Reads(recs[t]) : e[2] = BalanceKey /\ e[1] \in DOMAIN written
                                /\ e[2] \in DOMAIN maps[written[e[1]]]

HasConflict(t) ==
    \E e \in Reads(recs[t]) : e[1] \in DOMAIN written /\ e[2] \in DOMAIN maps[written[e[1]]]

\* A failed result is cut down to the nonce, where it has one.
KeepsNonce(t, a) == recs[t].failed /\ NonceKey \in DOMAIN maps[Own(t, a)]

\* The map the entries of t for a are merged into: the account's, or the write
\* set's own, which wCache.Written then shares.
Target(t, a) == IF a \in DOMAIN written THEN written[a] ELSE Own(t, a)

\* Variants of Accept: what is in wCache.Written already stays; nCache is not
\* filled.
AcceptKeeping(t) ==
    LET ws       == Writes(recs[t])
        merged   == [n \in {Target(t, a) : a \in ws} |->
                        Merge(maps[Own(t, CHOOSE a \in ws : Target(t, a) = n)], maps[n])]
        nonces   == [n \in {Nonce(t, a) : a \in {b \in ws : KeepsNonce(t, b)}} |->
                        OnlyNonce(maps[Own(t, n[2])])]
    IN  /\ maps' = Merge(Merge(maps, merged), nonces)
        /\ written' = Merge(written,
               [a \in ws |-> IF KeepsNonce(t, a) THEN Nonce(t, a) ELSE Target(t, a)])
        /\ wLogs' = IF ws = {} THEN wLogs ELSE wLogs \cup {t}
        /\ accepted' = Append(accepted, t)
AcceptUnfilled(t) ==
    LET ws       == Writes(recs[t])
        merged   == [n \in {Target(t, a) : a \in ws} |->
                        Merge(maps[n], maps[Own(t, CHOOSE a \in ws : Target(t, a) = n)])]
    IN  /\ maps' = Merge(maps, merged)
        /\ written' = Merge(written,
               [a \in ws |-> IF KeepsNonce(t, a) THEN Nonce(t, a) ELSE Target(t, a)])
        /\ wLogs' = IF ws = {} THEN wLogs ELSE wLogs \cup {t}
        /\ accepted' = Append(accepted, t)

Accept(t) ==
    LET ws       == Writes(recs[t])
        merged   == [n \in {Target(t, a) : a \in ws} |->
                        Merge(maps[n], maps[Own(t, CHOOSE a \in ws : Target(t, a) = n)])]
        nonces   == [n \in {Nonce(t, a) : a \in {b \in ws : KeepsNonce(t, b)}} |->
                        OnlyNonce(maps[Own(t, n[2])])]
    IN  /\ maps' = Merge(Merge(maps, merged), nonces)
        /\ written' = Merge(written,
               [a \in ws |-> IF KeepsNonce(t, a) THEN Nonce(t, a) ELSE Target(t, a)])
        /\ wLogs' = IF ws = {} THEN wLogs ELSE wLogs \cup {t}
        /\ accepted' = Append(accepted, t)

\* Variant of Detect: a conflicting record is queued and merged as well.
DetectMerging ==
    /\ phase = "detect" /\ next <= Len(order)
    /\ next' = next + 1
    /\ conflicts' = IF HasConflict(order[next].hash) THEN Append(conflicts, order[next].hash) ELSE conflicts
    /\ Accept(order[next].hash)
    /\ UNCHANGED <<phase, recs, received, order, db, objs, fetched, logs>>

\* One turn of the loop of DetectConflicts.
Detect ==
    /\ phase = "detect" /\ next <= Len(order)
    /\ next' = next + 1
    /\ IF HasConflict(order[next].hash)
       THEN /\ conflicts' = Append(conflicts, order[next].hash)
            /\ UNCHANGED <<maps, written, wLogs, accepted>>
       ELSE Accept(order[next].hash) /\ UNCHANGED conflicts
    /\ UNCHANGED <<phase, recs, received, order, db, objs, fetched, logs>>

\* Variant of Fetch: an object is awaited for every record.
FetchPerRecord ==
    /\ phase \in {"detect", "redone"} /\ next > Len(order)
    /\ fetched' = [a \in DOMAIN written |-> db[a]]
    /\ phase' = IF Cardinality(DOMAIN written) < Len(accepted) THEN "stuck"
                ELSE IF phase = "detect" THEN "commit" ELSE "recommit"
    /\ UNCHANGED <<recs, received, order, maps, written, next, accepted, conflicts, db, objs,
                   wLogs, logs>>

\* UpdateWrittenCacheToDataBase: one goroutine per account fetches its object;
\* the main goroutine waits for all.  With no account it waits for ever.
Fetch ==
    /\ phase \in {"detect", "redone"} /\ next > Len(order)
    /\ fetched' = [a \in DOMAIN written |-> db[a]]
    /\ phase' = IF written = NoEntries THEN "stuck"
                ELSE IF phase = "detect" THEN "commit" ELSE "recommit"
    /\ UNCHANGED <<recs, received, order, maps, written, next, accepted, conflicts, db, objs,
                   wLogs, logs>>

\* Variant of Updated: SubBalanceKey is one of the keys to skip.
UpdatedWithoutDebit(o, m) ==
    [bal   |-> IF BalanceKey \in DOMAIN m THEN m[BalanceKey] ELSE o.bal,
     nonce |-> IF NonceKey \in DOMAIN m THEN m[NonceKey] ELSE o.nonce,
     slot  |-> IF Slot \in DOMAIN m THEN m[Slot] ELSE o.slot,
     code  |-> o.code]

\* The setters called on the state object.
Updated(o, m) ==
    [bal   |-> (IF BalanceKey \in DOMAIN m THEN m[BalanceKey] ELSE o.bal)
               - (IF SubBalanceKey \in DOMAIN m THEN m[SubBalanceKey] ELSE 0),
     nonce |-> IF NonceKey \in DOMAIN m THEN m[NonceKey] ELSE o.nonce,
     slot  |-> IF Slot \in DOMAIN m THEN m[Slot] ELSE o.slot,
     code  |-> o.code]

\* StateDB.CreateAccount and SetNonce: a new object with the balance of the old.
Recreated(o) == [bal |-> o.bal, nonce |-> 1, slot |-> 0, code |-> 0]

\* One object received from objChan, in any order: the account may be created,
\* which gives it another object, and then the fetched one is updated.
CommitAccount(a) ==
    LET m       == maps[written[a]]
        new     == <<a, db[a][2] + 1>>
        created == CreatAccountKey \in DOMAIN m
    IN  /\ phase \in {"commit", "recommit"} /\ a \in DOMAIN fetched
        /\ objs' = IF created
                   THEN Put(Put(objs, new, Recreated(objs[db[a]])),
                            fetched[a], Updated(objs[fetched[a]], m))
                   ELSE Put(objs, fetched[a], Updated(objs[fetched[a]], m))
        /\ db' = IF created THEN [db EXCEPT ![a] = new] ELSE db
        /\ fetched' = [b \in DOMAIN fetched \ {a} |-> fetched[b]]
        /\ UNCHANGED <<phase, recs, received, order, maps, written, next, accepted, conflicts,
                       wLogs, logs>>

\* Variant of AddLogs: only the first commit of the level adds logs.
AddLogsOnce ==
    /\ phase \in {"commit", "recommit"} /\ fetched = NoEntries
    /\ logs' = [t \in 1 .. Level |->
                   logs[t] + (IF t \in wLogs /\ phase = "commit" THEN 1 ELSE 0)]
    /\ phase' = IF phase = "commit" THEN "committed" ELSE "redo"
    /\ UNCHANGED <<recs, received, order, maps, written, next, accepted, conflicts, db, objs,
                   fetched, wLogs>>

\* All objects have been received: the logs of wCache, and back to the caller.
AddLogs ==
    /\ phase \in {"commit", "recommit"} /\ fetched = NoEntries
    /\ logs' = [t \in 1 .. Level |-> logs[t] + (IF t \in wLogs THEN 1 ELSE 0)]
    /\ phase' = IF phase = "commit" THEN "committed" ELSE "redo"
    /\ UNCHANGED <<recs, received, order, maps, written, next, accepted, conflicts, db, objs,
                   fetched, wLogs>>

\* RelExecTx: the transaction is executed again on the committed state, with
\* any result; a consensus error leaves no receipt to write to.
Redo ==
    LET t == Head(conflicts)
    IN  /\ phase \in {"committed", "redo"} /\ conflicts # <<>>
        /\ \/ \E rec \in Results :
                /\ recs' = [recs EXCEPT ![t] = rec]
                /\ maps' = Merge(maps, [n \in {Own(t, a) : a \in Account} |->
                       LET m == Written(t, rec.use[n[2]], objs[db[n[2]]])
                       IN  IF rec.failed /\ NonceKey \in DOMAIN m THEN OnlyNonce(m) ELSE m])
                /\ written' = [a \in Writes(rec) |-> Own(t, a)]
                /\ wLogs' = wLogs \cup {t}
                /\ conflicts' = Tail(conflicts)
                /\ phase' = "redone"
           \/ phase' = "crashed" /\ UNCHANGED <<recs, received, order, maps, written, wLogs, conflicts>>
        /\ UNCHANGED <<received, order, next, accepted, db, objs, fetched, logs>>

Return ==
    /\ phase \in {"committed", "redo"} /\ conflicts = <<>>
    /\ phase' = "done"
    /\ UNCHANGED <<recs, received, order, maps, written, next, accepted, conflicts, db, objs,
                   fetched, wLogs, logs>>

Next == \/ \E t \in 1 .. Level, rec \in Results : SetCache(t, rec)
        \/ Sort \/ Detect \/ Fetch \/ (\E a \in Account : CommitAccount(a)) \/ AddLogs
        \/ Redo \/ Return

Spec == Init /\ [][Next]_vars /\ WF_vars(Next)
-----------------------------------------------------------------------------
(* ExecTxsInOrder: the same results committed one after the other.           *)

\* A failed result keeps nothing but nonces.
InOrderMap(t) ==
    [a \in Writes(recs[t]) |->
        LET m == Written(t, recs[t].use[a], Fresh)
        IN  IF recs[t].failed THEN OnlyNonce(m) ELSE m]

\* UpdateWrittenCacheToDataBaseInOrder, for one account.
UpdatedInOrder(o, m) ==
    LET base == IF CreatAccountKey \in DOMAIN m THEN Recreated(o) ELSE o
    IN  [Updated(base, m) EXCEPT !.code = IF SetCodeKey \in DOMAIN m THEN m[SetCodeKey] ELSE @]

InOrder(state, t) ==
    [a \in Account |-> IF a \in Writes(recs[t]) THEN UpdatedInOrder(state[a], InOrderMap(t)[a])
                       ELSE state[a]]
Before == [a \in Account |-> Fresh]
SerialOf(ts) == FoldLeft(InOrder, Before, ts)
-----------------------------------------------------------------------------
State(a) == objs[db[a]]
Committed == phase = "committed"
Accepted == ToSet(accepted)
UsersOf(a, uses) == {t \in Accepted : recs[t].use[a] \in uses}
FailedOn(a) == \E t \in Accepted : recs[t].failed /\ a \in Writes(recs[t])

\* Types of the state, and where each step may find the level.
TypeOK ==
    /\ phase \in {"collect", "detect", "commit", "committed", "redo", "redone", "recommit",
                  "done", "stuck", "crashed"}
    /\ db \in [Account -> Account \X Nat] /\ \A a \in Account : State(a) \in Object
    /\ DOMAIN written \subseteq Account /\ \A a \in DOMAIN written : written[a] \in DOMAIN maps
    /\ DOMAIN fetched \subseteq DOMAIN written
    /\ next \in 1 .. Level + 1
    /\ Accepted \subseteq 1 .. Level /\ wLogs \subseteq 1 .. Level

\* When Less does not contradict itself on two records of the level, which it
\* does when one wrote more keys and the other read more, the order in which
\* conflicts are detected does not depend on which goroutine answered first
\* (cacheSet.go:297-340).
Clash(x, y) == Less(x, y) /\ Less(y, x)
ArrivalIndependent ==
    (phase = "detect" /\ \A i, j \in DOMAIN order : ~Clash(order[i], order[j])) =>
        \A i, j \in DOMAIN order : i < j => Less(order[i], order[j])

\* A transaction that is to be executed again has lent its maps to nobody: its
\* sets are what its execution left (cacheSet.go:213-216).
ConflictSetsUntouched ==
    phase \in {"detect", "commit", "committed"} => \A i \in DOMAIN conflicts : \A a \in Account :
        LET t == conflicts[i] IN maps[Own(t, a)] = Written(t, recs[t].use[a], Fresh)

\* Merging the accepted results into one map per account and storing that is
\* the same as storing the results one by one, as the serial executor does,
\* for an account no accepted result created or failed on, and not debited by
\* one and paid by another (cacheSet.go:209-220, process.go:488-559).
AgreesWithSerial ==
    Committed => \A a \in Account :
        \/ FailedOn(a) \/ UsersOf(a, {"created"}) # {}
        \/ Cardinality(UsersOf(a, {"payer", "sender"})) > 0
              /\ Cardinality(UsersOf(a, {"payer", "sender", "payee"})) > 1
        \/ State(a) = SerialOf(accepted)[a]

\* Credits and debits of one level all reach the balance, in whatever order
\* they were accepted, as long as one transaction at most debits the account:
\* of two debits under one key the merged map keeps the last (ethvm.go:557).
BalancesAddUp ==
    Committed => \A a \in Account :
        \/ FailedOn(a) \/ UsersOf(a, {"created"}) # {}
        \/ Cardinality(UsersOf(a, {"payer", "sender"})) > 1
        \/ State(a).bal = Funds + MapThenSumSet(LAMBDA t : Credit(t, recs[t].use[a])
                                                            - Debit(t, recs[t].use[a]), Accepted)

\* A storage slot an accepted transaction read has, when the accepted ones
\* before it are committed in order, still the value it read from the copy
\* (cacheSet.go:188-207).
ReadsAreSerializable ==
    Committed => \A i \in DOMAIN accepted :
        LET before == SerialOf(SubSeq(accepted, 1, i - 1))
        IN  \A a \in Account : (<<a, Slot>> \in Reads(recs[accepted[i]])
                                  /\ ~FailedOn(a) /\ UsersOf(a, {"created"}) = {})
                => before[a].slot = 0

\* The logs of every transaction with a write set reach the state, and reach it
\* once more only for each transaction executed again, because wCache.Logs is
\* not emptied in between (cacheSet.go:231, 282, process.go:553-557).
LogsAreAdded ==
    phase = "done" => \A t \in 1 .. Level :
        Writes(recs[t]) # {} => logs[t] \in 1 .. 1 + Level - Len(accepted)

\* No transaction is dropped by the commit: each is committed in place or
\* executed again, and none is both (cacheSet.go:180-242).
EachOnce ==
    phase \in {"commit", "committed"} =>
        /\ Accepted \cup ToSet(conflicts) = 1 .. Level
        /\ Len(accepted) + Len(conflicts) = Level

\* When every execution of a transaction leaves a write set, the commit returns
\* to its caller or the process ends: the loops that receive objects receive as
\* many as were sent (process.go:509-551).
CommitReturns ==
    [](\A t \in DOMAIN recs : Writes(recs[t]) # {}) => <>(phase \in {"done", "crashed"})

\* ExecTxsInOrder says of a transaction with an error that only its nonce is
\* updated (process.go:274): a failed result changes no balance and no storage.
FailedUpdatesOnlyNonce ==
    Committed => \A a \in Account :
        (\A t \in 1 .. Level : recs[t].failed) =>
            [State(a) EXCEPT !.nonce = 0] = [Fresh EXCEPT !.nonce = 0]
=============================================================================
