-------------------------- MODULE AuditQueueProofs --------------------------
(***************************************************************************)
(* Proofs about AuditQueue for every set of transactions and every number  *)
(* of lives of the process.                                                *)
(*                                                                         *)
(* The inductive invariant AuditInv says who holds the mutex and what its  *)
(* number is worth at each step, that every number in use names a stored   *)
(* task, and that an audit is of the task its key names.                   *)
(***************************************************************************)
EXTENDS AuditQueue, FiniteSetTheorems, TLAPS

States == {"none", "direct", "waiting", "numbered", "stored", "counted", "blocked", "returned", "skipped"}

\* Every variable has its type.
Typing ==
    /\ num \in Nat /\ pre \in 0 .. num
    /\ record \in [Keys -> Tx \cup {NoTx}] /\ status \in [Final -> {"none", "failed", "passed"}]
    /\ chain \subseteq Tx /\ synchronis \in BOOLEAN /\ life \in 1 .. MaxLives /\ open \in BOOLEAN
    /\ loop \in {"starting", "reloading", "running", "stopped"} /\ made \in BOOLEAN
    /\ reload \in [pre : 0 .. num, i : 0 .. num, num : 0 .. num]
    /\ queue \in Seq(1 .. num)
    /\ dblock \in Tx \cup {NoTx} /\ call \in [Tx -> States] /\ key \in [Tx -> Nat]
    /\ audits \subseteq [key : 1 .. num, tx : Tx \cup {NoTx}, saved : BOOLEAN]

\* A transaction is counted at most once in a life of the process, and those
\* whose call has returned only once at all.
Counted == {t \in Tx : call[t] \in {"counted", "blocked", "returned"}}
NumberBounded == num <= (life - 1) * Cardinality(Tx) + Cardinality(Counted)

\* The mutex is held from the number's being read to its being sent, and what
\* the holder's number is worth at each step.
Holding == {"numbered", "stored", "counted", "blocked"}
MutexHeld == \A t \in Tx : call[t] \in Holding <=> dblock = t
NumberOfCall ==
    \A t \in Tx :
        /\ call[t] \in {"numbered", "stored"} => key[t] = num + 1
        /\ call[t] \in {"counted", "blocked"} => key[t] = num /\ num > 0
        /\ call[t] = "returned" => key[t] \in 1 .. num
        /\ call[t] \in {"stored", "counted", "blocked", "returned"} => record[key[t]] = t

\* An audit is of the task its key names, and has a result once it has saved.
AuditsOfTasks ==
    \A a \in audits :
        /\ a.tx = record[a.key]
        /\ a.saved => a.tx \in Tx /\ Judged(a.tx)

\* The channel is made with the capacity for what was read, and audited from
\* only when all of that is in it.
LoopOrder ==
    /\ made <=> loop # "starting"
    /\ loop = "starting" => queue = <<>> /\ reload = NotRead
    /\ loop \in {"starting", "reloading"} => audits = {}
    /\ reload.pre <= reload.i /\ reload.i <= reload.num
    /\ Len(queue) <= (reload.num - reload.pre) + Slack

AuditInv ==
    /\ Typing /\ NumberBounded /\ MutexHeld /\ NumberOfCall /\ AuditsOfTasks /\ LoopOrder
    /\ NothingElseLost
-----------------------------------------------------------------------------
(* Lemmas about the numbers.                                                 *)

\* Multiplication keeps the order.
LEMMA Product ==
    ASSUME NEW a \in Nat, NEW b \in Nat, NEW c \in Nat, a <= b
    PROVE  a * c \in Nat /\ a * c <= b * c
<1>1. PICK d \in Nat : b = a + d
  BY b - a \in Nat, b = a + (b - a)
<1>2. b * c = a * c + d * c
  BY <1>1
<1>3. d * c \in Nat /\ a * c \in Nat
  OBVIOUS
<1>. QED
  BY <1>2, <1>3

\* The keys suffice: a number is given once in each life to each transaction.
LEMMA NumberLemma ==
    ASSUME Typing, NumberBounded
    PROVE  /\ Cardinality(Tx) \in Nat /\ Cardinality(Counted) \in Nat
           /\ Cardinality(Counted) <= Cardinality(Tx)
           /\ num <= life * Cardinality(Tx)
           /\ Keys = 1 .. Cardinality(Tx) * MaxLives /\ Cardinality(Tx) * MaxLives \in Nat
           /\ 1 .. num \subseteq Keys /\ num <= Cardinality(Tx) * MaxLives
           /\ (\E t \in Tx : t \notin Counted) => num + 1 \in Keys
<1> DEFINE c == Cardinality(Tx)  n == Cardinality(Counted)
<1>1. c \in Nat /\ n \in Nat /\ n <= c
  BY AuditAssumption, FS_CardinalityType, FS_Subset, Counted \subseteq Tx DEF Counted
<1>2. (\E t \in Tx : t \notin Counted) => n < c
  BY AuditAssumption, FS_CardinalityType, FS_Subset, Counted \subseteq Tx DEF Counted
<1>3. life \in Nat \ {0} /\ life <= MaxLives /\ MaxLives \in Nat \ {0} /\ num \in Nat
  BY AuditAssumption DEF Typing
<1>4. num <= (life - 1) * c + n
  BY DEF NumberBounded
<1>5. Keys = 1 .. c * MaxLives
  BY DEF Keys
<1> HIDE DEF c, n
<1>6. (life - 1) * c + c = life * c /\ (life - 1) * c \in Nat
  BY <1>1, <1>3
<1>7. life * c \in Nat /\ life * c <= MaxLives * c
  BY <1>1, <1>3, Product
<1>8. MaxLives * c = c * MaxLives
  BY <1>1, <1>3
<1>9. num <= life * c /\ ((\E t \in Tx : t \notin Counted) => num + 1 <= life * c)
  BY <1>1, <1>2, <1>3, <1>4, <1>6
<1>. QED
  BY <1>1, <1>3, <1>5, <1>7, <1>8, <1>9 DEF c, n

-----------------------------------------------------------------------------
(* The actions.                                                              *)

\* The first life begins with an empty database.
LEMMA AuditInit == Init => AuditInv
<1> SUFFICES ASSUME Init PROVE AuditInv
  OBVIOUS
<1>1. Cardinality(Tx) \in Nat /\ MaxLives \in Nat \ {0} /\ IsFiniteSet({}) /\ Cardinality({}) = 0
  BY AuditAssumption, FS_CardinalityType, FS_EmptySet
<1>2. Typing
  <2>1. num \in Nat /\ pre \in 0 .. num /\ life \in 1 .. MaxLives /\ queue \in Seq(1 .. num)
    BY <1>1 DEF Init
  <2>2. reload \in [pre : 0 .. num, i : 0 .. num, num : 0 .. num]
    BY DEF Init, NotRead
  <2>3. synchronis \in BOOLEAN /\ open \in BOOLEAN /\ made \in BOOLEAN
    BY DEF Init
  <2>4. /\ record \in [Keys -> Tx \cup {NoTx}] /\ status \in [Final -> {"none", "failed", "passed"}]
        /\ chain \subseteq Tx /\ loop \in {"starting", "reloading", "running", "stopped"}
        /\ dblock \in Tx \cup {NoTx} /\ call \in [Tx -> States] /\ key \in [Tx -> Nat]
        /\ audits \subseteq [key : 1 .. num, tx : Tx \cup {NoTx}, saved : BOOLEAN]
    BY DEF Init, States
  <2>. QED
    BY <2>1, <2>2, <2>3, <2>4 DEF Typing
<1>3. NumberBounded
  <2>1. Counted = {}
    BY DEF Init, Counted
  <2>2. num = 0 /\ life = 1
    BY DEF Init
  <2>. QED
    BY <1>1, <2>1, <2>2 DEF NumberBounded
<1>4. MutexHeld /\ NumberOfCall /\ AuditsOfTasks
  BY AuditAssumption DEF Init, MutexHeld, Holding, NumberOfCall, AuditsOfTasks
<1>5. LoopOrder
  <2>1. Len(queue) = 0
    BY DEF Init
  <2>2. reload.pre = 0 /\ reload.i = 0 /\ reload.num = 0 /\ Slack \in Nat
    BY AuditAssumption DEF Init, NotRead
  <2>3. made <=> loop # "starting"
    BY DEF Init
  <2>. QED
    BY <2>1, <2>2, <2>3 DEF Init, LoopOrder
<1>6. NothingElseLost
  BY DEF Init, NothingElseLost
<1>. QED
  BY <1>2, <1>3, <1>4, <1>5, <1>6 DEF AuditInv

\* A call that begins, or that has nothing to queue.
LEMMA EnterInv ==
    ASSUME AuditInv, NEW t \in Tx, Enter(t)
    PROVE  AuditInv'
<1>1. /\ UNCHANGED <<num, pre, record, status, chain, synchronis, life, open, loop, reload, made, queue,
                        dblock, key, audits, missed>>
      /\ call[t] = "none" /\ call \in [Tx -> States] /\ call' \in [Tx -> States]
      /\ call'[t] \in {"direct", "waiting"}
      /\ \A u \in Tx : u # t => call'[u] = call[u]
  BY DEF Enter, codedb, node, daemon, AuditInv, Typing, States
<1>2. Counted' = Counted
  BY <1>1 DEF Counted
<1>3. Typing' /\ NumberBounded'
  BY <1>1, <1>2 DEF AuditInv, Typing, NumberBounded, Keys
<1>4. MutexHeld' /\ NumberOfCall'
  BY <1>1 DEF AuditInv, MutexHeld, Holding, NumberOfCall
<1>5. AuditsOfTasks' /\ LoopOrder'
  BY <1>1 DEF AuditInv, AuditsOfTasks, LoopOrder, Judged
<1>6. NothingElseLost'
  BY <1>1 DEF AuditInv, NothingElseLost, Judged, LeftOut, Begins, Pending, Unfinished, Saved, Keys
<1>. QED
  BY <1>3, <1>4, <1>5, <1>6 DEF AuditInv

\* A call of a node that synchronises makes no task.
LEMMA DirectInv ==
    ASSUME AuditInv, NEW t \in Tx, Direct(t)
    PROVE  AuditInv'
<1>1. /\ UNCHANGED <<num, pre, record, chain, synchronis, life, open, loop, reload, made, queue,
                        dblock, key, audits, missed>>
      /\ call[t] = "direct" /\ call \in [Tx -> States] /\ call' \in [Tx -> States]
      /\ call'[t] = "skipped"
      /\ \A u \in Tx : u # t => call'[u] = call[u]
  BY DEF Direct, node, daemon, AuditInv, Typing, States
<1>2. Counted' = Counted
  BY <1>1 DEF Counted
<1>3. /\ status' \in [Final -> {"none", "failed", "passed"}]
      /\ \A f \in Final : status[f] # "none" => status'[f] # "none"
      /\ FinalOf \in [Tx -> Final]
  BY AuditAssumption DEF Direct, AuditInv, Typing
<1>4. Typing' /\ NumberBounded'
  BY <1>1, <1>2, <1>3 DEF AuditInv, Typing, NumberBounded, Keys
<1>5. MutexHeld' /\ NumberOfCall'
  BY <1>1 DEF AuditInv, MutexHeld, Holding, NumberOfCall
<1>6. AuditsOfTasks' /\ LoopOrder'
  BY <1>1, <1>3 DEF AuditInv, AuditsOfTasks, LoopOrder, Judged
<1>7. NothingElseLost'
  BY <1>1, <1>3 DEF AuditInv, NothingElseLost, Judged, LeftOut, Begins, Pending, Unfinished, Saved, Keys
<1>. QED
  BY <1>4, <1>5, <1>6, <1>7 DEF AuditInv

\* The call that gets the mutex gets the next number.
LEMMA NumberInv ==
    ASSUME AuditInv, NEW t \in Tx, Number(t)
    PROVE  AuditInv'
<1>1. /\ UNCHANGED <<num, pre, record, status, chain, synchronis, life, open, loop, reload, made, queue,
                        audits, missed>>
      /\ call[t] = "waiting" /\ call \in [Tx -> States] /\ call' \in [Tx -> States]
      /\ call'[t] = "numbered"
      /\ \A u \in Tx : u # t => call'[u] = call[u]
      /\ key' \in [Tx -> Nat] /\ key'[t] = num + 1
      /\ \A u \in Tx : u # t => key'[u] = key[u]
      /\ dblock = NoTx /\ dblock' = t /\ num \in Nat
  BY DEF Number, NextNumber, Lockable, codedb, node, daemon, AuditInv, Typing, States
<1>2. Counted' = Counted
  BY <1>1 DEF Counted
<1>3. Typing'
  BY <1>1 DEF AuditInv, Typing, Keys
<1>7. NumberBounded'
  BY <1>1, <1>2 DEF AuditInv, NumberBounded
<1>8. \A u \in Tx : call[u] \notin Holding
  BY <1>1, AuditAssumption DEF AuditInv, MutexHeld
<1>9. MutexHeld'
  BY <1>1, <1>8 DEF MutexHeld, Holding
<1>4. NumberOfCall'
  BY <1>1 DEF AuditInv, NumberOfCall
<1>5. AuditsOfTasks' /\ LoopOrder'
  BY <1>1 DEF AuditInv, AuditsOfTasks, LoopOrder, Judged
<1>6. NothingElseLost'
  BY <1>1 DEF AuditInv, NothingElseLost, Judged, LeftOut, Begins, Pending, Unfinished, Saved, Keys
<1>. QED
  BY <1>3, <1>4, <1>5, <1>6, <1>7, <1>9 DEF AuditInv

\* Storing the task: its number was not in the database.
LEMMA StoreInv ==
    ASSUME AuditInv, NEW t \in Tx, Store(t)
    PROVE  AuditInv'
<1>1. /\ UNCHANGED <<num, pre, status, chain, synchronis, life, open, loop, reload, made, queue,
                        dblock, key, audits, missed>>
      /\ call[t] = "numbered" /\ call \in [Tx -> States] /\ call' \in [Tx -> States]
      /\ call'[t] = "stored"
      /\ \A u \in Tx : u # t => call'[u] = call[u]
      /\ key[t] = num + 1 /\ num \in Nat
  BY DEF Store, node, daemon, AuditInv, Typing, States, NumberOfCall
<1>2. Counted' = Counted /\ t \notin Counted
  BY <1>1 DEF Counted
<1>3. num + 1 \in Keys /\ 1 .. num \subseteq Keys
  BY <1>2, NumberLemma DEF AuditInv
<1>4. /\ record' \in [Keys -> Tx \cup {NoTx}] /\ record'[num + 1] = t
      /\ \A k \in 1 .. num : record'[k] = record[k]
  <2>1. record \in [Keys -> Tx \cup {NoTx}] /\ record' = [record EXCEPT ![num + 1] = t]
    BY <1>1 DEF AuditInv, Typing, Store
  <2>. QED
    BY <1>1, <1>3, <2>1
<1>5. Typing'
  BY <1>1, <1>4 DEF AuditInv, Typing, Keys
<1>6. NumberBounded'
  BY <1>1, <1>2 DEF AuditInv, NumberBounded
<1>7. MutexHeld'
  BY <1>1 DEF AuditInv, MutexHeld, Holding
<1>8. NumberOfCall'
  <2>1. \A u \in Tx \ {t} : call[u] \notin Holding
    BY <1>1 DEF AuditInv, MutexHeld, Holding
  <2>2. \A u \in Tx \ {t} : call[u] = "returned" => record'[key[u]] = u
    BY <1>4 DEF AuditInv, NumberOfCall
  <2>. QED
    BY <1>1, <1>4, <2>1, <2>2 DEF AuditInv, NumberOfCall, Holding
<1>9. AuditsOfTasks'
  <2>1. \A a \in audits : a.key \in 1 .. num
    BY DEF AuditInv, Typing
  <2>. QED
    BY <1>1, <1>4, <2>1 DEF AuditInv, AuditsOfTasks, Judged
<1>10. LoopOrder'
  BY <1>1 DEF AuditInv, LoopOrder
<1>11. NothingElseLost'
  BY <1>1 DEF AuditInv, NothingElseLost, Judged, LeftOut, Begins, Pending, Unfinished, Saved, Keys
<1>. QED
  BY <1>5, <1>6, <1>7, <1>8, <1>9, <1>10, <1>11 DEF AuditInv

\* A larger number leaves what has been read or queued within its range.
LEMMA Widen ==
    ASSUME Typing, num' = num + 1
    PROVE  /\ num \in Nat /\ pre \in 0 .. num'
           /\ reload \in [pre : 0 .. num', i : 0 .. num', num : 0 .. num']
           /\ queue \in Seq(1 .. num')
           /\ audits \subseteq [key : 1 .. num', tx : Tx \cup {NoTx}, saved : BOOLEAN]
<1>1. num \in Nat /\ 0 .. num \subseteq 0 .. num' /\ 1 .. num \subseteq 1 .. num'
  BY DEF Typing
<1>2. reload \in [pre : 0 .. num', i : 0 .. num', num : 0 .. num']
  BY <1>1 DEF Typing
<1>3. queue \in Seq(1 .. num')
  BY <1>1 DEF Typing
<1>4. audits \subseteq [key : 1 .. num', tx : Tx \cup {NoTx}, saved : BOOLEAN]
  BY <1>1 DEF Typing
<1>. QED
  BY <1>1, <1>2, <1>3, <1>4 DEF Typing

\* The number that was the last one is among those the next life reads.
LEMMA CountInv ==
    ASSUME AuditInv, NEW t \in Tx, Count(t)
    PROVE  AuditInv'
<1>1. /\ UNCHANGED <<pre, record, status, chain, synchronis, life, open, loop, reload, made, queue,
                        dblock, key, audits, missed>>
      /\ call[t] = "stored" /\ call \in [Tx -> States] /\ call' \in [Tx -> States]
      /\ call'[t] = "counted"
      /\ \A u \in Tx : u # t => call'[u] = call[u]
      /\ num' = num + 1 /\ key[t] = num + 1 /\ num \in Nat /\ record[num + 1] = t
  BY DEF Count, node, daemon, AuditInv, Typing, States, NumberOfCall
<1>2. \A u \in Tx \ {t} : call[u] \notin Holding
  BY <1>1 DEF AuditInv, MutexHeld, Holding
<1>3. num + 1 \in Keys /\ 1 .. num \subseteq Keys
  <2>1. t \notin Counted
    BY <1>1 DEF Counted
  <2>. QED
    BY <2>1, NumberLemma DEF AuditInv
<1>4. Typing'
  BY <1>1, Widen DEF AuditInv, Typing, Keys
<1>5. NumberBounded'
  <2>1. Counted' = Counted \cup {t} /\ t \notin Counted
    BY <1>1 DEF Counted
  <2>2. IsFiniteSet(Counted)
    BY AuditAssumption, FS_Subset, Counted \subseteq Tx DEF Counted
  <2>3. Cardinality(Counted') = Cardinality(Counted) + 1 /\ Cardinality(Counted) \in Nat
    BY <2>1, <2>2, FS_AddElement, FS_CardinalityType
  <2>4. life \in Nat \ {0} /\ Cardinality(Tx) \in Nat
    BY AuditAssumption, FS_CardinalityType DEF AuditInv, Typing
  <2>5. (life - 1) * Cardinality(Tx) \in Nat
    BY <2>4
  <2>6. num <= (life - 1) * Cardinality(Tx) + Cardinality(Counted)
    BY DEF AuditInv, NumberBounded
  <2>7. num + 1 <= (life - 1) * Cardinality(Tx) + Cardinality(Counted')
    BY <1>1, <2>3, <2>5, <2>6
  <2>. QED
    BY <1>1, <2>7 DEF NumberBounded
<1>6. MutexHeld'
  BY <1>1 DEF AuditInv, MutexHeld, Holding
<1>7. NumberOfCall'
  BY <1>1, <1>2 DEF AuditInv, NumberOfCall, Holding
<1>8. AuditsOfTasks' /\ LoopOrder'
  BY <1>1 DEF AuditInv, AuditsOfTasks, LoopOrder, Judged
<1>9. NothingElseLost'
  <2> SUFFICES ASSUME open, NEW u \in Tx, call[u] = "returned"
               PROVE  (Judged(u) \/ u \in missed \/ LeftOut(key[u]) \/ Pending(key[u]))'
    BY <1>1 DEF NothingElseLost
  <2>1. key[u] \in 1 .. num /\ key[u] \in Keys
    BY <1>3 DEF AuditInv, NumberOfCall
  <2>2. Judged(u) \/ u \in missed \/ LeftOut(key[u]) \/ Pending(key[u])
    BY DEF AuditInv, NothingElseLost
  <2>3. CASE loop # "starting"
    BY <1>1, <2>2, <2>3 DEF Judged, LeftOut, Begins, Pending, Unfinished, Keys
  <2>4. CASE loop = "starting" /\ key[u] < pre
    BY <1>1, <2>4 DEF LeftOut, Begins, Saved
  <2>5. CASE loop = "starting" /\ pre <= key[u]
    BY <1>1, <2>1, <2>5 DEF Pending, Unfinished, Begins, Saved, Keys
  <2>. QED
    BY <2>1, <2>3, <2>4, <2>5 DEF AuditInv, Typing
<1>. QED
  BY <1>4, <1>5, <1>6, <1>7, <1>8, <1>9 DEF AuditInv

\* The number that is sent is queued and the mutex free; with no channel yet the
\* call keeps both.
LEMMA SendInv ==
    ASSUME AuditInv, NEW t \in Tx, Send(t)
    PROVE  AuditInv'
<1>1. /\ UNCHANGED <<num, pre, record, status, chain, synchronis, life, open, loop, reload, made,
                     key, audits, missed>>
      /\ call[t] = "counted" /\ call \in [Tx -> States] /\ call' \in [Tx -> States]
      /\ call'[t] \in {"returned", "blocked"}
      /\ \A u \in Tx : u # t => call'[u] = call[u]
      /\ key[t] = num /\ num \in Nat /\ record[num] = t /\ queue \in Seq(1 .. num)
  BY DEF Send, codedb, node, AuditInv, Typing, States, NumberOfCall
<1>2. 1 <= num
  BY <1>1 DEF AuditInv, NumberOfCall
<1>3. Counted' = Counted
  BY <1>1 DEF Counted
<1>4. NumberBounded'
  BY <1>1, <1>3 DEF AuditInv, NumberBounded
<1>5. NumberOfCall'
  BY <1>1, <1>2 DEF AuditInv, NumberOfCall
<1>6. AuditsOfTasks'
  BY <1>1 DEF AuditInv, AuditsOfTasks, Judged
<1>7. CASE /\ made /\ Room > 0 /\ queue' = Append(queue, key[t]) /\ dblock' = Released
           /\ call' = [call EXCEPT ![t] = "returned"]
  <2>1. /\ queue' \in Seq(1 .. num) /\ Len(queue') = Len(queue) + 1
        /\ \A i \in DOMAIN queue : i \in DOMAIN queue' /\ queue'[i] = queue[i]
        /\ \E i \in DOMAIN queue' : queue'[i] = key[t]
    BY <1>1, <1>2, <1>7
  <2>2. Typing'
    BY <1>1, <1>7, <2>1 DEF AuditInv, Typing, Keys, Released
  <2>3. MutexHeld'
    <3>1. \A u \in Tx : call'[u] \notin Holding
      BY <1>1, <1>7 DEF AuditInv, MutexHeld, Holding
    <3>. QED
      BY <1>7, <3>1, AuditAssumption DEF MutexHeld, Released
  <2>4. LoopOrder'
    <3>1. Len(queue) + 1 <= (reload.num - reload.pre) + Slack
      <4>1. /\ Len(queue) \in Nat /\ Slack \in Nat /\ reload.num \in Int /\ reload.pre \in Int
        BY <1>1, AuditAssumption DEF AuditInv, Typing
      <4>2. (reload.num - reload.pre) + Slack - Len(queue) > 0
        BY <1>7 DEF Room
      <4>. QED
        BY <4>1, <4>2
    <3>. QED
      BY <1>1, <1>7, <2>1, <3>1 DEF AuditInv, LoopOrder
  <2>5. NothingElseLost'
    <3> SUFFICES ASSUME open, NEW u \in Tx, call'[u] = "returned"
                 PROVE  (Judged(u) \/ u \in missed \/ LeftOut(key[u]) \/ Pending(key[u]))'
      BY <1>1 DEF NothingElseLost
    <3>1. CASE u = t
      BY <1>1, <2>1, <3>1 DEF Pending
    <3>2. CASE u # t
      <4>1. Judged(u) \/ u \in missed \/ LeftOut(key[u]) \/ Pending(key[u])
        BY <1>1, <3>2 DEF AuditInv, NothingElseLost
      <4>. QED
        BY <1>1, <2>1, <4>1 DEF Judged, LeftOut, Begins, Pending, Unfinished, Saved, Keys
    <3>. QED
      BY <3>1, <3>2
  <2>. QED
    BY <1>4, <1>5, <1>6, <2>2, <2>3, <2>4, <2>5 DEF AuditInv
<1>8. CASE ~made /\ call' = [call EXCEPT ![t] = "blocked"] /\ UNCHANGED <<queue, dblock>>
  <2>1. call'[t] = "blocked"
    BY <1>1, <1>8
  <2>2. Typing'
    BY <1>1, <1>8 DEF AuditInv, Typing, Keys
  <2>3. MutexHeld'
    BY <1>1, <1>8, <2>1 DEF AuditInv, MutexHeld, Holding
  <2>4. LoopOrder'
    BY <1>1, <1>8 DEF AuditInv, LoopOrder
  <2>5. NothingElseLost'
    BY <1>1, <1>8, <2>1
       DEF AuditInv, NothingElseLost, Judged, LeftOut, Begins, Pending, Unfinished, Saved, Keys
  <2>. QED
    BY <1>4, <1>5, <1>6, <2>2, <2>3, <2>4, <2>5 DEF AuditInv
<1>. QED
  BY <1>7, <1>8 DEF Send

\* The loop begins with what codedb holds.
LEMMA MakeQueueInv ==
    ASSUME AuditInv, MakeQueue
    PROVE  AuditInv'
<1>1. /\ UNCHANGED <<num, pre, record, status, chain, synchronis, life, open, queue,
                     dblock, call, key, audits, missed>>
      /\ loop = "starting" /\ loop' = "reloading" /\ made' = TRUE
      /\ queue = <<>> /\ audits = {}
      /\ reload' = IF open THEN Saved ELSE NotRead
      /\ num \in Nat /\ pre \in 0 .. num
  BY DEF MakeQueue, codedb, node, calls, AuditInv, Typing, LoopOrder
<1>2. /\ reload' \in [pre : 0 .. num, i : 0 .. num, num : 0 .. num]
      /\ reload'.pre <= reload'.i /\ reload'.i <= reload'.num
      /\ 0 <= (reload'.num - reload'.pre) + Slack
  <2>1. Slack \in Nat
    BY AuditAssumption
  <2>. QED
    BY <1>1, <2>1 DEF Saved, NotRead
<1>3. Typing'
  BY <1>1, <1>2 DEF AuditInv, Typing, Keys
<1>4. NumberBounded'
  BY <1>1 DEF AuditInv, NumberBounded, Counted
<1>5. MutexHeld' /\ NumberOfCall' /\ AuditsOfTasks'
  BY <1>1 DEF AuditInv, MutexHeld, NumberOfCall, AuditsOfTasks
<1>6. LoopOrder'
  <2>1. Len(queue') = 0
    BY <1>1
  <2>2. (made <=> loop # "starting")'
    BY <1>1
  <2>. QED
    BY <1>1, <1>2, <2>1, <2>2 DEF LoopOrder
<1>7. NothingElseLost'
  BY <1>1 DEF AuditInv, NothingElseLost, Judged, LeftOut, Begins, Pending, Unfinished, Saved, Keys
<1>. QED
  BY <1>3, <1>4, <1>5, <1>6, <1>7 DEF AuditInv

\* The loop queues the tasks one by one, in their order.
LEMMA ReloadInv ==
    ASSUME AuditInv, Reload
    PROVE  AuditInv'
<1>1. /\ UNCHANGED <<num, pre, record, status, chain, synchronis, life, open, made,
                     dblock, call, key, audits, missed>>
      /\ loop = "reloading" /\ loop' \in {"reloading", "running"}
      /\ num \in Nat /\ queue \in Seq(1 .. num)
      /\ reload \in [pre : 0 .. num, i : 0 .. num, num : 0 .. num]
  BY DEF Reload, codedb, node, calls, AuditInv, Typing
<1>2. NumberBounded'
  BY <1>1 DEF AuditInv, NumberBounded, Counted
<1>3. MutexHeld' /\ NumberOfCall' /\ AuditsOfTasks'
  BY <1>1 DEF AuditInv, MutexHeld, NumberOfCall, AuditsOfTasks, Judged
<1>4. CASE Unfinished(reload) = {} /\ loop' = "running" /\ UNCHANGED <<reload, queue>>
  <2>1. Typing'
    BY <1>1, <1>4 DEF AuditInv, Typing, Keys
  <2>2. LoopOrder'
    BY <1>1, <1>4 DEF AuditInv, LoopOrder
  <2>3. NothingElseLost'
    BY <1>1, <1>4 DEF AuditInv, NothingElseLost, Judged, LeftOut, Begins, Pending, Unfinished, Saved, Keys
  <2>. QED
    BY <1>2, <1>3, <2>1, <2>2, <2>3 DEF AuditInv
<1>5. ASSUME Room > 0, NEW k \in Unfinished(reload), \A j \in Unfinished(reload) : k <= j,
             queue' = Append(queue, k), reload' = [reload EXCEPT !.i = k + 1], loop' = loop
      PROVE  AuditInv'
  <2>1. k \in 1 .. num /\ k < reload.num /\ reload.i <= k /\ reload.num \in 0 .. num
    <3>1. Cardinality(Tx) * MaxLives \in Nat
      BY NumberLemma DEF AuditInv
    <3>. QED
      BY <1>1, <3>1 DEF Unfinished, Keys
  <2>2. /\ queue' \in Seq(1 .. num) /\ Len(queue') = Len(queue) + 1
        /\ \A i \in DOMAIN queue : i \in DOMAIN queue' /\ queue'[i] = queue[i]
        /\ \E i \in DOMAIN queue' : queue'[i] = k
    <3>1. queue \in Seq(1 .. num) /\ k \in 1 .. num /\ queue' = Append(queue, k)
      BY <1>1, <1>5, <2>1
    <3>. QED
      BY <3>1
  <2>3. /\ reload' \in [pre : 0 .. num, i : 0 .. num, num : 0 .. num]
        /\ reload'.pre = reload.pre /\ reload'.num = reload.num /\ reload'.i = k + 1
    BY <1>1, <1>5, <2>1
  <2>4. Typing'
    BY <1>1, <1>5, <2>2, <2>3 DEF AuditInv, Typing, Keys
  <2>5. LoopOrder'
    <3>1. Len(queue) + 1 <= (reload.num - reload.pre) + Slack
      <4>1. Len(queue) \in Nat /\ Slack \in Nat /\ reload.num \in Int /\ reload.pre \in Int
        BY <1>1, AuditAssumption
      <4>2. (reload.num - reload.pre) + Slack - Len(queue) > 0
        BY <1>5 DEF Room
      <4>. QED
        BY <4>1, <4>2
    <3>2. reload.pre <= k + 1 /\ k + 1 <= reload.num
      <4>1. reload.pre <= reload.i /\ reload.pre \in Nat /\ reload.i \in Nat
        BY <1>1 DEF AuditInv, LoopOrder
      <4>. QED
        BY <2>1, <4>1
    <3>3. made <=> loop # "starting"
      BY DEF AuditInv, LoopOrder
    <3>. QED
      BY <1>1, <1>5, <2>2, <2>3, <3>1, <3>2, <3>3 DEF AuditInv, LoopOrder
  <2>6. NothingElseLost'
    <3> SUFFICES ASSUME open, NEW u \in Tx, call[u] = "returned"
                 PROVE  (Judged(u) \/ u \in missed \/ LeftOut(key[u]) \/ Pending(key[u]))'
      BY <1>1 DEF NothingElseLost
    <3>1. Judged(u) \/ u \in missed \/ LeftOut(key[u]) \/ Pending(key[u])
      BY DEF AuditInv, NothingElseLost
    <3>2. CASE Judged(u) \/ u \in missed \/ LeftOut(key[u])
      BY <1>1, <1>5, <2>3, <3>2 DEF Judged, LeftOut, Begins
    <3>3. CASE \/ \E i \in DOMAIN queue : queue[i] = key[u]
               \/ \E a \in audits : a.key = key[u]
               \/ key[u] = k
      BY <1>1, <2>2, <3>3 DEF Pending
    <3>4. CASE key[u] \in Unfinished(reload) /\ key[u] # k
      <4>1. k < key[u] /\ key[u] < reload.num /\ key[u] \in Keys
        <5>1. k <= key[u] /\ key[u] \in Int
          BY <1>5, <3>4 DEF AuditInv, Typing
        <5>. QED
          BY <2>1, <3>4, <5>1 DEF Unfinished
      <4>2. key[u] \in Unfinished(reload')
        BY <2>1, <2>3, <4>1 DEF Unfinished, AuditInv, Typing
      <4>. QED
        BY <1>1, <1>5, <4>2 DEF Pending, Begins, Unfinished, Keys
    <3>. QED
      BY <1>1, <3>1, <3>2, <3>3, <3>4 DEF Pending, Begins
  <2>. QED
    BY <1>2, <1>3, <2>4, <2>5, <2>6 DEF AuditInv
<1>. QED
  BY <1>4, <1>5 DEF Reload

\* A task leaves the queue for a goroutine of its own, unless codedb is closed.
LEMMA DispatchInv ==
    ASSUME AuditInv, Dispatch
    PROVE  AuditInv'
<1> DEFINE k == Head(queue)  new == [key |-> k, tx |-> record[k], saved |-> FALSE]
<1>1. /\ UNCHANGED <<num, pre, record, status, chain, synchronis, life, open, loop, reload, made,
                     dblock, call, key, missed>>
      /\ loop = "running" /\ queue # <<>> /\ queue' = Tail(queue)
      /\ audits' = IF open THEN audits \cup {new} ELSE audits
      /\ num \in Nat /\ queue \in Seq(1 .. num)
  BY DEF Dispatch, codedb, node, calls, AuditInv, Typing
<1>2. /\ k \in 1 .. num /\ k = queue[1] /\ Tail(queue) \in Seq(1 .. num)
      /\ Len(Tail(queue)) = Len(queue) - 1 /\ Len(queue) \in Nat
      /\ \A i \in DOMAIN queue : i # 1 => i - 1 \in DOMAIN Tail(queue) /\ Tail(queue)[i - 1] = queue[i]
  BY <1>1
<1>3. new \in [key : 1 .. num, tx : Tx \cup {NoTx}, saved : BOOLEAN]
  <2>1. k \in Keys
    BY <1>2, NumberLemma DEF AuditInv
  <2>2. record[k] \in Tx \cup {NoTx}
    BY <2>1 DEF AuditInv, Typing
  <2>. QED
    BY <1>2, <2>2
<1>4. new.key = k /\ new.tx = record[k] /\ new.saved = FALSE
  OBVIOUS
<1> HIDE DEF k, new
<1>5. Typing'
  BY <1>1, <1>2, <1>3 DEF AuditInv, Typing, Keys
<1>6. NumberBounded' /\ MutexHeld' /\ NumberOfCall'
  BY <1>1 DEF AuditInv, NumberBounded, Counted, MutexHeld, NumberOfCall
<1>7. AuditsOfTasks'
  BY <1>1, <1>4 DEF AuditInv, AuditsOfTasks, Judged
<1>8. LoopOrder'
  <2>1. Len(queue') <= (reload.num - reload.pre) + Slack
    <3>1. Len(queue) <= (reload.num - reload.pre) + Slack
      BY DEF AuditInv, LoopOrder
    <3>2. reload.num \in Int /\ reload.pre \in Int /\ Slack \in Nat
      BY AuditAssumption DEF AuditInv, Typing
    <3>. QED
      BY <1>1, <1>2, <3>1, <3>2
  <2>2. (made <=> loop # "starting")'
    BY <1>1 DEF AuditInv, LoopOrder
  <2>. QED
    BY <1>1, <2>1, <2>2 DEF AuditInv, LoopOrder
<1>9. NothingElseLost'
  <2> SUFFICES ASSUME open, NEW u \in Tx, call[u] = "returned"
               PROVE  (Judged(u) \/ u \in missed \/ LeftOut(key[u]) \/ Pending(key[u]))'
    BY <1>1 DEF NothingElseLost
  <2>1. Judged(u) \/ u \in missed \/ LeftOut(key[u]) \/ Pending(key[u])
    BY DEF AuditInv, NothingElseLost
  <2>2. CASE Judged(u) \/ u \in missed \/ LeftOut(key[u]) \/ \E a \in audits : a.key = key[u]
    BY <1>1, <2>2 DEF Judged, LeftOut, Begins, Pending, Saved
  <2>3. ASSUME NEW i \in DOMAIN queue, queue[i] = key[u]
        PROVE  Pending(key[u])'
    <3>1. CASE i = 1
      BY <1>1, <1>2, <1>4, <2>3, <3>1 DEF Pending
    <3>2. CASE i # 1
      BY <1>1, <1>2, <2>3, <3>2 DEF Pending
    <3>. QED
      BY <3>1, <3>2
  <2>. QED
    BY <1>1, <2>1, <2>2, <2>3 DEF Pending
<1>. QED
  BY <1>5, <1>6, <1>7, <1>8, <1>9 DEF AuditInv

\* A goroutine saves what it found, or ends without its transaction.
LEMMA SaveStatusInv ==
    ASSUME AuditInv, NEW a \in audits, SaveStatus(a)
    PROVE  AuditInv'
<1>1. /\ UNCHANGED <<num, pre, record, chain, synchronis, life, open, loop, reload, made, queue,
                     dblock, call, key>>
      /\ FinalOf \in [Tx -> Final] /\ status \in [Final -> {"none", "failed", "passed"}]
      /\ chain \subseteq Tx /\ num \in Nat
      /\ audits \subseteq [key : 1 .. num, tx : Tx \cup {NoTx}, saved : BOOLEAN]
      /\ a \in [key : 1 .. num, tx : Tx \cup {NoTx}, saved : BOOLEAN]
  BY AuditAssumption DEF SaveStatus, node, daemon, calls, AuditInv, Typing
<1>2. NumberBounded' /\ MutexHeld' /\ NumberOfCall'
  BY <1>1 DEF AuditInv, NumberBounded, Counted, MutexHeld, NumberOfCall
<1>3. LoopOrder'
  <2>1. loop \notin {"starting", "reloading"}
    BY DEF AuditInv, LoopOrder
  <2>2. (made <=> loop # "starting")'
    BY <1>1 DEF AuditInv, LoopOrder
  <2>. QED
    BY <1>1, <2>1, <2>2 DEF AuditInv, LoopOrder
<1>4. \A u \in Tx : call[u] = "returned" /\ key[u] = a.key => u = a.tx
  BY DEF AuditInv, NumberOfCall, AuditsOfTasks
<1>5. CASE audits' = audits \ {a} /\ missed' = missed \cup {a.tx} /\ UNCHANGED status
  <2>1. Typing'
    BY <1>1, <1>5 DEF AuditInv, Typing, Keys
  <2>2. AuditsOfTasks'
    BY <1>1, <1>5 DEF AuditInv, AuditsOfTasks, Judged
  <2>3. NothingElseLost'
    BY <1>1, <1>4, <1>5
       DEF AuditInv, NothingElseLost, Judged, LeftOut, Begins, Pending, Unfinished, Saved, Keys
  <2>. QED
    BY <1>2, <1>3, <2>1, <2>2, <2>3 DEF AuditInv
<1>6. CASE /\ a.tx \in chain /\ status' = [status EXCEPT ![FinalOf[a.tx]] = Finding(a.tx)]
           /\ audits' = (audits \ {a}) \cup {[a EXCEPT !.saved = TRUE]} /\ UNCHANGED missed
  <2> DEFINE b == [a EXCEPT !.saved = TRUE]
  <2>1. /\ b \in [key : 1 .. num, tx : Tx \cup {NoTx}, saved : BOOLEAN]
        /\ b.key = a.key /\ b.tx = a.tx
    BY <1>1
  <2>2. audits' = (audits \ {a}) \cup {b}
    BY <1>6
  <2> HIDE DEF b
  <2>3. /\ status' \in [Final -> {"none", "failed", "passed"}]
        /\ status'[FinalOf[a.tx]] # "none"
        /\ \A f \in Final : status[f] # "none" => status'[f] # "none"
        /\ a.tx \in Tx
    BY <1>1, <1>6 DEF Finding
  <2>4. Typing'
    BY <1>1, <2>1, <2>2, <2>3 DEF AuditInv, Typing, Keys
  <2>5. AuditsOfTasks'
    BY <1>1, <2>1, <2>2, <2>3 DEF AuditInv, AuditsOfTasks, Judged
  <2>6. NothingElseLost'
    <3> SUFFICES ASSUME open, NEW u \in Tx, call[u] = "returned"
                 PROVE  (Judged(u) \/ u \in missed \/ LeftOut(key[u]) \/ Pending(key[u]))'
      BY <1>1 DEF NothingElseLost
    <3>1. Judged(u) \/ u \in missed \/ LeftOut(key[u]) \/ Pending(key[u])
      BY DEF AuditInv, NothingElseLost
    <3>2. CASE Judged(u) \/ u \in missed \/ LeftOut(key[u])
      BY <1>1, <1>6, <2>3, <3>2 DEF Judged, LeftOut, Begins, Saved
    <3>3. CASE Pending(key[u])
      BY <1>1, <2>1, <2>2, <3>3 DEF Pending, Begins, Unfinished, Saved, Keys
    <3>. QED
      BY <3>1, <3>2, <3>3
  <2>. QED
    BY <1>2, <1>3, <2>4, <2>5, <2>6 DEF AuditInv
<1>. QED
  BY <1>5, <1>6 DEF SaveStatus

\* The task audited last is one the queue held: it is never above the number.
LEMMA SavePreInv ==
    ASSUME AuditInv, NEW a \in audits, SavePre(a)
    PROVE  AuditInv'
<1>1. /\ UNCHANGED <<num, record, status, chain, synchronis, life, open, loop, reload, made, queue,
                     dblock, call, key, missed>>
      /\ a.saved /\ pre' = a.key /\ audits' = audits \ {a}
      /\ num \in Nat /\ a.key \in 0 .. num
  BY DEF SavePre, node, daemon, calls, AuditInv, Typing
<1>2. loop \notin {"starting", "reloading"}
  BY DEF AuditInv, LoopOrder
<1>3. Typing'
  BY <1>1 DEF AuditInv, Typing, Keys
<1>4. NumberBounded' /\ MutexHeld' /\ NumberOfCall' /\ AuditsOfTasks'
  BY <1>1 DEF AuditInv, NumberBounded, Counted, MutexHeld, NumberOfCall, AuditsOfTasks, Judged
<1>5. LoopOrder'
  <2>1. (made <=> loop # "starting")'
    BY <1>1 DEF AuditInv, LoopOrder
  <2>. QED
    BY <1>1, <1>2, <2>1 DEF AuditInv, LoopOrder
<1>6. NothingElseLost'
  <2>1. \A u \in Tx : call[u] = "returned" /\ key[u] = a.key => Judged(u)
    BY <1>1 DEF AuditInv, NumberOfCall, AuditsOfTasks
  <2>. QED
    BY <1>1, <1>2, <2>1 DEF AuditInv, NothingElseLost, Judged, LeftOut, Begins, Pending
<1>. QED
  BY <1>3, <1>4, <1>5, <1>6 DEF AuditInv

\* What was stored is all that is left, and the next life begins with it.
LEMMA CrashInv ==
    ASSUME AuditInv, Crash
    PROVE  AuditInv'
<1>1. /\ UNCHANGED <<num, pre, record, status, chain, synchronis, key, missed>>
      /\ life < MaxLives /\ life' = life + 1 /\ open' = TRUE
      /\ loop' = "starting" /\ reload' = NotRead /\ made' = FALSE /\ queue' = <<>>
      /\ dblock' = NoTx /\ audits' = {}
      /\ call \in [Tx -> States] /\ call' \in [Tx -> States]
      /\ \A t \in Tx : /\ call'[t] \in {"none", "returned", "skipped"}
                       /\ call'[t] = "returned" => call[t] = "returned"
      /\ num \in Nat /\ pre \in 0 .. num /\ life \in 1 .. MaxLives
  BY DEF Crash, codedb, AuditInv, Typing, States
<1>2. Typing'
  <2>1. life' \in 1 .. MaxLives
    BY <1>1, AuditAssumption
  <2>2. reload' \in [pre : 0 .. num, i : 0 .. num, num : 0 .. num] /\ queue' \in Seq(1 .. num)
    BY <1>1 DEF NotRead
  <2>3. open' \in BOOLEAN /\ made' \in BOOLEAN
    BY <1>1
  <2>. QED
    BY <1>1, <2>1, <2>2, <2>3 DEF AuditInv, Typing, Keys
<1>3. NumberBounded'
  <2>1. num <= life * Cardinality(Tx) /\ Cardinality(Tx) \in Nat
    BY NumberLemma DEF AuditInv
  <2>2. Cardinality(Counted') \in Nat
    BY AuditAssumption, FS_CardinalityType, FS_Subset, Counted' \subseteq Tx DEF Counted
  <2>3. life' - 1 = life /\ life * Cardinality(Tx) \in Nat
    BY <1>1, <2>1, AuditAssumption
  <2>. QED
    BY <1>1, <2>1, <2>2, <2>3 DEF NumberBounded
<1>4. MutexHeld'
  BY <1>1, AuditAssumption DEF MutexHeld, Holding
<1>5. NumberOfCall' /\ AuditsOfTasks'
  BY <1>1 DEF AuditInv, NumberOfCall, AuditsOfTasks
<1>6. LoopOrder'
  <2>1. Len(queue') = 0 /\ Slack \in Nat
    BY <1>1, AuditAssumption
  <2>2. (made <=> loop # "starting")'
    BY <1>1
  <2>3. reload'.pre = 0 /\ reload'.i = 0 /\ reload'.num = 0
    BY <1>1 DEF NotRead
  <2>. QED
    BY <1>1, <2>1, <2>2, <2>3 DEF LoopOrder
<1>7. NothingElseLost'
  <2> SUFFICES ASSUME NEW u \in Tx, call'[u] = "returned"
               PROVE  (LeftOut(key[u]) \/ Pending(key[u]))'
    BY <1>1 DEF NothingElseLost
  <2>1. key[u] \in 1 .. num
    BY <1>1 DEF AuditInv, NumberOfCall
  <2>2. key[u] \in Keys
    BY <2>1, NumberLemma DEF AuditInv
  <2>. QED
    BY <1>1, <2>1, <2>2 DEF LeftOut, Pending, Begins, Unfinished, Saved, Keys
<1>. QED
  BY <1>2, <1>3, <1>4, <1>5, <1>6, <1>7 DEF AuditInv

\* auditLoop ends once Shutdown has closed the audit.
LEMMA StopInv ==
    ASSUME AuditInv, Stop
    PROVE  AuditInv'
<1>1. /\ UNCHANGED <<num, pre, record, status, chain, synchronis, life, open, reload, made, queue,
                     dblock, call, key, audits, missed>>
      /\ loop = "running" /\ loop' = "stopped" /\ ~open
  BY DEF Stop, codedb, node, calls
<1>2. (made <=> loop # "starting")'
  BY <1>1 DEF AuditInv, LoopOrder
<1>. QED
  BY <1>1, <1>2 DEF AuditInv, Typing, Keys, NumberBounded, Counted, MutexHeld, NumberOfCall,
                    AuditsOfTasks, Judged, LoopOrder, NothingElseLost

\* The node's own steps: a transaction becomes known, the node has synchronised,
\* or codedb is closed.
LEMMA NodeInv ==
    ASSUME AuditInv, (\E t \in Tx : Include(t)) \/ Synchronised \/ Shutdown
    PROVE  AuditInv'
<1>1. /\ UNCHANGED <<num, pre, record, status, life, loop, reload, made, queue, dblock, call, key,
                     audits, missed>>
      /\ chain' \subseteq Tx /\ synchronis' \in BOOLEAN /\ open' \in BOOLEAN
  BY DEF Include, Synchronised, Shutdown, codedb, daemon, calls, AuditInv, Typing
<1>2. open' => open
  BY DEF Include, Synchronised, Shutdown
<1>3. Typing' /\ NumberBounded' /\ MutexHeld' /\ NumberOfCall'
  BY <1>1 DEF AuditInv, Typing, Keys, NumberBounded, Counted, MutexHeld, NumberOfCall
<1>4. AuditsOfTasks' /\ LoopOrder'
  BY <1>1 DEF AuditInv, AuditsOfTasks, Judged, LoopOrder
<1>5. NothingElseLost'
  BY <1>1, <1>2
     DEF AuditInv, NothingElseLost, Judged, LeftOut, Begins, Pending, Unfinished, Saved, Keys
<1>. QED
  BY <1>3, <1>4, <1>5 DEF AuditInv

\* Every step keeps the numbers, the mutex and the queue in line.
LEMMA AuditStep == AuditInv /\ [Next]_vars => AuditInv'
<1> SUFFICES ASSUME AuditInv, [Next]_vars PROVE AuditInv'
  OBVIOUS
<1>1. ASSUME NEW t \in Tx, GenAuditTask(t)
      PROVE  AuditInv'
  BY <1>1, EnterInv, DirectInv, NumberInv, StoreInv, CountInv, SendInv DEF GenAuditTask
<1>2. CASE auditLoop
  BY <1>2, MakeQueueInv, ReloadInv, DispatchInv, StopInv DEF auditLoop
<1>3. ASSUME NEW a \in audits, processAuditTask(a)
      PROVE  AuditInv'
  BY <1>3, SaveStatusInv, SavePreInv DEF processAuditTask
<1>4. CASE (\E t \in Tx : Include(t)) \/ Synchronised \/ Shutdown
  BY <1>4, NodeInv
<1>5. CASE Crash
  BY <1>5, CrashInv
<1>6. CASE UNCHANGED vars
  <2>1. UNCHANGED <<num, pre, record, status, chain, synchronis, life, open, loop, reload, made,
                    queue, dblock, call, key, audits, missed>>
    BY <1>6 DEF vars, codedb, node, daemon, calls
  <2>2. Typing' /\ NumberBounded' /\ MutexHeld' /\ NumberOfCall'
    BY <2>1 DEF AuditInv, Typing, Keys, NumberBounded, Counted, MutexHeld, NumberOfCall
  <2>3. AuditsOfTasks' /\ LoopOrder'
    BY <2>1 DEF AuditInv, AuditsOfTasks, Judged, LoopOrder
  <2>4. NothingElseLost'
    BY <2>1 DEF AuditInv, NothingElseLost, Judged, LeftOut, Begins, Pending, Unfinished, Saved, Keys
  <2>. QED
    BY <2>2, <2>3, <2>4 DEF AuditInv
<1>. QED
  BY <1>1, <1>2, <1>3, <1>4, <1>5, <1>6 DEF Next

-----------------------------------------------------------------------------
(* The theorems.                                                             *)

\* The numbers, the mutex, the queue and the audits fit together in every
\* reachable state.
THEOREM AuditInvariance == Spec => []AuditInv
BY AuditInit, AuditStep, PTL DEF Spec

\* The queue is never fuller than auditLoop made it, the task audited last is
\* never above the number, and no task has the number 0, which the loop skips
\* when it queues them again (ewasm_linker.go:417-427, 463-487).
THEOREM AuditTypeCorrect == Spec => []TypeOK
<1>1. AuditInv => TypeOK
  <2> SUFFICES ASSUME AuditInv PROVE TypeOK
    OBVIOUS
  <2>1. /\ num \in Nat /\ Keys = 1 .. Cardinality(Tx) * MaxLives /\ 1 .. num \subseteq Keys
        /\ Cardinality(Tx) * MaxLives \in Nat /\ num <= Cardinality(Tx) * MaxLives
    BY NumberLemma DEF AuditInv, Typing
  <2>2. num \in 0 .. Cardinality(Keys)
    <3>1. Cardinality(Keys) = Cardinality(Tx) * MaxLives
      BY <2>1, FS_Interval
    <3>. QED
      BY <2>1, <3>1
  <2>3. Room >= 0
    <3>1. /\ reload.num \in Int /\ reload.pre \in Int /\ Slack \in Nat /\ Len(queue) \in Nat
          /\ Len(queue) <= (reload.num - reload.pre) + Slack
      BY AuditAssumption DEF AuditInv, Typing, LoopOrder
    <3>. QED
      BY <3>1 DEF Room
  <2>4. \A i \in DOMAIN queue : queue[i] \in Keys
    BY <2>1 DEF AuditInv, Typing
  <2>5. ASSUME NEW t \in Tx, call[t] \in {"numbered", "stored", "counted", "blocked", "returned"}
        PROVE  key[t] \in Keys
    <3>1. CASE call[t] \in {"numbered", "stored"}
      BY <3>1, NumberLemma DEF AuditInv, NumberOfCall, Counted
    <3>2. CASE call[t] \in {"counted", "blocked", "returned"}
      <4>1. key[t] \in 1 .. num
        BY <2>1, <3>2 DEF AuditInv, NumberOfCall
      <4>. QED
        BY <2>1, <4>1
    <3>. QED
      BY <2>5, <3>1, <3>2
  <2>. QED
    BY <2>2, <2>3, <2>4, <2>5 DEF AuditInv, Typing, TypeOK
<1>. QED
  BY <1>1, AuditInvariance, PTL

\* A task whose call has returned stays in codedb under its own number, whatever
\* other calls, crashes and audits come after (ewasm_linker.go:463-487).
THEOREM AcknowledgedStays == Spec => []AcknowledgedIsStored
<1>1. AuditInv => AcknowledgedIsStored
  BY DEF AuditInv, Typing, NumberOfCall, AcknowledgedIsStored
<1>. QED
  BY <1>1, AuditInvariance, PTL

\* A task whose call has returned has a result, or its transaction was not
\* known, or it will be audited in this life of the process; it is lost only as
\* the last one when a life begins, or by a later one's having been audited
\* before it (ewasm_linker.go:407, 418-427).
THEOREM LossesAreNamed == Spec => []NothingElseLost
<1>1. AuditInv => NothingElseLost
  BY DEF AuditInv
<1>. QED
  BY <1>1, AuditInvariance, PTL
=============================================================================
