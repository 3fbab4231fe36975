--------------------------- MODULE ExecPoolProofs ---------------------------
(***************************************************************************)
(* Proofs about ExecPool for every number of goroutines and every number   *)
(* of items, also fewer than goroutines and none.                          *)
(*                                                                         *)
(* The inductive invariant PoolInv accounts for every item: the tasks are  *)
(* taken in their order, so the items below a bound, and no others, are    *)
(* each with one goroutine or have one result.                             *)
(***************************************************************************)
EXTENDS ExecPool, FiniteSetTheorems, SequenceTheorems, TLAPS

\* The last item of the k-th slice.
Bound(k) == IF k = Count THEN num ELSE k * (num \div Count)

\* The slices taken by goroutines so far; the results in the order they came.
taken == added - Len(taskQueue)
Results == tpResult \o resultChan

\* Every variable has its type, the lengths of the channels included.
Typing ==
    /\ num \in Sizes /\ caller \in {"adding", "waiting", "draining", "returned"} /\ added \in 0 .. Count
    /\ taskQueue \in Seq(Seq(Nat)) /\ Len(taskQueue) <= num /\ closed \in BOOLEAN
    /\ resultChan \in Seq(Nat) /\ Len(resultChan) <= num /\ tpResult \in Seq(Nat)
    /\ task \in [Workers -> Seq(Nat)]
    /\ working \in [Workers -> {"idle", "next", "executing", "returned"}]

\* The queue is closed after the last task, and a goroutine returns only when
\* it is closed and empty; the caller reads results only when all have.
Phases ==
    /\ closed <=> caller # "adding"
    /\ closed => added = Count
    /\ \A w \in Workers :
          /\ working[w] \in {"idle", "returned"} => task[w] = <<>>
          /\ working[w] = "executing" => task[w] # <<>>
          /\ working[w] = "returned" => closed /\ taskQueue = <<>>
    /\ caller \in {"draining", "returned"} => AllReturned
    /\ caller = "returned" => Len(tpResult) = num

\* The queue holds the slices that have been added and not taken.
QueueIsSlices ==
    /\ taken \in 0 .. Count
    /\ \A j \in DOMAIN taskQueue : taskQueue[j] = partItem(taken + j)

\* No item is twice with a goroutine, with two goroutines, in the results twice
\* or in both, ...
OnceOnly ==
    /\ \A w \in Workers : \A i, j \in DOMAIN task[w] : i # j => task[w][i] # task[w][j]
    /\ \A v, w \in Workers : \A i \in DOMAIN task[v], j \in DOMAIN task[w] :
           v # w => task[v][i] # task[w][j]
    /\ \A i, j \in DOMAIN Results : i # j => Results[i] # Results[j]
    /\ \A w \in Workers : \A i \in DOMAIN task[w], j \in DOMAIN Results : task[w][i] # Results[j]

\* ... and every item of a slice that was taken is in one of these places.
Accounted ==
    /\ \A w \in Workers : \A i \in DOMAIN task[w] : task[w][i] \in 1 .. Bound(taken)
    /\ \A i \in DOMAIN Results : Results[i] \in 1 .. Bound(taken)
    /\ \A n \in 1 .. Bound(taken) :
          \/ \E w \in Workers : \E i \in DOMAIN task[w] : task[w][i] = n
          \/ \E i \in DOMAIN Results : Results[i] = n

PoolInv == Typing /\ Phases /\ QueueIsSlices /\ OnceOnly /\ Accounted
-----------------------------------------------------------------------------
(* Lemmas about the slices.                                                  *)

\* Division with remainder.
LEMMA Division ==
    ASSUME NEW c \in Nat \ {0}, NEW n \in Nat
    PROVE  n \div c \in Nat /\ n % c \in Nat /\ n = c * (n \div c) + (n % c)
OBVIOUS

\* Multiplication keeps the order.
LEMMA Multiples ==
    ASSUME NEW a \in Nat, NEW b \in Nat, NEW s \in Nat, a <= b
    PROVE  a * s \in Nat /\ a * s <= b * s
<1>1. PICK d \in Nat : b = a + d
  BY b - a \in Nat, b = a + (b - a)
<1>2. b * s = a * s + d * s
  BY <1>1
<1>3. d * s \in Nat /\ a * s \in Nat
  OBVIOUS
<1>. QED
  BY <1>2, <1>3

\* The slices follow one another and end with the last item (execpool.go:37-49).
LEMMA BoundLemma ==
    ASSUME num \in Nat
    PROVE  /\ Bound(0) = 0 /\ Bound(Count) = num
           /\ \A k \in 1 .. Count : /\ Bound(k - 1) \in Nat /\ Bound(k) \in Nat
                                    /\ Bound(k - 1) <= Bound(k) /\ Bound(k) <= num
<1> DEFINE size == num \div Count
<1>1. Count \in Nat \ {0}
  BY PoolAssumption
<1>2. size \in Nat /\ num % Count \in Nat /\ num = Count * size + (num % Count)
  BY <1>1, Division
<1>3. Bound(0) = 0
  BY <1>1, <1>2 DEF Bound
<1>4. ASSUME NEW k \in 1 .. Count
      PROVE  Bound(k - 1) \in Nat /\ Bound(k) \in Nat /\ Bound(k - 1) <= Bound(k) /\ Bound(k) <= num
  <2>1. Bound(k - 1) = (k - 1) * size /\ Bound(k) = IF k = Count THEN num ELSE k * size
    BY <1>1 DEF Bound
  <2> HIDE DEF size
  <2>2. k \in Nat /\ k - 1 \in Nat /\ k <= Count
    BY <1>1
  <2>3. (k - 1) * size \in Nat /\ (k - 1) * size <= k * size
    BY <1>2, <2>2, Multiples
  <2>4. k * size \in Nat /\ k * size <= Count * size
    BY <1>1, <1>2, <2>2, Multiples
  <2>5. k * size <= num
    BY <1>1, <1>2, <2>4
  <2>. QED
    BY <2>1, <2>3, <2>4, <2>5
<1>. QED
  BY <1>3, <1>4 DEF Bound

\* The k-th slice has the items after the bound of the one before it, in order.
LEMMA SliceLemma ==
    ASSUME num \in Nat, NEW k \in 1 .. Count
    PROVE  /\ partItem(k) \in Seq(Nat)
           /\ Len(partItem(k)) = Bound(k) - Bound(k - 1)
           /\ \A i \in DOMAIN partItem(k) : partItem(k)[i] = Bound(k - 1) + i
<1>1. Count \in Nat \ {0}
  BY PoolAssumption
<1>2. Count * (num \div Count) + (num % Count) = num
  BY <1>1, Division
<1>3. k - 1 # Count
  BY <1>1
<1>8. partItem(k) = SubSeq(Items, Bound(k - 1) + 1, Bound(k))
  BY <1>2, <1>3 DEF partItem, WithRemainder, WithoutRemainder, Bound
<1>4. Items \in Seq(Nat) /\ Len(Items) = num /\ \A i \in 1 .. num : Items[i] = i
  BY DEF Items
<1>5. ASSUME NEW a \in Nat, NEW b \in Nat, a <= b, b <= num
      PROVE  LET s == SubSeq(Items, a + 1, b)
             IN  s \in Seq(Nat) /\ Len(s) = b - a /\ \A i \in DOMAIN s : s[i] = a + i
  BY <1>4, <1>5
<1>6. Bound(k - 1) \in Nat /\ Bound(k) \in Nat /\ Bound(k - 1) <= Bound(k) /\ Bound(k) <= num
  BY BoundLemma
<1> DEFINE a == Bound(k - 1)  b == Bound(k)
<1> HIDE DEF a, b
<1>7. LET s == SubSeq(Items, a + 1, b)
      IN  s \in Seq(Nat) /\ Len(s) = b - a /\ \A i \in DOMAIN s : s[i] = a + i
  BY <1>5, <1>6 DEF a, b
<1>. QED
  BY <1>7, <1>8 DEF a, b

\* The items do not change.
LEMMA SlicesStay ==
    ASSUME num' = num
    PROVE  \A k : Bound(k)' = Bound(k) /\ partItem(k)' = partItem(k)
BY DEF Bound, partItem, WithRemainder, WithoutRemainder, Items

-----------------------------------------------------------------------------
(* The actions.                                                              *)

\* Initially no slice has been added and every goroutine is idle.
LEMMA PoolInit == Init => PoolInv
<1> SUFFICES ASSUME Init PROVE PoolInv
  OBVIOUS
<1>1. num \in Nat /\ Count \in Nat \ {0}
  BY PoolAssumption DEF Init
<1>2. Typing
  <2>1. num \in Sizes /\ caller = "adding" /\ added \in 0 .. Count
    BY <1>1 DEF Init
  <2>5. closed \in BOOLEAN
    BY DEF Init
  <2>2. taskQueue \in Seq(Seq(Nat)) /\ resultChan \in Seq(Nat) /\ tpResult \in Seq(Nat)
    BY DEF Init
  <2>3. Len(taskQueue) <= num /\ Len(resultChan) <= num
    BY <1>1 DEF Init
  <2>4. task \in [Workers -> Seq(Nat)] /\ working \in [Workers -> {"idle"}]
    BY DEF Init
  <2>. QED
    BY <2>1, <2>2, <2>3, <2>4, <2>5 DEF Typing
<1>3. Phases
  BY <1>1 DEF Init, Phases
<1>4. taken = 0 /\ Results = <<>>
  <2>1. Len(taskQueue) = 0 /\ added = 0
    BY DEF Init
  <2>2. tpResult \o resultChan = <<>>
    BY DEF Init
  <2>. QED
    BY <2>1, <2>2 DEF taken, Results
<1>5. QueueIsSlices
  BY <1>1, <1>4 DEF Init, QueueIsSlices
<1>6. OnceOnly
  BY <1>4 DEF Init, OnceOnly
<1>7. Bound(taken) = 0
  BY <1>1, <1>4, BoundLemma
<1>8. Accounted
  BY <1>4, <1>7 DEF Init, Accounted
<1>. QED
  BY <1>2, <1>3, <1>5, <1>6, <1>8 DEF PoolInv

\* A goroutine that has finished its task gets the next slice.
LEMMA HandOver ==
    ASSUME PoolInv, NEW w \in Workers, task[w] = <<>>, taken + 1 \in 1 .. Count,
           num' = num, taken' = taken + 1, Results' = Results,
           task' = [task EXCEPT ![w] = partItem(taken + 1)]
    PROVE  OnceOnly' /\ Accounted'
<1> DEFINE k == taken + 1
<1>1. num \in Nat /\ taken \in Nat
  BY PoolAssumption DEF PoolInv, Typing, QueueIsSlices
<1>2. /\ partItem(k) \in Seq(Nat) /\ Len(partItem(k)) = Bound(k) - Bound(taken)
      /\ \A i \in DOMAIN partItem(k) : partItem(k)[i] = Bound(taken) + i
  BY <1>1, SliceLemma, k - 1 = taken
<1>3. Bound(taken) \in Nat /\ Bound(k) \in Nat /\ Bound(taken) <= Bound(k)
  BY <1>1, BoundLemma, k - 1 = taken
<1>4. Bound(taken)' = Bound(k)
  BY SlicesStay
<1>5. /\ \A i \in DOMAIN partItem(k) : partItem(k)[i] \in Bound(taken) + 1 .. Bound(k)
      /\ \A i, j \in DOMAIN partItem(k) : i # j => partItem(k)[i] # partItem(k)[j]
      /\ \A n \in Bound(taken) + 1 .. Bound(k) :
             n - Bound(taken) \in DOMAIN partItem(k) /\ partItem(k)[n - Bound(taken)] = n
  BY <1>2, <1>3
<1>6. /\ task'[w] = partItem(k) /\ task \in [Workers -> Seq(Nat)]
      /\ \A v \in Workers : v # w => task'[v] = task[v]
  BY DEF PoolInv, Typing
<1> DEFINE low == Bound(taken)  high == Bound(k)  slice == partItem(k)
<1> HIDE DEF k, low, high, slice
<1>7. /\ \A v \in Workers : \A i \in DOMAIN task[v] : task[v][i] \in 1 .. low
      /\ \A i \in DOMAIN Results : Results[i] \in 1 .. low
      /\ \A n \in 1 .. low : \/ \E v \in Workers : \E i \in DOMAIN task[v] : task[v][i] = n
                             \/ \E i \in DOMAIN Results : Results[i] = n
  BY DEF PoolInv, Accounted, low
<1>8. OnceOnly'
  <2>1. \A i, j \in DOMAIN task'[w] : i # j => task'[w][i] # task'[w][j]
    BY <1>5, <1>6 DEF slice
  <2>2. \A v \in Workers \ {w} : \A i \in DOMAIN task'[v], j \in DOMAIN task'[w] :
            task'[v][i] < task'[w][j]
    BY <1>3, <1>5, <1>6, <1>7 DEF low, high
  <2>3. \A i \in DOMAIN task'[w], j \in DOMAIN Results' : Results'[j] < task'[w][i]
    BY <1>3, <1>5, <1>6, <1>7 DEF low, high
  <2>4. \A v \in Workers : \A i \in DOMAIN task'[v] : task'[v][i] \in Nat
    BY <1>2, <1>6
  <2>5. \A i \in DOMAIN Results' : Results'[i] \in Nat
    BY <1>3, <1>7 DEF low
  <2>. QED
    BY <2>1, <2>2, <2>3, <2>4, <2>5, <1>6 DEF OnceOnly, PoolInv
<1>9. Accounted'
  <2>1. \A v \in Workers : \A i \in DOMAIN task'[v] : task'[v][i] \in 1 .. high
    BY <1>3, <1>5, <1>6, <1>7 DEF low, high
  <2>2. \A i \in DOMAIN Results' : Results'[i] \in 1 .. high
    BY <1>3, <1>7 DEF low, high
  <2>3. ASSUME NEW n \in 1 .. high
        PROVE  \/ \E v \in Workers : \E i \in DOMAIN task'[v] : task'[v][i] = n
               \/ \E i \in DOMAIN Results' : Results'[i] = n
    <3>1. CASE n \in 1 .. low
      BY <3>1, <1>6, <1>7
    <3>2. CASE n \in low + 1 .. high
      BY <3>2, <1>5, <1>6 DEF low, high
    <3>. QED
      BY <3>1, <3>2, <1>3 DEF low, high
  <2>. QED
    BY <2>1, <2>2, <2>3, <1>4 DEF Accounted, high
<1>. QED
  BY <1>8, <1>9

\* A goroutine takes the first slice of the queue: the bound moves up by one slice.
LEMMA TakeInv ==
    ASSUME PoolInv, NEW w \in Workers, Take(w)
    PROVE  PoolInv'
<1>1. /\ num \in Nat /\ added \in Nat /\ added <= Count /\ Count \in Nat \ {0}
      /\ taskQueue \in Seq(Seq(Nat)) /\ taskQueue # <<>> /\ Len(taskQueue) \in Nat \ {0}
      /\ Len(taskQueue) <= num /\ taken \in Nat
  BY PoolAssumption DEF PoolInv, Typing, QueueIsSlices, Take
<1>2. /\ taskQueue' \in Seq(Seq(Nat)) /\ Len(taskQueue') = Len(taskQueue) - 1
      /\ \A j \in 1 .. Len(taskQueue) - 1 : taskQueue'[j] = taskQueue[j + 1]
  BY <1>1 DEF Take
<1>3. taken' = taken + 1 /\ taken + 1 \in 1 .. Count
  BY <1>1, <1>2 DEF taken, Take
<1>4. Head(taskQueue) = partItem(taken + 1) /\ Head(taskQueue) \in Seq(Nat)
  BY <1>1 DEF PoolInv, QueueIsSlices
<1>5. num' = num /\ Results' = Results /\ task[w] = <<>>
  BY DEF Take, Results, PoolInv, Phases
<1>6. task' = [task EXCEPT ![w] = partItem(taken + 1)]
  BY <1>4 DEF Take
<1>7. OnceOnly' /\ Accounted'
  BY <1>3, <1>5, <1>6, HandOver
<1>8. Typing'
  <2>1. working' \in [Workers -> {"idle", "next", "executing", "returned"}]
    BY DEF PoolInv, Typing, Take
  <2>2. task' \in [Workers -> Seq(Nat)]
    BY <1>4 DEF PoolInv, Typing, Take
  <2>. QED
    BY <1>1, <1>2, <2>1, <2>2 DEF PoolInv, Typing, Take
<1>9. Phases'
  BY <1>1 DEF PoolInv, Typing, Phases, Take, AllReturned
<1>10. QueueIsSlices'
  <2>1. ASSUME NEW j \in DOMAIN taskQueue'
        PROVE  taskQueue'[j] = partItem(taken + j)'
    <3>1. j \in 1 .. Len(taskQueue) - 1
      BY <1>2, <2>1
    <3>2. j + 1 \in DOMAIN taskQueue /\ taken + (j + 1) = taken' + j
      BY <1>1, <1>3, <3>1
    <3>3. taskQueue[j + 1] = partItem(taken + (j + 1))
      BY <3>2 DEF PoolInv, QueueIsSlices
    <3>. QED
      BY <1>2, <1>5, <3>1, <3>2, <3>3, SlicesStay
  <2>. QED
    BY <1>1, <1>3, <2>1 DEF QueueIsSlices
<1>. QED
  BY <1>7, <1>8, <1>9, <1>10 DEF PoolInv

\* The caller adds the next slice, to the queue or, when that has no place, to a goroutine.
LEMMA AddTaskInv ==
    ASSUME PoolInv, AddTask
    PROVE  PoolInv'
<1>1. /\ num \in Nat /\ added \in Nat /\ added + 1 \in 1 .. Count /\ Count \in Nat \ {0}
      /\ taskQueue \in Seq(Seq(Nat)) /\ Len(taskQueue) \in Nat /\ taken \in Nat
      /\ added' = added + 1 /\ num' = num /\ Results' = Results
  BY PoolAssumption DEF PoolInv, Typing, QueueIsSlices, AddTask, MoreTasks, Results
<1>2. caller = "adding" /\ closed = FALSE /\ \A w \in Workers : working[w] # "returned"
  BY DEF AddTask, PoolInv, Phases, Typing
<1>3. partItem(added + 1) \in Seq(Nat)
  BY <1>1, SliceLemma
<1>4. CASE /\ Len(taskQueue) < num /\ taskQueue' = Append(taskQueue, partItem(added + 1))
           /\ UNCHANGED <<task, working>>
  <2>1. /\ taskQueue' \in Seq(Seq(Nat)) /\ Len(taskQueue') = Len(taskQueue) + 1
        /\ \A j \in 1 .. Len(taskQueue) : taskQueue'[j] = taskQueue[j]
        /\ taskQueue'[Len(taskQueue) + 1] = partItem(added + 1)
    BY <1>1, <1>3, <1>4
  <2>2. taken' = taken /\ taken + (Len(taskQueue) + 1) = added + 1
    BY <1>1, <2>1 DEF taken
  <2>3. Typing'
    BY <1>1, <1>4, <2>1 DEF PoolInv, Typing, AddTask
  <2>4. Phases'
    BY <1>2, <1>4 DEF PoolInv, Phases, AddTask, AllReturned
  <2>5. QueueIsSlices'
    <3>1. ASSUME NEW j \in DOMAIN taskQueue'
          PROVE  taskQueue'[j] = partItem(taken + j)'
      <4>1. j \in 1 .. Len(taskQueue) \/ j = Len(taskQueue) + 1
        BY <1>1, <2>1, <3>1
      <4>2. taskQueue'[j] = partItem(taken + j)
        <5>1. ASSUME j \in 1 .. Len(taskQueue) PROVE taskQueue'[j] = partItem(taken + j)
          <6>1. j \in DOMAIN taskQueue
            BY <1>1, <5>1
          <6>2. taskQueue[j] = partItem(taken + j)
            BY <6>1 DEF PoolInv, QueueIsSlices
          <6>. QED
            BY <2>1, <5>1, <6>2
        <5>2. ASSUME j = Len(taskQueue) + 1 PROVE taskQueue'[j] = partItem(taken + j)
          BY <2>1, <2>2, <5>2
        <5>. QED
          BY <4>1, <5>1, <5>2
      <4>. QED
        BY <1>1, <2>2, <4>2, SlicesStay
    <3>. QED
      BY <2>2, <3>1 DEF PoolInv, QueueIsSlices
  <2>6. Bound(taken)' = Bound(taken)
    BY <1>1, <2>2, SlicesStay
  <2>7. OnceOnly' /\ Accounted'
    BY <1>1, <1>4, <2>6 DEF PoolInv, OnceOnly, Accounted
  <2>. QED
    BY <2>3, <2>4, <2>5, <2>7 DEF PoolInv
<1>5. ASSUME num = 0, NEW w \in Idle,
             task' = [task EXCEPT ![w] = partItem(added + 1)],
             working' = [working EXCEPT ![w] = "next"], UNCHANGED taskQueue
      PROVE  PoolInv'
  <2>1. w \in Workers /\ task[w] = <<>>
    BY <1>5 DEF Idle, PoolInv, Phases
  <2>2. taken = added /\ taken' = taken + 1
    BY <1>1, <1>5 DEF PoolInv, Typing, taken
  <2>3. OnceOnly' /\ Accounted'
    BY <1>1, <1>5, <2>1, <2>2, HandOver
  <2>4. Typing'
    <3>1. working' \in [Workers -> {"idle", "next", "executing", "returned"}]
      BY <1>5 DEF PoolInv, Typing
    <3>2. task' \in [Workers -> Seq(Nat)]
      BY <1>3, <1>5 DEF PoolInv, Typing
    <3>. QED
      BY <1>1, <1>5, <3>1, <3>2 DEF PoolInv, Typing, AddTask
  <2>5. Phases'
    BY <1>2, <1>5, <2>1 DEF PoolInv, Typing, Phases, AddTask, AllReturned
  <2>6. QueueIsSlices'
    <3>1. DOMAIN taskQueue' = {}
      BY <1>1, <1>5 DEF PoolInv, Typing
    <3>. QED
      BY <1>1, <2>2, <3>1 DEF QueueIsSlices
  <2>. QED
    BY <2>3, <2>4, <2>5, <2>6 DEF PoolInv
<1>. QED
  BY <1>4, <1>5 DEF AddTask

\* An item goes from its goroutine to the results.
LEMMA SendResultInv ==
    ASSUME PoolInv, NEW w \in Workers, SendResult(w)
    PROVE  PoolInv'
<1> DEFINE item == Head(task[w])
<1>1. /\ num \in Nat /\ task[w] \in Seq(Nat) /\ task[w] # <<>> /\ Len(task[w]) \in Nat \ {0}
      /\ item \in Nat /\ item = task[w][1] /\ 1 \in DOMAIN task[w]
      /\ resultChan \in Seq(Nat) /\ tpResult \in Seq(Nat) /\ Len(resultChan) < num
      /\ num' = num
  BY PoolAssumption DEF PoolInv, Typing, Phases, SendResult, Capacity
<1>2. /\ task \in [Workers -> Seq(Nat)] /\ task' \in [Workers -> Seq(Nat)]
      /\ \A v \in Workers : v # w => task'[v] = task[v]
      /\ Len(task'[w]) = Len(task[w]) - 1
      /\ \A i \in DOMAIN task'[w] : i + 1 \in DOMAIN task[w] /\ task'[w][i] = task[w][i + 1]
      /\ \A i \in DOMAIN task[w] : i # 1 => i - 1 \in DOMAIN task'[w] /\ task'[w][i - 1] = task[w][i]
  <2>1. task \in [Workers -> Seq(Nat)] /\ task' = [task EXCEPT ![w] = Tail(task[w])]
    BY DEF PoolInv, Typing, SendResult
  <2>2. ASSUME NEW s \in Seq(Nat), s # <<>>
        PROVE  /\ Tail(s) \in Seq(Nat) /\ Len(Tail(s)) = Len(s) - 1
               /\ \A i \in DOMAIN Tail(s) : i + 1 \in DOMAIN s /\ Tail(s)[i] = s[i + 1]
               /\ \A i \in DOMAIN s : i # 1 => i - 1 \in DOMAIN Tail(s) /\ Tail(s)[i - 1] = s[i]
    BY <2>2
  <2>3. /\ task' \in [Workers -> Seq(Nat)] /\ task'[w] = Tail(task[w])
        /\ \A v \in Workers : v # w => task'[v] = task[v]
    <3>1. Tail(task[w]) \in Seq(Nat)
      BY <1>1, <2>2
    <3>. QED
      BY <2>1, <3>1
  <2>. QED
    BY <1>1, <2>1, <2>2, <2>3
<1> DEFINE old(v, i) == IF v = w THEN i + 1 ELSE i
<1>11. /\ \A v \in Workers : \A i \in DOMAIN task'[v] :
             old(v, i) \in DOMAIN task[v] /\ task'[v][i] = task[v][old(v, i)]
       /\ \A v \in Workers : \A i, j \in DOMAIN task'[v] : i # j => old(v, i) # old(v, j)
       /\ \A i \in DOMAIN task'[w] : old(w, i) # 1
  <2>1. \A v \in Workers : DOMAIN task'[v] \subseteq Nat \ {0}
    BY <1>2
  <2>2. \A v \in Workers : \A i \in DOMAIN task'[v] :
            old(v, i) \in DOMAIN task[v] /\ task'[v][i] = task[v][old(v, i)]
    BY <1>2
  <2>3. \A v \in Workers : \A i, j \in DOMAIN task'[v] : i # j => old(v, i) # old(v, j)
    BY <2>1
  <2>4. \A i \in DOMAIN task'[w] : old(w, i) # 1
    BY <2>1
  <2>. QED
    BY <2>2, <2>3, <2>4
<1> HIDE DEF item, old
<1>3. /\ Results \in Seq(Nat) /\ Results' = Append(Results, item)
  <2>1. resultChan' = Append(resultChan, item) /\ tpResult' = tpResult
    BY DEF SendResult, item
  <2>2. tpResult \o Append(resultChan, item) = Append(tpResult \o resultChan, item)
    BY <1>1
  <2>. QED
    BY <1>1, <2>1, <2>2 DEF Results
<1>4. /\ Len(Results') = Len(Results) + 1 /\ Len(Results) \in Nat /\ Results'[Len(Results) + 1] = item
      /\ DOMAIN Results' = 1 .. Len(Results) + 1 /\ DOMAIN Results = 1 .. Len(Results)
      /\ \A i \in DOMAIN Results : Results'[i] = Results[i]
  BY <1>1, <1>3
<1>5. taken' = taken /\ Bound(taken)' = Bound(taken)
  <2>1. taken' = taken
    BY DEF SendResult, taken
  <2>. QED
    BY <1>1, <2>1, SlicesStay
<1>6. Typing'
  <2>1. resultChan' \in Seq(Nat) /\ Len(resultChan') = Len(resultChan) + 1
    BY <1>1 DEF SendResult, item
  <2>2. working' \in [Workers -> {"idle", "next", "executing", "returned"}]
    BY DEF PoolInv, Typing, SendResult
  <2>3. Len(resultChan) \in Nat
    BY <1>1
  <2>. QED
    BY <1>1, <1>2, <2>1, <2>2, <2>3 DEF PoolInv, Typing, SendResult
<1>7. Phases'
  <2>1. caller \notin {"draining", "returned"} /\ working[w] = "executing"
    BY DEF PoolInv, Phases, AllReturned, SendResult
  <2>. QED
    BY <1>2, <2>1 DEF PoolInv, Typing, Phases, SendResult, AllReturned
<1>8. QueueIsSlices'
  <2>1. \A j \in DOMAIN taskQueue : taskQueue[j] = partItem(taken + j)
    BY DEF PoolInv, QueueIsSlices
  <2>2. \A j : partItem(taken + j)' = partItem(taken + j)
    BY <1>1, <1>5, SlicesStay
  <2>3. taskQueue' = taskQueue
    BY DEF SendResult
  <2>. QED
    BY <1>5, <2>1, <2>2, <2>3 DEF PoolInv, QueueIsSlices
<1>9. OnceOnly'
  <2>1. OnceOnly
    BY DEF PoolInv
  <2>2. \A v \in Workers : \A i, j \in DOMAIN task'[v] : i # j => task'[v][i] # task'[v][j]
    BY <1>11, <2>1 DEF OnceOnly
  <2>3. \A u, v \in Workers : \A i \in DOMAIN task'[u], j \in DOMAIN task'[v] :
            u # v => task'[u][i] # task'[v][j]
    BY <1>11, <2>1 DEF OnceOnly
  <2>4. \A v \in Workers : \A i \in DOMAIN task'[v] : task'[v][i] # item
    <3>1. \A i \in DOMAIN task'[w] : task'[w][i] # item
      BY <1>1, <1>11, <2>1 DEF OnceOnly
    <3>2. \A v \in Workers \ {w} : \A i \in DOMAIN task'[v] : task'[v][i] # item
      BY <1>1, <1>2, <2>1 DEF OnceOnly
    <3>. QED
      BY <3>1, <3>2
  <2>5. \A i \in DOMAIN Results : Results[i] # item
    BY <1>1, <2>1 DEF OnceOnly
  <2>6. \A i, j \in DOMAIN Results' : i # j => Results'[i] # Results'[j]
    BY <1>4, <2>1, <2>5 DEF OnceOnly
  <2>7. \A v \in Workers : \A i \in DOMAIN task'[v], j \in DOMAIN Results' : task'[v][i] # Results'[j]
    <3>1. \A v \in Workers : \A i \in DOMAIN task'[v], j \in DOMAIN Results : task'[v][i] # Results[j]
      BY <1>11, <2>1 DEF OnceOnly
    <3>. QED
      BY <1>4, <2>4, <3>1
  <2>. QED
    BY <2>2, <2>3, <2>6, <2>7 DEF OnceOnly
<1>10. Accounted'
  <2>1. item \in 1 .. Bound(taken)
    BY <1>1 DEF PoolInv, Accounted
  <2>2. \A v \in Workers : \A i \in DOMAIN task'[v] : task'[v][i] \in 1 .. Bound(taken)
    BY <1>11 DEF PoolInv, Accounted
  <2>3. \A i \in DOMAIN Results' : Results'[i] \in 1 .. Bound(taken)
    BY <1>4, <2>1 DEF PoolInv, Accounted
  <2>4. ASSUME NEW n \in 1 .. Bound(taken)
        PROVE  \/ \E v \in Workers : \E i \in DOMAIN task'[v] : task'[v][i] = n
               \/ \E i \in DOMAIN Results' : Results'[i] = n
    <3>1. CASE n = item
      BY <1>4, <3>1
    <3>2. ASSUME n # item, NEW v \in Workers, NEW i \in DOMAIN task[v], task[v][i] = n
          PROVE  \E j \in DOMAIN task'[v] : task'[v][j] = n
      BY <1>1, <1>2, <3>2
    <3>3. CASE \E i \in DOMAIN Results : Results[i] = n
      BY <1>4, <3>3
    <3>. QED
      BY <3>1, <3>2, <3>3 DEF PoolInv, Accounted
  <2>. QED
    BY <1>5, <2>2, <2>3, <2>4 DEF Accounted
<1>. QED
  BY <1>6, <1>7, <1>8, <1>9, <1>10 DEF PoolInv

\* With all goroutines returned every item has one result.
LEMMA AllDone ==
    ASSUME PoolInv, caller \in {"draining", "returned"}
    PROVE  /\ Len(resultChan) + Len(tpResult) = num
           /\ \A n \in 1 .. num : \E i \in DOMAIN Results : Results[i] = n
           /\ \A i \in DOMAIN Results : Results[i] \in 1 .. num
<1>1. /\ num \in Nat /\ Count \in Nat \ {0} /\ tpResult \in Seq(Nat) /\ resultChan \in Seq(Nat)
      /\ \A w \in Workers : working[w] = "returned" /\ task[w] = <<>>
  BY PoolAssumption DEF PoolInv, Typing, Phases, AllReturned
<1>2. added = Count /\ taskQueue = <<>>
  <2>1. 1 \in Workers
    BY <1>1 DEF Workers
  <2>. QED
    BY <1>1, <2>1 DEF PoolInv, Phases
<1>3. Bound(taken) = num
  <2>1. Len(taskQueue) = 0
    BY <1>2
  <2>2. taken = Count
    BY <1>1, <1>2, <2>1 DEF taken
  <2>. QED
    BY <1>1, <2>2, BoundLemma
<1>4. /\ \A i \in DOMAIN Results : Results[i] \in 1 .. num
      /\ \A n \in 1 .. num : \E i \in DOMAIN Results : Results[i] = n
  BY <1>1, <1>3 DEF PoolInv, Accounted
<1>5. Results \in Seq(Nat) /\ Len(Results) = Len(tpResult) + Len(resultChan)
  BY <1>1 DEF Results
<1>6. Len(Results) = num
  <2> DEFINE f == [i \in 1 .. Len(Results) |-> Results[i]]
  <2>1. f \in Bijection(1 .. Len(Results), 1 .. num)
    BY <1>4, <1>5 DEF PoolInv, OnceOnly, Bijection, Injection, Surjection, IsInjective
  <2>2. IsFiniteSet(1 .. Len(Results)) /\ Cardinality(1 .. Len(Results)) = Len(Results)
    BY <1>5, FS_Interval
  <2>3. Cardinality(1 .. num) = num
    BY <1>1, FS_Interval
  <2>. QED
    BY <2>1, <2>2, <2>3, FS_Bijection DEF ExistsBijection
<1>. QED
  BY <1>1, <1>4, <1>5, <1>6

\* The caller moves a result from the channel to its own list.
LEMMA DrainInv ==
    ASSUME PoolInv, Drain
    PROVE  PoolInv'
<1>1. /\ num \in Nat /\ tpResult \in Seq(Nat) /\ resultChan \in Seq(Nat) /\ resultChan # <<>>
      /\ num' = num /\ taken' = taken /\ UNCHANGED <<added, taskQueue, closed, task, working>>
      /\ caller = "draining"
  BY PoolAssumption DEF PoolInv, Typing, Drain, taken
<1>2. /\ Head(resultChan) \in Nat /\ Tail(resultChan) \in Seq(Nat)
      /\ resultChan = <<Head(resultChan)>> \o Tail(resultChan)
      /\ Len(Tail(resultChan)) = Len(resultChan) - 1 /\ Len(resultChan) \in Nat
  BY <1>1
<1>3. tpResult' \in Seq(Nat) /\ resultChan' = Tail(resultChan)
  BY <1>1, <1>2 DEF Drain
<1>4. Results' = Results
  <2>1. Append(tpResult, Head(resultChan)) \o Tail(resultChan)
            = tpResult \o (<<Head(resultChan)>> \o Tail(resultChan))
    BY <1>1, <1>2
  <2>. QED
    BY <1>2, <2>1 DEF Drain, Results
<1>5. Bound(taken)' = Bound(taken)
  BY <1>1, SlicesStay
<1>6. Typing'
  BY <1>1, <1>2, <1>3 DEF PoolInv, Typing, Drain
<1>7. Phases'
  <2>1. caller' \in {"draining", "returned"} /\ (caller' = "returned" => Len(tpResult') = num)
    BY <1>1 DEF Drain
  <2>2. closed /\ closed' /\ added = Count /\ AllReturned /\ AllReturned'
    BY <1>1 DEF PoolInv, Phases, AllReturned
  <2>3. \A w \in Workers : /\ working[w] \in {"idle", "returned"} => task[w] = <<>>
                           /\ working[w] = "executing" => task[w] # <<>>
                           /\ working[w] = "returned" => taskQueue = <<>>
    BY DEF PoolInv, Phases
  <2>4. caller' # "adding" /\ added' = Count
    BY <1>1, <2>1, <2>2
  <2>7. (closed <=> caller # "adding")'
    BY <2>2, <2>4
  <2>5. \A w \in Workers : /\ working'[w] \in {"idle", "returned"} => task'[w] = <<>>
                           /\ working'[w] = "executing" => task'[w] # <<>>
                           /\ working'[w] = "returned" => closed' /\ taskQueue' = <<>>
    BY <1>1, <2>2, <2>3
  <2>6. (caller = "returned" => Len(tpResult) = num)'
    BY <1>1, <2>1
  <2>. QED
    BY <2>2, <2>4, <2>5, <2>6, <2>7 DEF Phases
<1>8. QueueIsSlices'
  <2>1. \A j : partItem(taken + j)' = partItem(taken + j)
    BY <1>1, SlicesStay
  <2>. QED
    BY <1>1, <2>1 DEF PoolInv, QueueIsSlices
<1>9. OnceOnly' /\ Accounted'
  BY <1>1, <1>4, <1>5 DEF PoolInv, OnceOnly, Accounted
<1>. QED
  BY <1>6, <1>7, <1>8, <1>9 DEF PoolInv

\* The steps that move no item.
LEMMA StillInv ==
    ASSUME PoolInv,
           UNCHANGED <<num, added, taskQueue, resultChan, tpResult, task>>,
           caller' \in {"adding", "waiting", "draining", "returned"}, closed' \in BOOLEAN,
           working' \in [Workers -> {"idle", "next", "executing", "returned"}],
           Phases'
    PROVE  PoolInv'
<1>1. taken' = taken /\ Results' = Results /\ Bound(taken)' = Bound(taken)
      /\ \A j : partItem(taken + j)' = partItem(taken + j)
  <2>1. taken' = taken /\ Results' = Results
    BY DEF taken, Results
  <2>. QED
    BY <2>1, SlicesStay
<1>2. Typing'
  BY DEF PoolInv, Typing
<1>3. QueueIsSlices' /\ OnceOnly' /\ Accounted'
  BY <1>1 DEF PoolInv, QueueIsSlices, OnceOnly, Accounted
<1>. QED
  BY <1>2, <1>3 DEF PoolInv

\* Every step accounts for every item.
LEMMA PoolStep == PoolInv /\ [Next]_vars => PoolInv'
<1> SUFFICES ASSUME PoolInv, [Next]_vars PROVE PoolInv'
  OBVIOUS
<1>0. Count \in Nat \ {0} /\ Typing /\ Phases
  BY PoolAssumption DEF PoolInv
<1>1. CASE AddTask
  BY <1>1, AddTaskInv
<1>2. CASE CloseQueue
  <2>1. added = Count
    BY <1>0, <1>2 DEF CloseQueue, MoreTasks, Typing
  <2>2. Phases'
    BY <1>0, <1>2, <2>1 DEF CloseQueue, Phases, AllReturned
  <2>. QED
    BY <1>0, <1>2, <2>2, StillInv DEF CloseQueue, Typing
<1>3. CASE Wait
  <2>1. Phases'
    BY <1>0, <1>3 DEF Wait, Phases, AllReturned
  <2>. QED
    BY <1>0, <1>3, <2>1, StillInv DEF Wait, Typing
<1>4. CASE Drain
  BY <1>4, DrainInv
<1>5. ASSUME NEW w \in Workers, Take(w)
      PROVE  PoolInv'
  BY <1>5, TakeInv
<1>6. ASSUME NEW w \in Workers, Exit(w)
      PROVE  PoolInv'
  <2>1. Phases'
    BY <1>0, <1>6 DEF Exit, Typing, Phases, AllReturned
  <2>. QED
    BY <1>0, <1>6, <2>1, StillInv DEF Exit, Typing
<1>7. ASSUME NEW w \in Workers, ExecFunc(w)
      PROVE  PoolInv'
  <2>1. Phases'
    BY <1>0, <1>7 DEF ExecFunc, Typing, Phases, AllReturned
  <2>. QED
    BY <1>0, <1>7, <2>1, StillInv DEF ExecFunc, Typing
<1>8. ASSUME NEW w \in Workers, SendResult(w)
      PROVE  PoolInv'
  BY <1>8, SendResultInv
<1>9. CASE UNCHANGED vars
  <2>1. Phases'
    BY <1>0, <1>9 DEF vars, Phases, AllReturned
  <2>. QED
    BY <1>0, <1>9, <2>1, StillInv DEF vars, Typing
<1>. QED
  BY <1>1, <1>2, <1>3, <1>4, <1>5, <1>6, <1>7, <1>8, <1>9 DEF Next, Caller, Worker

-----------------------------------------------------------------------------
(* The theorems.                                                             *)

\* Every item is accounted for in every reachable state.
THEOREM PoolInvariance == Spec => []PoolInv
BY PoolInit, PoolStep, PTL DEF Spec

\* Neither channel is filled beyond its capacity, and the caller never collects
\* more results than there are items, whatever the number of goroutines
\* (execpool.go:20-77).
THEOREM PoolTypeCorrect == Spec => []TypeOK
<1>1. PoolInv => TypeOK
  <2> SUFFICES ASSUME PoolInv PROVE TypeOK
    OBVIOUS
  <2>1. num \in Nat /\ tpResult \in Seq(Nat) /\ resultChan \in Seq(Nat)
    BY PoolAssumption DEF PoolInv, Typing
  <2>2. Results \in Seq(Nat) /\ Len(Results) = Len(tpResult) + Len(resultChan)
    BY <2>1 DEF Results
  <2>3. taken \in 0 .. Count /\ Bound(taken) \in Nat /\ Bound(taken) <= num
    <3>1. taken \in 0 .. Count /\ Count \in Nat \ {0}
      BY PoolAssumption DEF PoolInv, QueueIsSlices
    <3>2. CASE taken = 0
      BY <2>1, <3>1, <3>2, BoundLemma
    <3>3. CASE taken \in 1 .. Count
      BY <2>1, <3>1, <3>3, BoundLemma
    <3>. QED
      BY <3>1, <3>2, <3>3
  <2>4. Len(Results) <= num
    <3> DEFINE f == [i \in 1 .. Len(Results) |-> Results[i]]
    <3>1. \A i \in DOMAIN Results : Results[i] \in 1 .. num
      BY <2>1, <2>3 DEF PoolInv, Accounted
    <3>2. \A i, j \in 1 .. Len(Results) : Results[i] = Results[j] => i = j
      BY <2>2 DEF PoolInv, OnceOnly
    <3>3. f \in Injection(1 .. Len(Results), 1 .. num)
      BY <2>2, <3>1, <3>2 DEF Injection, IsInjective
    <3>4. Len(Results) \in Nat /\ Cardinality(1 .. Len(Results)) = Len(Results)
      BY <2>2, FS_Interval
    <3>5. IsFiniteSet(1 .. num) /\ Cardinality(1 .. num) = num
      BY <2>1, FS_Interval
    <3>. QED
      BY <3>3, <3>4, <3>5, FS_Injection
  <2>5. Len(tpResult) <= num
    BY <2>1, <2>2, <2>4
  <2>. QED
    BY <2>5 DEF PoolInv, Typing, TypeOK
<1>. QED
  BY <1>1, PoolInvariance, PTL

\* FillUpPoolWithTask returns one result of every item and no other, for every
\* number of goroutines and of items: also when there are fewer items than
\* goroutines, and when the last slice has a remainder (execpool.go:37-77).
THEOREM ResultsComplete == Spec => []EachItemOnce
<1>1. PoolInv => EachItemOnce
  <2> SUFFICES ASSUME PoolInv, caller = "returned"
               PROVE  Len(tpResult) = num /\ ToSet(tpResult) = 1 .. num
    BY DEF EachItemOnce
  <2>1. num \in Nat /\ tpResult \in Seq(Nat) /\ resultChan \in Seq(Nat) /\ Len(tpResult) = num
    BY PoolAssumption DEF PoolInv, Typing, Phases
  <2>2. resultChan = <<>>
    BY <2>1, AllDone
  <2>3. Results = tpResult
    BY <2>1, <2>2 DEF Results
  <2>. QED
    BY <2>1, <2>3, AllDone DEF ToSet
<1>. QED
  BY <1>1, PoolInvariance, PTL

\* From the first result the caller reads, no goroutine executes an item and no
\* item is left: the state is its own again (execpool.go:66-77).
THEOREM PoolQuiet == Spec => []QuietWhenDraining
<1>1. PoolInv => QuietWhenDraining
  <2> SUFFICES ASSUME PoolInv, caller \in {"draining", "returned"}
               PROVE  /\ \A w \in Workers : working[w] # "executing" /\ task[w] = <<>>
                      /\ Len(resultChan) + Len(tpResult) = num
    BY DEF QuietWhenDraining
  <2>1. \A w \in Workers : working[w] = "returned" /\ task[w] = <<>>
    BY DEF PoolInv, Phases, AllReturned
  <2>. QED
    BY <2>1, AllDone
<1>. QED
  BY <1>1, PoolInvariance, PTL
=============================================================================
