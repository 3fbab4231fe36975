------------------------------ MODULE ExecPool ------------------------------
(***************************************************************************)
(* process/execpool.go: FillUpPoolWithTask executes the items of a level   *)
(* on a fixed number of goroutines.  It cuts the items into one task for   *)
(* each of them, waits until all have returned, and only then takes the    *)
(* results out of a channel that has room for all.                         *)
(*                                                                         *)
(* What ExecFunc does to the state is the subject of ExecBench; here an    *)
(* item is being executed or it is not.                                    *)
(***************************************************************************)
EXTENDS Integers, Sequences, FiniteSets, SequencesExt

CONSTANTS Count,        \* runtime.NumCPU()
          Sizes         \* numbers of items of a level

ASSUME PoolAssumption == Count \in Nat \ {0} /\ Sizes \subseteq Nat

VARIABLES num,          \* len(items); the items are 1 .. num
          caller,       \* adding, waiting, draining or returned
          added,        \* tasks added by FillUpPoolWithTask
          taskQueue, closed,    \* the channel of tasks
          resultChan,   \* the channel of results
          tpResult,     \* the results FillUpPoolWithTask has received
          task,         \* what each goroutine has left of its task
          working       \* the goroutines that execute an item, or have not returned

vars == <<num, caller, added, taskQueue, closed, resultChan, tpResult, task, working>>
Workers == 1 .. Count

Init ==
    /\ num \in Sizes /\ caller = "adding" /\ added = 0
    /\ taskQueue = <<>> /\ closed = FALSE /\ resultChan = <<>> /\ tpResult = <<>>
    /\ task = [w \in Workers |-> <<>>] /\ working = [w \in Workers |-> "idle"]

\* make(chan *Result, num), and a variant with one place for each goroutine.
PerRoutine == Count
Capacity == num

Items == [i \in 1 .. num |-> i]

\* Variant of WithRemainder: sliced from the first item on.
FromFirst(i) == SubSeq(Items, 1, (num \div Count) + (num % Count))

\* The slices of the items: the last one takes the remainder.
WithRemainder(i) == SubSeq(Items, (i - 1) * (num \div Count) + 1, (i * (num \div Count)) + (num % Count))
WithoutRemainder(i) == SubSeq(Items, (i - 1) * (num \div Count) + 1, i * (num \div Count))
partItem(i) == IF i = Count THEN WithRemainder(i) ELSE WithoutRemainder(i)

-----------------------------------------------------------------------------
(* The caller.                                                               *)

\* A channel without room takes a task only when a goroutine waits for it.
Idle == {w \in Workers : working[w] = "idle"}

\* The loop's condition, and a variant that turns once too often.
OneMoreTask == added <= Count
MoreTasks == added < Count

AddTask ==
    /\ caller = "adding" /\ MoreTasks
    /\ added' = added + 1
    /\ \/ /\ Len(taskQueue) < num /\ taskQueue' = Append(taskQueue, partItem(added + 1)) /\ UNCHANGED <<task, working>>
       \/ /\ num = 0
          /\ \E w \in Idle : task' = [task EXCEPT ![w] = partItem(added + 1)] /\ working' = [working EXCEPT ![w] = "next"]
          /\ UNCHANGED taskQueue
    /\ UNCHANGED <<num, caller, closed, resultChan, tpResult>>

CloseQueue ==
    /\ caller = "adding" /\ ~MoreTasks
    /\ closed' = TRUE /\ caller' = "waiting"
    /\ UNCHANGED <<num, added, taskQueue, resultChan, tpResult, task, working>>

\* Variant: the goroutines are not awaited once the tasks are taken.
AllTaken == taskQueue = <<>>
AllReturned == \A w \in Workers : working[w] = "returned"
Wait ==
    /\ caller = "waiting" /\ AllReturned /\ caller' = "draining"
    /\ UNCHANGED <<num, added, taskQueue, closed, resultChan, tpResult, task, working>>

\* The lengths are compared after a result has been received.
Drain ==
    /\ caller = "draining" /\ resultChan # <<>>
    /\ tpResult' = Append(tpResult, Head(resultChan)) /\ resultChan' = Tail(resultChan)
    /\ caller' = (IF Len(tpResult') = num THEN "returned" ELSE "draining")
    /\ UNCHANGED <<num, added, taskQueue, closed, task, working>>

-----------------------------------------------------------------------------
(* A goroutine.                                                              *)

Take(w) ==
    /\ working[w] = "idle" /\ taskQueue # <<>>
    /\ task' = [task EXCEPT ![w] = Head(taskQueue)] /\ taskQueue' = Tail(taskQueue)
    /\ working' = [working EXCEPT ![w] = "next"]
    /\ UNCHANGED <<num, caller, added, closed, resultChan, tpResult>>

Exit(w) ==
    /\ working[w] = "idle" /\ taskQueue = <<>> /\ closed
    /\ working' = [working EXCEPT ![w] = "returned"]
    /\ UNCHANGED <<num, caller, added, taskQueue, closed, resultChan, tpResult, task>>

ExecFunc(w) ==
    /\ working[w] = "next"
    /\ working' = [working EXCEPT ![w] = IF task[w] = <<>> THEN "idle" ELSE "executing"]
    /\ UNCHANGED <<num, caller, added, taskQueue, closed, resultChan, tpResult, task>>

SendResult(w) ==
    /\ working[w] = "executing" /\ Len(resultChan) < Capacity
    /\ resultChan' = Append(resultChan, Head(task[w])) /\ task' = [task EXCEPT ![w] = Tail(@)]
    /\ working' = [working EXCEPT ![w] = "next"]
    /\ UNCHANGED <<num, caller, added, taskQueue, closed, tpResult>>

Worker(w) == Take(w) \/ Exit(w) \/ ExecFunc(w) \/ SendResult(w)
Caller == AddTask \/ CloseQueue \/ Wait \/ Drain
Next == Caller \/ \E w \in Workers : Worker(w)

\* The Go scheduler runs every goroutine that can run.
Spec == Init /\ [][Next]_vars /\ WF_vars(Caller) /\ \A w \in Workers : WF_vars(Worker(w))

-----------------------------------------------------------------------------
\* Every variable has its type; neither channel is filled beyond its capacity.
TypeOK ==
    /\ num \in Sizes /\ caller \in {"adding", "waiting", "draining", "returned"} /\ added \in 0 .. Count
    /\ Len(taskQueue) <= num /\ Len(resultChan) <= num /\ Len(tpResult) <= num /\ closed \in BOOLEAN
    /\ working \in [Workers -> {"idle", "next", "executing", "returned"}]

\* What FillUpPoolWithTask returns has one result of every item and no other,
\* also when there are fewer items than goroutines or a remainder.
EachItemOnce == caller = "returned" => Len(tpResult) = num /\ ToSet(tpResult) = 1 .. num

\* No goroutine executes an item, and no item is left, from the moment the
\* caller reads the first result: what it does next with the state races with
\* nothing.
QuietWhenDraining ==
    caller \in {"draining", "returned"} =>
        /\ \A w \in Workers : working[w] # "executing" /\ task[w] = <<>>
        /\ Len(resultChan) + Len(tpResult) = num

\* With at least one item FillUpPoolWithTask returns: the results fit in their
\* channel though nobody receives before all goroutines are done, a task is
\* taken by a goroutine even when there are more tasks than room, and the last
\* receive is not one too many.  (Without items it receives for ever.)
Returns == num # 0 => <>(caller = "returned")
=============================================================================
