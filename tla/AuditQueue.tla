----------------------------- MODULE AuditQueue -----------------------------
(***************************************************************************)
(* vm/ethvm/ewasm_linker.go: the audit of deployed WebAssembly code.       *)
(* GenAuditTask numbers a deployment's transaction, stores it and hands    *)
(* the number to auditLoop, which audits every task on a goroutine of its  *)
(* own.  The tasks, their number and the task audited last are in codedb   *)
(* and survive the process; the queue is in memory, and the next process   *)
(* fills it again from codedb.                                             *)
(*                                                                         *)
(* The node that embeds the VM calls Init once in each life of the process *)
(* and GenAuditTask for the transactions it deploys code with.             *)
(***************************************************************************)
EXTENDS Integers, Sequences, FiniteSets

CONSTANTS Tx,           \* transactions that deploy code
          NoTx,
          Final,        \* pieces of metered code in codedb
          FinalOf,      \* the one stored for the code of a transaction
          Honest,       \* the transactions whose code the sentinel turns into that
          Slack,        \* places of the queue beyond the tasks it begins with (100)
          MaxLives      \* bound: lives of the process

ASSUME AuditAssumption ==
    /\ NoTx \notin Tx /\ Honest \subseteq Tx /\ FinalOf \in [Tx -> Final]
    /\ IsFiniteSet(Tx) /\ Slack \in Nat /\ MaxLives \in Nat \ {0}

VARIABLES
    num, pre, record,   \* codedb: task-num, task-pre and the tasks
    status,             \* codedb: what was found of each piece of final code
    chain,              \* chaindb: the transactions it knows
    synchronis,         \* the node is synchronising
    life, open,         \* lives so far; codedb has not been closed
    loop, reload, made, queue,  \* auditLoop, its preNum, i and lastNum, and the channel
    dblock,             \* the transaction whose call holds the mutex
    call, key,          \* GenAuditTask of each transaction, and its number
    audits,             \* the goroutines of processAuditTask
    missed              \* history: the transactions a task did not find in chaindb

codedb == <<num, pre, record, status>>
node == <<chain, synchronis, life, open>>
daemon == <<loop, reload, made, queue>>
calls == <<dblock, call, key>>
vars == <<codedb, node, daemon, calls, audits, missed>>

\* A call may be made again in every life, with a new number.
Keys == 1 .. Cardinality(Tx) * MaxLives

\* The numbers before auditLoop has read them, or when it could not.
NotRead == [pre |-> 0, i |-> 0, num |-> 0]

Init ==
    /\ num = 0 /\ pre = 0 /\ record = [k \in Keys |-> NoTx] /\ status = [f \in Final |-> "none"]
    /\ chain = {} /\ synchronis \in BOOLEAN /\ life = 1 /\ open = TRUE
    /\ loop = "starting" /\ reload = NotRead /\ made = FALSE /\ queue = <<>>
    /\ dblock = NoTx /\ call = [t \in Tx |-> "none"] /\ key = [t \in Tx |-> 0]
    /\ audits = {} /\ missed = {}

-----------------------------------------------------------------------------
(* GenAuditTask.                                                             *)

Enter(t) ==
    /\ call[t] = "none" /\ open
    /\ call' = [call EXCEPT ![t] = IF synchronis THEN "direct" ELSE "waiting"]
    /\ UNCHANGED <<codedb, node, daemon, dblock, key, audits, missed>>

\* While the node synchronises there is no task: the code passes at once, if
\* its transaction can be read.
Direct(t) ==
    /\ call[t] = "direct" /\ open
    /\ status' = (IF t \in chain THEN [status EXCEPT ![FinalOf[t]] = "passed"] ELSE status)
    /\ call' = [call EXCEPT ![t] = "skipped"]
    /\ UNCHANGED <<num, pre, record, node, daemon, dblock, key, audits, missed>>

\* Variants: the mutex is not taken; the number is used again.
Unlocked == TRUE
SameNumber(n) == n

Lockable == dblock = NoTx
NextNumber(n) == n + 1
Number(t) ==
    /\ call[t] = "waiting" /\ Lockable /\ open
    /\ dblock' = t /\ key' = [key EXCEPT ![t] = NextNumber(num)]
    /\ call' = [call EXCEPT ![t] = "numbered"]
    /\ UNCHANGED <<codedb, node, daemon, audits, missed>>

Store(t) ==
    /\ call[t] = "numbered" /\ open
    /\ record' = [record EXCEPT ![key[t]] = t]
    /\ call' = [call EXCEPT ![t] = "stored"]
    /\ UNCHANGED <<num, pre, status, node, daemon, dblock, key, audits, missed>>

\* The deferred function saves the number and sends it; on a channel that has
\* not been made yet it blocks for ever, and keeps the mutex.
Count(t) ==
    /\ call[t] = "stored" /\ open
    /\ num' = key[t]
    /\ call' = [call EXCEPT ![t] = "counted"]
    /\ UNCHANGED <<pre, record, status, node, daemon, dblock, key, audits, missed>>

\* Variant: the mutex is kept.
StillHeld == dblock
Released == NoTx
Room == (reload.num - reload.pre) + Slack - Len(queue)
Send(t) ==
    /\ call[t] = "counted"
    /\ \/ /\ made /\ Room > 0
          /\ queue' = Append(queue, key[t]) /\ dblock' = Released
          /\ call' = [call EXCEPT ![t] = "returned"]
       \/ /\ ~made
          /\ call' = [call EXCEPT ![t] = "blocked"] /\ UNCHANGED <<queue, dblock>>
    /\ UNCHANGED <<codedb, node, loop, reload, made, key, audits, missed>>

GenAuditTask(t) == Enter(t) \/ Direct(t) \/ Number(t) \/ Store(t) \/ Count(t) \/ Send(t)

-----------------------------------------------------------------------------
(* auditLoop and processAuditTask.                                           *)

\* The tasks the loop still has to send, of the numbers it has read: the one
\* audited last is among them, the last one is not.  Variant: one fewer.
OneTooFew(r) == {k \in Keys : r.i <= k /\ k < r.num - 1}
Unfinished(r) == {k \in Keys : r.i <= k /\ k < r.num}
Saved == [pre |-> pre, i |-> pre, num |-> num]

MakeQueue ==
    /\ loop = "starting"
    /\ reload' = (IF open THEN Saved ELSE NotRead) /\ made' = TRUE /\ loop' = "reloading"
    /\ UNCHANGED <<codedb, node, queue, calls, audits, missed>>

Reload ==
    /\ loop = "reloading"
    /\ \/ /\ Unfinished(reload) = {} /\ loop' = "running" /\ UNCHANGED <<reload, queue>>
       \/ /\ Room > 0
          /\ \E k \in Unfinished(reload) :
                /\ \A j \in Unfinished(reload) : k <= j
                /\ queue' = Append(queue, k) /\ reload' = [reload EXCEPT !.i = k + 1]
          /\ UNCHANGED loop
    /\ UNCHANGED <<codedb, node, made, calls, audits, missed>>

\* After Shutdown the task cannot be read, and is dropped.
Dispatch ==
    /\ loop = "running" /\ queue # <<>>
    /\ queue' = Tail(queue)
    /\ audits' = (IF open THEN audits \cup {[key |-> Head(queue), tx |-> record[Head(queue)], saved |-> FALSE]}
                  ELSE audits)
    /\ UNCHANGED <<codedb, node, loop, reload, made, calls, missed>>

Stop ==
    /\ loop = "running" /\ ~open /\ loop' = "stopped"
    /\ UNCHANGED <<codedb, node, reload, made, queue, calls, audits, missed>>

\* The result is stored, then the number of the task, in whatever order the
\* goroutines come.  A transaction chaindb does not know yet ends its task.
Finding(t) == IF t \in Honest THEN "passed" ELSE "failed"
SaveStatus(a) ==
    /\ ~a.saved
    /\ \/ /\ a.tx \notin chain /\ audits' = audits \ {a} /\ missed' = missed \cup {a.tx} /\ UNCHANGED status
       \/ /\ a.tx \in chain /\ open
          /\ status' = [status EXCEPT ![FinalOf[a.tx]] = Finding(a.tx)]
          /\ audits' = (audits \ {a}) \cup {[a EXCEPT !.saved = TRUE]} /\ UNCHANGED missed
    /\ UNCHANGED <<num, pre, record, node, daemon, calls>>

SavePre(a) ==
    /\ a.saved /\ open
    /\ pre' = a.key /\ audits' = audits \ {a}
    /\ UNCHANGED <<num, record, status, node, daemon, calls, missed>>

auditLoop == MakeQueue \/ Reload \/ Dispatch \/ Stop
processAuditTask(a) == SaveStatus(a) \/ SavePre(a)

-----------------------------------------------------------------------------
(* The node.                                                                 *)

Include(t) ==
    /\ t \notin chain /\ chain' = chain \cup {t}
    /\ UNCHANGED <<codedb, synchronis, life, open, daemon, calls, audits, missed>>

Synchronised ==
    /\ synchronis /\ synchronis' = FALSE
    /\ UNCHANGED <<codedb, chain, life, open, daemon, calls, audits, missed>>

Shutdown ==
    /\ open /\ open' = FALSE
    /\ UNCHANGED <<codedb, chain, synchronis, life, daemon, calls, audits, missed>>

\* The process ends, by itself, by being killed, or because a goroutine could
\* not write to codedb and panicked; the next one begins with what is stored.
\* A call that had not returned may be made again.
Crash ==
    /\ life < MaxLives
    /\ life' = life + 1 /\ open' = TRUE
    /\ loop' = "starting" /\ reload' = NotRead /\ made' = FALSE /\ queue' = <<>>
    /\ dblock' = NoTx /\ audits' = {}
    /\ call' = [t \in Tx |-> IF call[t] \in {"returned", "skipped"} THEN call[t] ELSE "none"]
    /\ UNCHANGED <<codedb, chain, synchronis, key, missed>>

Next ==
    \/ \E t \in Tx : GenAuditTask(t) \/ Include(t)
    \/ auditLoop
    \/ \E a \in audits : processAuditTask(a)
    \/ Synchronised \/ Shutdown \/ Crash

\* The Go scheduler runs every goroutine that can run; nothing is assumed of
\* the node.
AuditOf(k) == \E a \in audits : a.key = k /\ processAuditTask(a)
Spec ==
    /\ Init /\ [][Next]_vars /\ WF_vars(auditLoop)
    /\ \A t \in Tx : WF_vars(Direct(t) \/ Store(t) \/ Count(t) \/ Send(t)) /\ SF_vars(Number(t))
    /\ \A k \in Keys : WF_vars(AuditOf(k))

-----------------------------------------------------------------------------
\* Every variable has its type, the queue does not exceed its capacity, and no
\* task has a number of 0, which Reload skips.
TypeOK ==
    /\ num \in 0 .. Cardinality(Keys) /\ pre \in 0 .. num
    /\ record \in [Keys -> Tx \cup {NoTx}] /\ status \in [Final -> {"none", "failed", "passed"}]
    /\ chain \subseteq Tx /\ synchronis \in BOOLEAN /\ life \in 1 .. MaxLives /\ open \in BOOLEAN
    /\ loop \in {"starting", "reloading", "running", "stopped"} /\ made \in BOOLEAN
    /\ reload \in [pre : 0 .. num, i : 0 .. num, num : 0 .. num] /\ Room >= 0 /\ \A i \in DOMAIN queue : queue[i] \in Keys
    /\ dblock \in Tx \cup {NoTx}
    /\ \A t \in Tx : call[t] \in {"numbered", "stored", "counted", "blocked", "returned"} => key[t] \in Keys

\* A task whose call has returned is in codedb under its own number, whatever
\* other calls, crashes and audits come after (ewasm_linker.go:463-487).
AcknowledgedIsStored ==
    \A t \in Tx : call[t] = "returned" => key[t] <= num /\ record[key[t]] = t

\* What becomes of a task whose call has returned: there is a result, its
\* transaction was not known, or it will be audited in this life of the
\* process - unless it was left out of the queue the life began with, as the
\* last task so far, or because a later one had been audited before it
\* (ewasm_linker.go:407, 418-427).
Judged(t) == status[FinalOf[t]] # "none"
Begins == IF loop = "starting" THEN Saved ELSE reload
LeftOut(k) == k < Begins.pre \/ k = Begins.num
Pending(k) ==
    \/ \E i \in DOMAIN queue : queue[i] = k
    \/ \E a \in audits : a.key = k
    \/ loop \in {"starting", "reloading"} /\ k \in Unfinished(Begins)
NothingElseLost ==
    open => \A t \in Tx : call[t] = "returned" =>
        Judged(t) \/ t \in missed \/ LeftOut(key[t]) \/ Pending(key[t])

\* A call that finds the channel made, and a task the loop reloads, end with a
\* result, if the transaction is known and the process does not end first.
Ready(t) ==
    /\ t \in chain /\ open
    /\ \/ call[t] = "waiting" /\ made /\ \A u \in Tx : call[u] # "blocked"
       \/ loop = "starting" /\ \E k \in Unfinished(Saved) : record[k] = t
Audited == \A t \in Tx, l \in 1 .. MaxLives : (life = l /\ Ready(t)) ~> (Judged(t) \/ life # l \/ ~open)
=============================================================================
