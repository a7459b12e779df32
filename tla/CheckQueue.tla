----------------------------- MODULE CheckQueue -----------------------------
(***************************************************************************)
(* The script verification queue: the thread that connects a block (the    *)
(* master) adds the block's checks, the workers take batches of them, and  *)
(* the master joins in until every check is done.                          *)
(*                                                                         *)
(* A step is one critical section of the queue's mutex or the work between *)
(* two of them.  The queue is a set: "the order of booleans doesn't        *)
(* matter".                                                                *)
(***************************************************************************)
EXTENDS Integers, FiniteSets

CONSTANTS Worker,      \* threads running ThreadScriptCheck
          Master,      \* the thread that connects blocks
          Check,       \* the checks of a block
          Bad,         \* the checks that fail
          nBatchSize

Checker == Worker \cup {Master}

ASSUME CheckerAssumption == IsFiniteSet(Worker) /\ Master \notin Worker
ASSUME CheckAssumption == IsFiniteSet(Check) /\ Bad \subseteq Check
ASSUME BatchAssumption == nBatchSize \in Nat \ {0}

VARIABLES
  queue,     \* the checks nobody has taken
  nIdle, nTotal, fAllOk, nTodo,
  at,        \* where each thread is
  batch,     \* vChecks of each thread; nNow is its size
  fOk,       \* fOk of each thread
  added,     \* the checks added for the current block
  verdict    \* what the last Wait returned

checkVars == <<queue, nIdle, nTotal, fAllOk, nTodo, at, batch, fOk, added, verdict>>

CheckInit ==
  /\ queue = {} /\ nIdle = 0 /\ nTotal = 0 /\ fAllOk = TRUE /\ nTodo = 0
  /\ at = [t \in Checker |-> IF t = Master THEN "free" ELSE "enter"]
  /\ batch = [t \in Checker |-> {}]
  /\ fOk = [t \in Checker |-> TRUE]
  /\ added = {} /\ verdict = TRUE
-----------------------------------------------------------------------------
Min2(a, b) == IF a <= b THEN a ELSE b
Max2(a, b) == IF a >= b THEN a ELSE b

\* How many checks a thread takes.
NumNow(total, idle) ==
  Max2(1, Min2(nBatchSize, Cardinality(queue) \div (total + idle + 1)))

\* A thread takes a batch.
Take(t, ok, todo, total, idle, pcs) ==
  /\ queue # {}
  /\ \E b \in SUBSET queue :
       /\ Cardinality(b) = NumNow(total, idle)
       /\ queue' = queue \ b
       /\ batch' = [batch EXCEPT ![t] = b]
  /\ fOk' = [fOk EXCEPT ![t] = ok]
  /\ at' = [pcs EXCEPT ![t] = "work"]
  /\ fAllOk' = ok /\ nTodo' = todo /\ nTotal' = total /\ nIdle' = idle
  /\ UNCHANGED verdict

\* Every check is done: the master leaves with the result and resets it.
Leave(t, ok, todo, total, idle, pcs) ==
  /\ queue = {} /\ t = Master /\ todo = 0
  /\ verdict' = ok /\ fAllOk' = TRUE /\ nTotal' = total - 1
  /\ nTodo' = todo /\ nIdle' = idle
  /\ at' = [pcs EXCEPT ![t] = "free"]
  /\ batch' = [batch EXCEPT ![t] = {}]
  /\ UNCHANGED <<queue, fOk>>

\* There is nothing to take: the thread waits on its condition variable.
Sleep(t, ok, todo, total, idle, pcs) ==
  /\ queue = {} /\ ~(t = Master /\ todo = 0)
  /\ nIdle' = idle + 1
  /\ at' = [pcs EXCEPT ![t] = "asleep"]
  /\ batch' = [batch EXCEPT ![t] = {}]
  /\ fAllOk' = ok /\ nTodo' = todo /\ nTotal' = total
  /\ UNCHANGED <<queue, fOk, verdict>>

\* "logically, the do loop starts here"
LoopStart(t, ok, todo, total, idle, pcs) ==
  /\ \/ Take(t, ok, todo, total, idle, pcs)
     \/ Leave(t, ok, todo, total, idle, pcs)
     \/ Sleep(t, ok, todo, total, idle, pcs)
  /\ UNCHANGED added

\* A thread enters Loop.
EnterLoop(t) ==
  /\ at[t] = "enter"
  /\ LoopStart(t, fAllOk, nTodo, nTotal + 1, nIdle, at)

\* The clean-up after a batch: its result and its size are recorded, and a worker that
\* finished the last check notifies the master.
CleanUpKeepsResult(t) ==
  /\ at[t] = "cleanup"
  /\ LET todo == nTodo - Cardinality(batch[t])
         pcs == IF todo = 0 /\ t # Master /\ at[Master] = "asleep"
                THEN [at EXCEPT ![Master] = "awake"] ELSE at
     IN LoopStart(t, fOk[t], todo, nTotal, nIdle, pcs)

CleanUpTellsNobody(t) ==
  /\ at[t] = "cleanup"
  /\ LoopStart(t, fAllOk /\ fOk[t], nTodo - Cardinality(batch[t]), nTotal, nIdle, at)

CleanUp(t) ==
  /\ at[t] = "cleanup"
  /\ LET todo == nTodo - Cardinality(batch[t])
         pcs == IF todo = 0 /\ t # Master /\ at[Master] = "asleep"
                THEN [at EXCEPT ![Master] = "awake"] ELSE at
     IN LoopStart(t, fAllOk /\ fOk[t], todo, nTotal, nIdle, pcs)

\* cond.wait returns.
WakeStillIdle(t) ==
  /\ at[t] = "awake"
  /\ LoopStart(t, fAllOk, nTodo, nTotal, nIdle, at)

WakeUp(t) ==
  /\ at[t] = "awake"
  /\ LoopStart(t, fAllOk, nTodo, nTotal, nIdle - 1, at)

\* The checks of the batch are executed, up to the first failure, outside the lock.
Execute(t) ==
  /\ at[t] = "work"
  /\ fOk' = [fOk EXCEPT ![t] = fOk[t] /\ batch[t] \cap Bad = {}]
  /\ at' = [at EXCEPT ![t] = "cleanup"]
  /\ UNCHANGED <<queue, nIdle, nTotal, fAllOk, nTodo, batch, added, verdict>>

\* condWorker and condMaster may wake a thread for no reason.
WakeSpuriously(t) ==
  /\ at[t] = "asleep"
  /\ at' = [at EXCEPT ![t] = "awake"]
  /\ UNCHANGED <<queue, nIdle, nTotal, fAllOk, nTodo, batch, fOk, added, verdict>>

\* The shutdown interrupts a waiting worker, which leaves the counters as they are.
InterruptWorker(t) ==
  /\ t \in Worker /\ at[t] = "asleep"
  /\ at' = [at EXCEPT ![t] = "exited"]
  /\ UNCHANGED <<queue, nIdle, nTotal, fAllOk, nTodo, batch, fOk, added, verdict>>
-----------------------------------------------------------------------------
\* ConnectBlock creates a CCheckQueueControl.
Begin ==
  /\ at[Master] = "free"
  /\ at' = [at EXCEPT ![Master] = "adding"]
  /\ added' = {}
  /\ UNCHANGED <<queue, nIdle, nTotal, fAllOk, nTodo, batch, fOk, verdict>>

\* control.Add(vChecks), for a transaction of the block.
Add ==
  /\ at[Master] = "adding"
  /\ \E cs \in SUBSET (Check \ added) :
       /\ cs # {}
       /\ queue' = queue \cup cs /\ added' = added \cup cs
       /\ nTodo' = nTodo + Cardinality(cs)
       /\ LET asleep == {w \in Worker : at[w] = "asleep"}
          IN \/ asleep = {} /\ at' = at
             \/ /\ Cardinality(cs) = 1
                /\ \E w \in asleep : at' = [at EXCEPT ![w] = "awake"]
             \/ /\ Cardinality(cs) > 1 /\ asleep # {}
                /\ at' = [t \in Checker |-> IF t \in asleep THEN "awake" ELSE at[t]]
  /\ UNCHANGED <<nIdle, nTotal, fAllOk, batch, fOk, verdict>>

\* control.Wait(), or the destructor of the control when ConnectBlock fails before.
Wait ==
  /\ at[Master] = "adding"
  /\ at' = [at EXCEPT ![Master] = "enter"]
  /\ UNCHANGED <<queue, nIdle, nTotal, fAllOk, nTodo, batch, fOk, added, verdict>>

CheckStep(t) == EnterLoop(t) \/ CleanUp(t) \/ WakeUp(t) \/ Execute(t)

CheckNext ==
  \/ \E t \in Checker : CheckStep(t) \/ WakeSpuriously(t) \/ InterruptWorker(t)
  \/ Begin \/ Add \/ Wait

CheckSpec == CheckInit /\ [][CheckNext]_checkVars
-----------------------------------------------------------------------------
CheckTypeOK ==
  /\ queue \in SUBSET Check /\ added \in SUBSET Check
  /\ nIdle \in Nat /\ nTotal \in Nat /\ nTodo \in Nat
  /\ fAllOk \in BOOLEAN /\ verdict \in BOOLEAN
  /\ at \in [Checker -> {"free", "adding", "enter", "work", "cleanup", "asleep", "awake",
                         "exited"}]
  /\ batch \in [Checker -> SUBSET Check] /\ fOk \in [Checker -> BOOLEAN]

\* Wait returns whether every check added for the block succeeded, whichever threads
\* executed them and in whatever order their results were recorded.
VerdictRight == at[Master] = "free" => (verdict <=> added \cap Bad = {})

\* The assertion of CCheckQueueControl: between two blocks the queue is idle, although
\* workers may just have been notified or may be starting.
IdleBetweenBlocks == at[Master] = "free" => nTotal = nIdle /\ nTodo = 0 /\ fAllOk

\* The block's thread does not wait for ever.
WaitReturns == (at[Master] = "enter") ~> (at[Master] = "free")
=============================================================================
