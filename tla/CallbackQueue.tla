---------------------------- MODULE CallbackQueue ----------------------------
(***************************************************************************)
(* The queue through which validation tells the wallet, ZMQ and the        *)
(* masternode code what happened: SingleThreadedSchedulerClient on top of  *)
(* CScheduler, SyncWithValidationInterfaceQueue, and the shutdown that     *)
(* stops the scheduler's threads and drains the queue on the main thread.  *)
(*                                                                         *)
(* A step is one critical section of newTaskMutex or m_cs_callbacks_pending *)
(* or one stretch of code between two of them.  All tasks are ProcessQueue *)
(* and due at once, so taskQueue is their number.                          *)
(***************************************************************************)
EXTENDS Naturals, Sequences, Functions

CONSTANTS Service,       \* threads running CScheduler::serviceQueue
          Client,        \* threads that add callbacks (message handler, RPC)
          Main,          \* the thread that shuts the node down
          MaxCallbacks,  \* bound on the callbacks added
          MaxSpurious    \* bound on spurious wake-ups

Thread == Service \cup Client \cup {Main}
Nil == 0

ASSUME ThreadsDistinct ==
  Service # {} /\ Service \cap Client = {} /\ Main \notin Service \cup Client
ASSUME BoundsAssumption == MaxCallbacks \in Nat /\ MaxSpurious \in Nat

VARIABLES
  taskQueue,    \* number of ProcessQueue tasks in CScheduler::taskQueue
  pending,      \* m_callbacks_pending
  running,      \* m_are_callbacks_running
  pc,           \* where each thread is
  callback,     \* the callback a thread executes
  promise,      \* the callback a client waits for in SyncWithValidationInterfaceQueue
  count,        \* number of callbacks added so far: the n-th one is n
  synced,       \* the callbacks a client's last SyncWithValidationInterfaceQueue covers
  spurious      \* spurious wake-ups so far

callbackVars == <<taskQueue, pending, running, pc, callback, promise, count, synced,
                  spurious>>

CallbackInit ==
  /\ taskQueue = 0 /\ pending = <<>> /\ running = FALSE
  /\ pc = [t \in Thread |-> CASE t \in Service -> "service" [] t \in Client -> "idle"
                              [] t = Main -> "up"]
  /\ callback = [t \in Thread |-> Nil]
  /\ promise = [t \in Thread |-> Nil]
  /\ synced = [t \in Thread |-> 0]
  /\ count = 0 /\ spurious = 0

Goto(t, l) == pc' = [pc EXCEPT ![t] = l]

\* Where a thread goes on when AddToProcessQueue or ProcessQueue returns.
Returned(t) == CASE t \in Service -> "service"
                 [] t \in Client -> IF promise[t] = Nil THEN "idle" ELSE "sync"
                 [] t = Main -> "drain"
-----------------------------------------------------------------------------
(* Adding callbacks.                                                        *)

\* The critical section of AddToProcessQueue.
Push ==
  /\ count' = count + 1
  /\ pending' = Append(pending, count + 1)

\* GetMainSignals().BlockConnected(...) and the like.
AddToProcessQueue(t) ==
  /\ t \in Client /\ pc[t] = "idle" /\ pc[Main] = "up" /\ count < MaxCallbacks
  /\ Push /\ Goto(t, "maybe")
  /\ UNCHANGED <<taskQueue, running, callback, promise, synced, spurious>>

\* A callback has been executed, once it is no longer pending nor being executed.
Executed(c) == c \notin Range(pending) /\ \A t \in Thread : callback[t] # c

\* SyncWithValidationInterfaceQueue returns at once when nothing is pending.
SyncNothing(t) ==
  /\ t \in Client /\ pc[t] = "idle" /\ pc[Main] = "up"
  /\ pending = <<>>
  /\ synced' = [synced EXCEPT ![t] = count]
  /\ UNCHANGED <<taskQueue, pending, running, pc, callback, promise, count, spurious>>

\* Otherwise it goes on ...
SyncBegin(t) ==
  /\ t \in Client /\ pc[t] = "idle" /\ pc[Main] = "up" /\ count < MaxCallbacks
  /\ pending # <<>>
  /\ Goto(t, "syncAdd")
  /\ UNCHANGED <<taskQueue, pending, running, callback, promise, count, synced, spurious>>

\* ... to add a callback that fulfils its promise ...
SyncAdd(t) ==
  /\ pc[t] = "syncAdd"
  /\ Push /\ Goto(t, "maybe")
  /\ promise' = [promise EXCEPT ![t] = count + 1]
  /\ UNCHANGED <<taskQueue, running, callback, synced, spurious>>

\* The wait, when the promise is fulfilled as soon as the callback is taken.
SyncReturnEarly(t) ==
  /\ pc[t] = "sync"
  /\ Goto(t, "idle")
  /\ synced' = [synced EXCEPT ![t] = promise[t]]
  /\ promise' = [promise EXCEPT ![t] = Nil]
  /\ UNCHANGED <<taskQueue, pending, running, callback, count, spurious>>

\* ... and to wait for it.
SyncReturn(t) ==
  /\ pc[t] = "sync" /\ Executed(promise[t])
  /\ Goto(t, "idle")
  /\ synced' = [synced EXCEPT ![t] = promise[t]]
  /\ promise' = [promise EXCEPT ![t] = Nil]
  /\ UNCHANGED <<taskQueue, pending, running, callback, count, spurious>>

\* The critical section of MaybeScheduleProcessQueue.
MaybeScheduleProcessQueue(t) ==
  /\ pc[t] = "maybe"
  /\ Goto(t, IF running \/ pending = <<>> THEN Returned(t) ELSE "schedule")
  /\ UNCHANGED <<taskQueue, pending, running, callback, promise, count, synced, spurious>>

\* The critical section of CScheduler::schedule.
Schedule(t) ==
  /\ pc[t] = "schedule"
  /\ taskQueue' = taskQueue + 1
  /\ Goto(t, "notify")
  /\ UNCHANGED <<pending, running, callback, promise, count, synced, spurious>>

\* newTaskScheduled.notify_one(), outside the lock.
NotifyOne(t) ==
  /\ pc[t] = "notify"
  /\ LET asleep == {s \in Service : pc[s] = "wait"}
     IN IF asleep = {} THEN Goto(t, Returned(t))
        ELSE \E s \in asleep : pc' = [pc EXCEPT ![t] = Returned(t), ![s] = "service"]
  /\ UNCHANGED <<taskQueue, pending, running, callback, promise, count, synced, spurious>>
-----------------------------------------------------------------------------
(* The scheduler's threads.                                                 *)

Interrupted == pc[Main] # "up"

\* serviceQueue takes the first task; its waits are interruption points.
ServiceTake(t) ==
  /\ t \in Service /\ pc[t] = "service" /\ ~Interrupted
  /\ taskQueue > 0 /\ taskQueue' = taskQueue - 1
  /\ Goto(t, "process")
  /\ UNCHANGED <<pending, running, callback, promise, count, synced, spurious>>

\* serviceQueue finds no task and waits.
ServiceWait(t) ==
  /\ t \in Service /\ pc[t] = "service" /\ ~Interrupted
  /\ taskQueue = 0
  /\ Goto(t, "wait")
  /\ UNCHANGED <<taskQueue, pending, running, callback, promise, count, synced, spurious>>

SpuriousWakeup(t) ==
  /\ pc[t] = "wait" /\ spurious < MaxSpurious
  /\ Goto(t, "service") /\ spurious' = spurious + 1
  /\ UNCHANGED <<taskQueue, pending, running, callback, promise, count, synced>>

\* boost::thread_interrupted leaves serviceQueue.
ServiceExit(t) ==
  /\ t \in Service /\ pc[t] \in {"service", "wait"} /\ Interrupted
  /\ Goto(t, "exited")
  /\ UNCHANGED <<taskQueue, pending, running, callback, promise, count, synced, spurious>>
-----------------------------------------------------------------------------
(* ProcessQueue.                                                            *)

\* The critical section of ProcessQueue without the test for callbacks that run.
TakeAnyway(t) ==
  /\ pc[t] = "process"
  /\ IF pending = <<>>
     THEN Goto(t, Returned(t)) /\ UNCHANGED <<running, callback, pending>>
     ELSE /\ running' = TRUE /\ pending' = Tail(pending)
          /\ callback' = [callback EXCEPT ![t] = Head(pending)]
          /\ Goto(t, "run")
  /\ UNCHANGED <<taskQueue, promise, count, synced, spurious>>

\* The critical section of ProcessQueue.
TakeCallback(t) ==
  /\ pc[t] = "process"
  /\ IF running \/ pending = <<>>
     THEN Goto(t, Returned(t)) /\ UNCHANGED <<running, callback, pending>>
     ELSE /\ running' = TRUE /\ pending' = Tail(pending)
          /\ callback' = [callback EXCEPT ![t] = Head(pending)]
          /\ Goto(t, "run")
  /\ UNCHANGED <<taskQueue, promise, count, synced, spurious>>

\* The callback adds another one, as a wallet that commits a transaction does; its
\* MaybeScheduleProcessQueue returns at once, since m_are_callbacks_running is set.
CallbackAdds(t) ==
  /\ pc[t] = "run" /\ count < MaxCallbacks /\ Push
  /\ UNCHANGED <<taskQueue, running, pc, callback, promise, synced, spurious>>

CallbackReturns(t) ==
  /\ pc[t] = "run"
  /\ callback' = [callback EXCEPT ![t] = Nil]
  /\ Goto(t, "done")
  /\ UNCHANGED <<taskQueue, pending, running, promise, count, synced, spurious>>

\* The destructor of RAIICallbacksRunning, with and without its second half.
ResetOnly(t) ==
  /\ pc[t] = "done" /\ running' = FALSE
  /\ Goto(t, Returned(t))
  /\ UNCHANGED <<taskQueue, pending, callback, promise, count, synced, spurious>>

ResetRunning(t) ==
  /\ pc[t] = "done" /\ running' = FALSE
  /\ Goto(t, "maybe")
  /\ UNCHANGED <<taskQueue, pending, callback, promise, count, synced, spurious>>
-----------------------------------------------------------------------------
(* Shutdown.                                                                *)

\* threadGroup.interrupt_all(), after the RPC and network threads have been joined.
InterruptAll ==
  /\ pc[Main] = "up" /\ \A t \in Client : pc[t] = "idle"
  /\ Goto(Main, "join")
  /\ UNCHANGED <<taskQueue, pending, running, callback, promise, count, synced, spurious>>

\* threadGroup.join_all().  FlushStateToDisk may then announce SetBestChain.
JoinAll ==
  /\ pc[Main] = "join" /\ \A t \in Service : pc[t] = "exited"
  /\ \/ Push /\ Goto(Main, "maybe")
     \/ Goto(Main, "drain") /\ UNCHANGED <<pending, count>>
  /\ UNCHANGED <<taskQueue, running, callback, promise, synced, spurious>>

\* A shutdown that leaves EmptyQueue out.
EmptyQueueSkipped ==
  /\ pc[Main] = "drain"
  /\ Goto(Main, "down")
  /\ UNCHANGED <<taskQueue, pending, running, callback, promise, count, synced, spurious>>

\* The loop of EmptyQueue; its assertion holds, every thread has been joined.
EmptyQueue ==
  /\ pc[Main] = "drain"
  /\ Goto(Main, IF pending = <<>> THEN "down" ELSE "process")
  /\ UNCHANGED <<taskQueue, pending, running, callback, promise, count, synced, spurious>>
-----------------------------------------------------------------------------
\* The steps a thread takes by itself once it is running.
CallbackStep(t) ==
  \/ SyncAdd(t) \/ SyncReturn(t)
  \/ MaybeScheduleProcessQueue(t) \/ Schedule(t) \/ NotifyOne(t)
  \/ ServiceTake(t) \/ ServiceWait(t) \/ ServiceExit(t)
  \/ TakeCallback(t) \/ CallbackReturns(t) \/ ResetRunning(t)
  \/ t = Main /\ (JoinAll \/ EmptyQueue)

CallbackNext ==
  \/ \E t \in Thread : \/ CallbackStep(t) \/ CallbackAdds(t)
                       \/ AddToProcessQueue(t) \/ SyncNothing(t) \/ SyncBegin(t)
                       \/ SpuriousWakeup(t)
  \/ InterruptAll

CallbackSpec == CallbackInit /\ [][CallbackNext]_callbackVars
-----------------------------------------------------------------------------
CallbackTypeOK ==
  /\ taskQueue \in Nat /\ pending \in Seq(Nat) /\ running \in BOOLEAN
  /\ pc \in [Thread -> {"service", "wait", "exited", "idle", "syncAdd", "sync", "maybe",
                        "schedule", "notify", "process", "run", "done", "up", "join",
                        "drain", "down"}]
  /\ callback \in [Thread -> Nat] /\ promise \in [Thread -> Nat]
  /\ count \in Nat /\ synced \in [Thread -> Nat] /\ spurious \in Nat

\* "No two jobs will be executed at the same time", in the order in which they were
\* added: the scheduler client implements a serial executor however many threads
\* service the scheduler (scheduler.h, class SingleThreadedSchedulerClient).
Executor == INSTANCE SerialExecutor WITH
              submitted <- count, waiting <- pending,
              executing <- {callback[t] : t \in Thread} \ {Nil}

CallbacksSerial == Executor!Spec

\* No callback and no wake-up is lost: while callbacks are pending and none runs,
\* ProcessQueue is scheduled, or a thread is about to schedule or to call it, or the main
\* thread will drain the queue; and while the scheduler has a task, a thread is awake or
\* about to be notified.
CallbackNotForgotten ==
  /\ pending # <<>> =>
       \/ running \/ taskQueue > 0
       \/ \E t \in Thread : pc[t] \in {"maybe", "schedule", "process"}
       \/ pc[Main] \in {"join", "drain"}
  /\ taskQueue > 0 /\ ~Interrupted =>
       \/ \E t \in Service : pc[t] # "wait"
       \/ \E t \in Thread : pc[t] = "notify"

\* When SyncWithValidationInterfaceQueue returns, no callback added before the call
\* waits any more; only one that had already started may still be running.
SyncLeavesNothingPending ==
  \A t \in Client : \A c \in 1 .. synced[t] : c \notin Range(pending)

\* Every callback is eventually executed, by the scheduler's threads or by the main
\* thread at shutdown; so SyncWithValidationInterfaceQueue returns.
CallbacksExecuted ==
  /\ \A c \in 1 .. MaxCallbacks : (count >= c) ~> Executed(c)
  /\ \A t \in Client : (pc[t] = "syncAdd") ~> (pc[t] = "idle")
=============================================================================
