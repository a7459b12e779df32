---------------------------- MODULE MCNodeThreads ----------------------------
(***************************************************************************)
(* The node's two thread pools, which share no state: the scheduler that   *)
(* delivers validation callbacks and the script check queue.  Each         *)
(* behaviour exercises one of them.                                        *)
(***************************************************************************)
EXTENDS CallbackQueue, CheckQueue

VARIABLE focus    \* the pool this behaviour exercises

threadVars == <<callbackVars, checkVars, focus>>

ThreadsInit == CallbackInit /\ CheckInit /\ focus \in {"callbacks", "checks"}

CallbacksMove(A) == focus = "callbacks" /\ A /\ UNCHANGED <<checkVars, focus>>
ChecksMove(A) == focus = "checks" /\ A /\ UNCHANGED <<callbackVars, focus>>

ThreadsNext == CallbacksMove(CallbackNext) \/ ChecksMove(CheckNext)

\* The operating system runs every thread that can go on, also one that was notified; a
\* CCheckQueueControl does not go out of scope without Wait.  Nothing wakes a thread that
\* is not notified, and nobody has to add callbacks or blocks or to stop the node.
ThreadsFairness ==
  /\ \A t \in Thread : WF_threadVars(CallbacksMove(CallbackStep(t)))
  /\ \A t \in Checker : WF_threadVars(ChecksMove(CheckStep(t)))
  /\ WF_threadVars(ChecksMove(Wait))

ThreadsSpec == ThreadsInit /\ [][ThreadsNext]_threadVars /\ ThreadsFairness
=============================================================================
