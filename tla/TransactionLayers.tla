-------------------------- MODULE TransactionLayers --------------------------
(***************************************************************************)
(* What CEvoDB promises: four plain maps.  `durable' survives a crash,     *)
(* `pending' is what the disk will hold once the flush in progress, or the *)
(* retry of the one that failed, is done, `committed' is `durable' with    *)
(* the keys changed by the block transactions committed since the last     *)
(* flush began, `working' adds the transaction in progress and is what     *)
(* every Read returns.  `process' tells one run of the process from the    *)
(* next.                                                                   *)
(***************************************************************************)
CONSTANTS Key, Value, NoValue

VARIABLES durable, pending, committed, working,
          changed, changing,   \* keys of the committed and of the open transactions
          process

vars == <<durable, pending, committed, working, changed, changing, process>>

Init ==
  /\ durable \in [Key -> Value \cup {NoValue}]
  /\ pending = durable /\ committed = durable /\ working = durable
  /\ changed = {} /\ changing = {} /\ process = 0

Put(k, v) ==
  /\ working' = [working EXCEPT ![k] = v] /\ changing' = changing \cup {k}
  /\ UNCHANGED <<durable, pending, committed, changed, process>>

Commit ==
  /\ committed' = working /\ changed' = changed \cup changing /\ changing' = {}
  /\ UNCHANGED <<durable, pending, working, process>>

Rollback ==
  /\ working' = committed /\ changing' = {}
  /\ UNCHANGED <<durable, pending, committed, changed, process>>

\* A flush begins, with no transaction in progress.  It takes every key changed
\* since the last one began, and keeps what a failed one left for the others.
\* Until it ends, readers see what is durable.
Begin ==
  /\ changing = {}
  /\ pending' = [k \in Key |-> IF k \in changed THEN committed[k] ELSE pending[k]]
  /\ committed' = durable /\ working' = durable /\ changed' = {}
  /\ UNCHANGED <<durable, changing, process>>

\* The flush ends: all of it is durable, and visible, at once.
Persist ==
  /\ changed = {} /\ changing = {}
  /\ durable' = pending /\ committed' = pending /\ working' = pending
  /\ UNCHANGED <<pending, changed, changing, process>>

\* The process ends; everything that was not made durable is gone.
Crash ==
  /\ pending' = durable /\ committed' = durable /\ working' = durable
  /\ changed' = {} /\ changing' = {}
  /\ process' \in {0, 1} \ {process} /\ UNCHANGED durable

Next ==
  \/ \E k \in Key, v \in Value \cup {NoValue} : Put(k, v)
  \/ Commit \/ Rollback \/ Begin \/ Persist \/ Crash

Spec == Init /\ [][Next]_vars
=============================================================================
