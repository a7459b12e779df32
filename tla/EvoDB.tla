-------------------------------- MODULE EvoDB --------------------------------
(***************************************************************************)
(* CEvoDB (evo/evodb.h, evo/evodb.cpp) over CDBTransaction (dbwrapper.h):  *)
(* the masternode database.  A block's writes collect in curDBTransaction  *)
(* and move to rootDBTransaction when its CEvoDBScopedCommitter commits;   *)
(* FlushStateToDisk moves the root transaction to disk through rootBatch.  *)
(* Reads, writes and block commits hold CEvoDB::cs, so each is one step.   *)
(* CommitRootTransaction does not: cs_main keeps the writers out while it  *)
(* runs, but a reader may come between its two steps, when the root        *)
(* transaction is empty and the batch is not on disk yet.                  *)
(***************************************************************************)
EXTENDS Integers, FiniteSets, Functions

CONSTANTS
  Key, Value,          \* serialized keys and values
  NoValue,             \* the key is absent
  KeySize, ValueSize   \* serialized sizes, what memoryUsage counts

ASSUME EvoAssumption ==
  /\ NoValue \notin Value
  /\ IsFiniteSet(Key)   \* a short prefix, or a prefix and a block hash
  /\ KeySize \in [Key -> Nat] /\ ValueSize \in [Value -> Nat]

VARIABLES
  db,           \* the database on disk
  rootBatch,    \* the batch that carries the root transaction to disk
  root, cur,    \* rootDBTransaction, curDBTransaction
  scope,        \* the CEvoDBScopedCommitter: "none", "open" or "done"
  flushing,     \* CommitRootTransaction is between Commit and WriteBatch
  process       \* changes when the process is replaced by another one

vars == <<db, rootBatch, root, cur, scope, flushing, process>>

-----------------------------------------------------------------------------
(* CDBTransaction *)

NewTransaction == [writes |-> [k \in Key |-> NoValue], deletes |-> {}, memoryUsage |-> 0]

WriteUsage(t, k) == IF t.writes[k] = NoValue THEN 0 ELSE KeySize[k] + ValueSize[t.writes[k]]

\* Mutant: taking the key out of the deletes is not accounted for.
WriteForgetsDelete(t, k, v) ==
  [writes |-> [t.writes EXCEPT ![k] = v], deletes |-> t.deletes \ {k},
   memoryUsage |-> t.memoryUsage - WriteUsage(t, k) + KeySize[k] + ValueSize[v]]

Write(t, k, v) ==
  [writes |-> [t.writes EXCEPT ![k] = v],
   deletes |-> t.deletes \ {k},
   memoryUsage |-> t.memoryUsage - (IF k \in t.deletes THEN KeySize[k] ELSE 0)
                   - WriteUsage(t, k) + KeySize[k] + ValueSize[v]]

\* Mutant: the pending write stays beside the deletion.
EraseKeepsWrite(t, k) ==
  [t EXCEPT !.deletes = @ \cup {k},
            !.memoryUsage = @ + (IF k \in t.deletes THEN 0 ELSE KeySize[k])]

Erase(t, k) ==
  [writes |-> [t.writes EXCEPT ![k] = NoValue],
   deletes |-> t.deletes \cup {k},
   memoryUsage |-> t.memoryUsage - WriteUsage(t, k)
                   + (IF k \in t.deletes THEN 0 ELSE KeySize[k])]

\* got is what parent.Read returned.
Read(t, k, got) ==
  IF k \in t.deletes THEN NoValue
  ELSE IF t.writes[k] # NoValue THEN t.writes[k] ELSE got

\* The keys a transaction writes or erases.
Keys(t) == t.deletes \cup {k \in Key : t.writes[k] # NoValue}

IsClean(t) == t.deletes = {} /\ \A k \in Key : t.writes[k] = NoValue

\* Commit: the erasures, then the writes, key by key.
CommitKey(t, target, k) ==
  IF t.writes[k] # NoValue THEN Write(target, k, t.writes[k])
  ELSE IF k \in t.deletes THEN Erase(target, k) ELSE target

Commit(t, target) ==
  [writes |-> [k \in Key |-> CommitKey(t, target, k).writes[k]],
   deletes |-> {k \in Key : k \in CommitKey(t, target, k).deletes},
   memoryUsage |-> target.memoryUsage +
     SumFunction([k \in Key |-> CommitKey(t, target, k).memoryUsage - target.memoryUsage])]

\* A CDBBatch is the same list of writes and erasures without the accounting.
ToBatch(t, batch) == [Commit(t, batch) EXCEPT !.memoryUsage = 0]

Through(t, m) == [k \in Key |-> Read(t, k, m[k])]

-----------------------------------------------------------------------------
(* CEvoDB *)

Init ==
  /\ db \in [Key -> Value \cup {NoValue}]
  /\ rootBatch = NewTransaction /\ root = NewTransaction /\ cur = NewTransaction
  /\ scope = "none" /\ flushing = FALSE /\ process = 0

\* What a Read returns: the batch is not consulted.
Shown == Through(cur, Through(root, db))

\* The callers of the five operations below hold cs_main, as does the flush.
DoWrite(k, v) ==
  ~flushing /\ cur' = Write(cur, k, v) /\ UNCHANGED <<db, rootBatch, root, scope, flushing, process>>

DoErase(k) ==
  ~flushing /\ cur' = Erase(cur, k) /\ UNCHANGED <<db, rootBatch, root, scope, flushing, process>>

BeginTransaction ==
  /\ ~flushing
  /\ scope = "none" /\ scope' = "open" /\ UNCHANGED <<db, rootBatch, root, cur, flushing, process>>

CommitCurTransaction ==
  /\ ~flushing
  /\ scope = "open" /\ scope' = "done"
  /\ root' = Commit(cur, root) /\ cur' = NewTransaction
  /\ UNCHANGED <<db, rootBatch, flushing, process>>

\* The committer's destructor: roll back unless it committed.
EndTransaction ==
  /\ ~flushing
  /\ scope # "none" /\ scope' = "none"
  /\ cur' = IF scope = "open" THEN NewTransaction ELSE cur
  /\ UNCHANGED <<db, rootBatch, root, flushing, process>>

\* The process dies, or the assertion that curDBTransaction is clean fails.
Crash ==
  /\ rootBatch' = NewTransaction /\ root' = NewTransaction /\ cur' = NewTransaction
  /\ scope' = "none" /\ flushing' = FALSE /\ process' \in {0, 1} \ {process} /\ UNCHANGED db

\* CommitRootTransaction up to WriteBatch: the root transaction goes into the
\* batch and is cleared.
CommitRootTransaction ==
  /\ ~flushing /\ flushing' = TRUE
  /\ IsClean(cur)
  /\ rootBatch' = ToBatch(root, rootBatch) /\ root' = NewTransaction
  /\ UNCHANGED <<db, cur, scope, process>>

WriteBatch ==
  /\ flushing /\ flushing' = FALSE
  /\ db' = Through(rootBatch, db) /\ rootBatch' = NewTransaction
  /\ UNCHANGED <<root, cur, scope, process>>

\* Mutant: the batch is cleared although it was not written.
WriteBatchFailsClears ==
  /\ flushing /\ flushing' = FALSE
  /\ rootBatch' = NewTransaction /\ UNCHANGED <<db, root, cur, scope, process>>

\* WriteBatch throws and the batch is not cleared; the next flush writes it.
WriteBatchFails ==
  /\ flushing /\ flushing' = FALSE
  /\ UNCHANGED <<db, rootBatch, root, cur, scope, process>>

Next ==
  \/ \E k \in Key : DoErase(k) \/ \E v \in Value : DoWrite(k, v)
  \/ BeginTransaction \/ CommitCurTransaction \/ EndTransaction
  \/ CommitRootTransaction \/ WriteBatch \/ WriteBatchFails \/ Crash

Spec == Init /\ [][Next]_vars
-----------------------------------------------------------------------------
IsTransaction(t) ==
  /\ t = [writes |-> t.writes, deletes |-> t.deletes, memoryUsage |-> t.memoryUsage]
  /\ t.writes \in [Key -> Value \cup {NoValue}] /\ t.deletes \in SUBSET Key

\* The database and the transactions hold values and NoValue only; a deletion never
\* reaches the database as a value.
TypeOK ==
  /\ db \in [Key -> Value \cup {NoValue}]
  /\ IsTransaction(rootBatch) /\ IsTransaction(root) /\ IsTransaction(cur)
  /\ scope \in {"none", "open", "done"} /\ flushing \in BOOLEAN /\ process \in {0, 1}

\* No key is both written and deleted in one transaction, through any sequence of
\* writes, erasures and commits: Read asks the deletes first and Commit writes
\* last, so for such a key a transaction and its own commit would disagree.
WritesAndDeletesDisjoint ==
  \A t \in {rootBatch, root, cur} : \A k \in t.deletes : t.writes[k] = NoValue

\* memoryUsage, from which FlushStateToDisk decides when to flush, is the size of
\* what the transaction holds, so it is never negative.
MemoryUsageIsSum ==
  \A t \in {root, cur} :
    t.memoryUsage =
      SumFunction([k \in Key |-> WriteUsage(t, k) + (IF k \in t.deletes THEN KeySize[k] ELSE 0)])

\* The two transactions, the batch and the database implement four plain maps:
\* block commits, roll-backs and flushes move whole maps and nothing else.  Reads
\* return the working map, also during a flush and after one that failed, when
\* what has been handed to the batch is out of their sight but not lost: only the
\* end of the process loses anything.
L == INSTANCE TransactionLayers WITH
       durable <- db,
       pending <- Through(rootBatch, db),
       committed <- Through(root, db),
       working <- Shown,
       changed <- Keys(root),
       changing <- Keys(cur)

Refinement == L!Spec
=============================================================================
