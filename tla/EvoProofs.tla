------------------------------ MODULE EvoProofs ------------------------------
(***************************************************************************)
(* Proofs about the masternode state and the callbacks that keep it at the *)
(* tip.  EvoDB: its transactions, for every set of keys and values.        *)
(* CallbackQueue: callbacks run one at a time and in order, and none is    *)
(* forgotten, for any number of threads and callbacks.  MNManager: the     *)
(* right list is found for every block it may be asked for, in every block *)
(* tree and with every snapshot period and cache size.                     *)
(***************************************************************************)
EXTENDS EvoDB, CallbackQueue, MNManager, TLAPS

-----------------------------------------------------------------------------
(* EvoDB: the inductive invariant. *)

\* A transaction that reads the same before and after it is committed.
Sound(t) == IsTransaction(t) /\ \A k \in t.deletes : t.writes[k] = NoValue

\* While the batch is being written nothing is in the transactions.
FlushingClean == flushing => Keys(root) = {} /\ Keys(cur) = {}

\* The inductive invariant: every transaction is well formed, no key is both
\* written and deleted, and the end of a flush finds the transactions empty.
\* Without the second part Commit, which applies writes last, and Read, which
\* asks the deletes first, would disagree.
EvoInv == TypeOK /\ WritesAndDeletesDisjoint /\ FlushingClean

Map == [Key -> Value \cup {NoValue}]

\* EvoInv, transaction by transaction.
LEMMA EvoInvParts ==
  EvoInv <=> /\ db \in Map /\ scope \in {"none", "open", "done"}
             /\ flushing \in BOOLEAN /\ process \in {0, 1}
             /\ Sound(rootBatch) /\ Sound(root) /\ Sound(cur)
             /\ FlushingClean
  BY Zenon DEF EvoInv, TypeOK, WritesAndDeletesDisjoint, Sound, Map

-----------------------------------------------------------------------------
(* Operations on one transaction. *)

\* A new transaction holds nothing.
LEMMA NewTransactionSound ==
  /\ Sound(NewTransaction) /\ Keys(NewTransaction) = {}
  /\ \A m \in Map : Through(NewTransaction, m) = m
<1>1. Sound(NewTransaction)
  BY Zenon DEF NewTransaction, Sound, IsTransaction
<1>2. \A m \in Map : Through(NewTransaction, m) = m
  BY Zenon DEF NewTransaction, Through, Read, Map
<1>3. Keys(NewTransaction) = {}
  BY Zenon DEF NewTransaction, Keys
<1> QED  BY Zenon, <1>1, <1>2, <1>3

\* Reading through a transaction gives a map again.
LEMMA ThroughType ==
  ASSUME NEW t, Sound(t), NEW m \in Map
  PROVE  Through(t, m) \in Map
  BY Zenon DEF Through, Read, Sound, IsTransaction, Map

\* A write changes one key of what the transaction shows.
LEMMA WriteShows ==
  ASSUME NEW t, Sound(t), NEW k \in Key, NEW v \in Value, NEW m \in Map
  PROVE  /\ Sound(Write(t, k, v))
         /\ Through(Write(t, k, v), m) = [Through(t, m) EXCEPT ![k] = v]
         /\ Keys(Write(t, k, v)) = Keys(t) \cup {k}
<1>1. /\ Write(t, k, v).writes = [t.writes EXCEPT ![k] = v]
      /\ Write(t, k, v).deletes = t.deletes \ {k}
  BY Zenon DEF Write
<1>2. Sound(Write(t, k, v))
  <2>1. IsTransaction(Write(t, k, v))
    BY Zenon DEF Write, Sound, IsTransaction
  <2> QED  BY Zenon, <1>1, <2>1 DEF Sound, IsTransaction
<1>3. Through(Write(t, k, v), m) = [Through(t, m) EXCEPT ![k] = v]
  BY ZenonT(60), <1>1, EvoAssumption DEF EvoAssumption, Through, Read, Sound, IsTransaction
<1>4. Keys(Write(t, k, v)) = Keys(t) \cup {k}
  <2>1. v # NoValue
    BY Zenon, EvoAssumption DEF EvoAssumption
  <2> QED  BY Zenon, <1>1, <2>1 DEF Keys, Sound, IsTransaction
<1> QED  BY Zenon, <1>2, <1>3, <1>4

\* An erasure makes the transaction show no value for the key.
LEMMA EraseShows ==
  ASSUME NEW t, Sound(t), NEW k \in Key, NEW m \in Map
  PROVE  /\ Sound(Erase(t, k))
         /\ Through(Erase(t, k), m) = [Through(t, m) EXCEPT ![k] = NoValue]
         /\ Keys(Erase(t, k)) = Keys(t) \cup {k}
<1>1. /\ Erase(t, k).writes = [t.writes EXCEPT ![k] = NoValue]
      /\ Erase(t, k).deletes = t.deletes \cup {k}
  BY Zenon DEF Erase
<1>2. Sound(Erase(t, k))
  <2>1. IsTransaction(Erase(t, k))
    BY Zenon DEF Erase, Sound, IsTransaction
  <2> QED  BY Zenon, <1>1, <2>1 DEF Sound, IsTransaction
<1>3. Through(Erase(t, k), m) = [Through(t, m) EXCEPT ![k] = NoValue]
  BY ZenonT(30), <1>1 DEF Through, Read, Sound, IsTransaction
<1>4. Keys(Erase(t, k)) = Keys(t) \cup {k}
  BY Zenon, <1>1 DEF Keys, Sound, IsTransaction
<1> QED  BY Zenon, <1>2, <1>3, <1>4

\* What Commit leaves in the target for one key.
LEMMA CommitKeyEffect ==
  ASSUME NEW t, Sound(t), NEW target, Sound(target), NEW k \in Key
  PROVE  /\ CommitKey(t, target, k).writes[k] =
              IF t.writes[k] # NoValue THEN t.writes[k]
              ELSE IF k \in t.deletes THEN NoValue ELSE target.writes[k]
         /\ (k \in CommitKey(t, target, k).deletes) <=>
              (t.writes[k] = NoValue /\ (k \in t.deletes \/ k \in target.deletes))
  BY Zenon DEF CommitKey, Write, Erase, Sound, IsTransaction

\* Committing t into target shows, over any map, what t shows over target, and
\* holds the keys of both.
Committed(r, t, target) ==
  /\ Sound(r) /\ Keys(r) = Keys(t) \cup Keys(target)
  /\ \A m \in Map : Through(r, m) = Through(t, Through(target, m))

\* A transaction made key by key from a commit shows what the commit has to show.
LEMMA CommitShows ==
  ASSUME NEW t, Sound(t), NEW target, Sound(target),
         NEW r, IsTransaction(r),
         r.writes = [k \in Key |-> CommitKey(t, target, k).writes[k]],
         r.deletes = {k \in Key : k \in CommitKey(t, target, k).deletes}
  PROVE  Committed(r, t, target)
<1>1. \A k \in Key : r.writes[k] = IF t.writes[k] # NoValue THEN t.writes[k]
                                   ELSE IF k \in t.deletes THEN NoValue ELSE target.writes[k]
  BY CommitKeyEffect
<1>2. \A k \in Key : (k \in r.deletes) <=>
                     (t.writes[k] = NoValue /\ (k \in t.deletes \/ k \in target.deletes))
  BY ZenonT(30), CommitKeyEffect
<1>3. Sound(r)
  <2> SUFFICES ASSUME NEW k \in r.deletes  PROVE r.writes[k] = NoValue
    BY Zenon DEF Sound
  <2> QED  BY Zenon, <1>1, <1>2 DEF Sound, IsTransaction
<1>4. ASSUME NEW m \in Map  PROVE Through(r, m) = Through(t, Through(target, m))
  <2>1. ASSUME NEW k \in Key
        PROVE  Read(r, k, m[k]) = Read(t, k, Read(target, k, m[k]))
    BY Zenon, <1>1, <1>2 DEF Read, Sound, IsTransaction
  <2> QED  BY Zenon, <2>1 DEF Through
<1>5. Keys(r) = Keys(t) \cup Keys(target)
  <2>1. ASSUME NEW k \in Key  PROVE k \in Keys(r) <=> k \in Keys(t) \/ k \in Keys(target)
    BY Zenon, <1>1, <1>2 DEF Keys, Sound
  <2>2. Keys(r) \subseteq Key /\ Keys(t) \subseteq Key /\ Keys(target) \subseteq Key
    BY Zenon DEF Keys, Sound, IsTransaction
  <2> QED  BY Zenon, <2>1, <2>2
<1> QED  BY Zenon, <1>3, <1>4, <1>5 DEF Committed

\* Commit and ToBatch are such commits.
LEMMA CommitCommits ==
  ASSUME NEW t, Sound(t), NEW target, Sound(target)
  PROVE  Committed(Commit(t, target), t, target) /\ Committed(ToBatch(t, target), t, target)
<1> DEFINE ws == [k \in Key |-> CommitKey(t, target, k).writes[k]]
           ds == {k \in Key : k \in CommitKey(t, target, k).deletes}
<1>1. ws \in [Key -> Value \cup {NoValue}] /\ ds \in SUBSET Key
  BY CommitKeyEffect DEF Sound, IsTransaction
<1>2. Commit(t, target) = [writes |-> ws, deletes |-> ds, memoryUsage |-> Commit(t, target).memoryUsage]
  BY ZenonT(30) DEF Commit
<1> HIDE DEF ws, ds
<1>3. ToBatch(t, target) = [writes |-> ws, deletes |-> ds, memoryUsage |-> 0]
  BY <1>2 DEF ToBatch
<1>4. /\ IsTransaction(Commit(t, target))
      /\ Commit(t, target).writes = ws /\ Commit(t, target).deletes = ds
  BY <1>1, <1>2 DEF IsTransaction
<1>5. /\ IsTransaction(ToBatch(t, target))
      /\ ToBatch(t, target).writes = ws /\ ToBatch(t, target).deletes = ds
  BY <1>1, <1>3 DEF IsTransaction
<1>6. Committed(Commit(t, target), t, target)
  BY Zenon, <1>4, CommitShows DEF ws, ds
<1>7. Committed(ToBatch(t, target), t, target)
  BY Zenon, <1>5, CommitShows DEF ws, ds
<1> QED  BY Zenon, <1>6, <1>7

\* A transaction shows what lies below it for the keys it does not hold, and its
\* own value, whatever lies below, for the others.
LEMMA KeysShow ==
  ASSUME NEW t, Sound(t), NEW m \in Map, NEW n \in Map, NEW k \in Key
  PROVE  Through(t, m)[k] = IF k \in Keys(t) THEN Through(t, n)[k] ELSE m[k]
  BY Zenon DEF Keys, Through, Read, Sound, IsTransaction, Map

\* A clean transaction holds no key and shows what lies below it.
LEMMA CleanShows ==
  ASSUME NEW t, Sound(t), NEW m \in Map
  PROVE  /\ IsClean(t) <=> Keys(t) = {}
         /\ IsClean(t) => Through(t, m) = m
  BY Zenon DEF IsClean, Keys, Through, Read, Sound, IsTransaction, Map
-----------------------------------------------------------------------------
(* Steps. *)

\* The maps of the abstract specification.
Pending     == Through(rootBatch, db)
CommittedMap == Through(root, db)
WorkingMap   == Through(cur, CommittedMap)

\* What the abstract specification consists of.
Maps == <<db, Pending, CommittedMap, WorkingMap, Keys(root), Keys(cur), process>>

AbstractNext == [L!Next]_(L!vars)

\* The three maps are maps.
LEMMA MapTypes ==
  ASSUME EvoInv
  PROVE  Pending \in Map /\ CommittedMap \in Map /\ WorkingMap \in Map
  BY Zenon, EvoInvParts, ThroughType DEF Pending, CommittedMap, WorkingMap

\* Every step keeps the invariant and is a step of TransactionLayers.
LEMMA StepCorrect ==
  ASSUME EvoInv, [Next]_vars
  PROVE  EvoInv' /\ AbstractNext
<1> USE DEF AbstractNext
<1>0. /\ db \in Map /\ scope \in {"none", "open", "done"}
      /\ flushing \in BOOLEAN /\ process \in {0, 1}
      /\ Sound(rootBatch) /\ Sound(root) /\ Sound(cur) /\ FlushingClean
  BY Zenon, EvoInvParts
<1>a. /\ (db \in Map)' /\ (scope \in {"none", "open", "done"})'
      /\ (flushing \in BOOLEAN)' /\ (process \in {0, 1})'
      /\ Sound(rootBatch)' /\ Sound(root)' /\ Sound(cur)' /\ FlushingClean'
      => EvoInv'
  BY Zenon DEF EvoInv, TypeOK, WritesAndDeletesDisjoint, Sound, Map
<1>b. /\ Sound(NewTransaction) /\ Keys(NewTransaction) = {}
      /\ \A m \in Map : Through(NewTransaction, m) = m
  BY Zenon, NewTransactionSound
<1>c. Pending \in Map /\ CommittedMap \in Map /\ WorkingMap \in Map
  BY Zenon, MapTypes
<1>d. L!vars = Maps /\ L!vars' = Maps'
  BY Zenon DEF L!vars, Maps, Pending, CommittedMap, WorkingMap, Shown
<1>1. ASSUME NEW k \in Key, NEW v \in Value, DoWrite(k, v)  PROVE EvoInv' /\ AbstractNext
  <2>1. /\ Sound(Write(cur, k, v)) /\ Keys(Write(cur, k, v)) = Keys(cur) \cup {k}
        /\ Through(Write(cur, k, v), CommittedMap) = [WorkingMap EXCEPT ![k] = v]
    BY <1>0, <1>c, WriteShows DEF WorkingMap
  <2>2. /\ ~flushing /\ cur' = Write(cur, k, v)
        /\ UNCHANGED <<db, rootBatch, root, scope, flushing, process>>
    BY Zenon, <1>1 DEF DoWrite
  <2>3. EvoInv'
    BY Zenon, <1>0, <1>a, <2>1, <2>2 DEF Sound, IsTransaction, FlushingClean
  <2>4. /\ UNCHANGED <<db, Pending, CommittedMap, Keys(root), process>>
        /\ WorkingMap' = [WorkingMap EXCEPT ![k] = v] /\ Keys(cur)' = Keys(cur) \cup {k}
    BY Zenon, <2>1, <2>2 DEF CommittedMap, WorkingMap, Pending, Through, Read, Keys
  <2>5. L!Put(k, v)
    BY Zenon, <2>4 DEF L!Put, CommittedMap, WorkingMap, Pending, Shown
  <2> QED  BY Zenon, <2>3, <2>5 DEF L!Next
<1>2. ASSUME NEW k \in Key, DoErase(k)  PROVE EvoInv' /\ AbstractNext
  <2>1. /\ Sound(Erase(cur, k)) /\ Keys(Erase(cur, k)) = Keys(cur) \cup {k}
        /\ Through(Erase(cur, k), CommittedMap) = [WorkingMap EXCEPT ![k] = NoValue]
    BY ZenonT(30), <1>0, <1>c, EraseShows DEF WorkingMap
  <2>2. /\ ~flushing /\ cur' = Erase(cur, k)
        /\ UNCHANGED <<db, rootBatch, root, scope, flushing, process>>
    BY Zenon, <1>2 DEF DoErase
  <2>3. EvoInv'
    BY Zenon, <1>0, <1>a, <2>1, <2>2 DEF Sound, IsTransaction, FlushingClean
  <2>4. /\ UNCHANGED <<db, Pending, CommittedMap, Keys(root), process>>
        /\ WorkingMap' = [WorkingMap EXCEPT ![k] = NoValue] /\ Keys(cur)' = Keys(cur) \cup {k}
    BY Zenon, <2>1, <2>2 DEF CommittedMap, WorkingMap, Pending, Through, Read, Keys
  <2>5. L!Put(k, NoValue)
    BY Zenon, <2>4 DEF L!Put, CommittedMap, WorkingMap, Pending, Shown
  <2> QED  BY Zenon, <2>3, <2>5 DEF L!Next
<1>3. CASE CommitCurTransaction
  <2>1. Committed(Commit(cur, root), cur, root)
    BY Zenon, <1>0, CommitCommits
  <2>2. /\ ~flushing /\ root' = Commit(cur, root) /\ cur' = NewTransaction /\ scope' = "done"
        /\ UNCHANGED <<db, rootBatch, flushing, process>>
    BY Zenon, <1>3 DEF CommitCurTransaction
  <2>3. EvoInv'
    BY Zenon, <1>0, <1>a, <1>b, <2>1, <2>2 DEF Committed, Sound, IsTransaction, FlushingClean
  <2>4. CommittedMap' = Through(Commit(cur, root), db)
    BY Zenon, <2>2 DEF CommittedMap, Through, Read
  <2>5. CommittedMap' = WorkingMap
    BY Zenon, <1>0, <2>1, <2>4 DEF Committed, WorkingMap, CommittedMap
  <2>6. WorkingMap' = Through(NewTransaction, CommittedMap')
    BY Zenon, <2>2 DEF WorkingMap, Through, Read
  <2>7. WorkingMap' = WorkingMap
    BY Zenon, <1>b, <1>c, <2>5, <2>6
  <2>8. Keys(root)' = Keys(root) \cup Keys(cur) /\ Keys(cur)' = {}
    <3>1. Keys(root)' = Keys(Commit(cur, root)) /\ Keys(cur)' = Keys(NewTransaction)
      BY Zenon, <2>2 DEF Keys
    <3> QED  BY Zenon, <1>b, <2>1, <3>1 DEF Committed
  <2>9. UNCHANGED <<db, Pending, process>>
    BY Zenon, <2>2 DEF Pending, Through, Read
  <2>10. L!Commit
    BY Zenon, <2>5, <2>7, <2>8, <2>9 DEF L!Commit, CommittedMap, WorkingMap, Pending, Shown
  <2> QED  BY Zenon, <2>3, <2>10 DEF L!Next
<1>4. CASE EndTransaction
  <2>1. /\ ~flushing /\ cur' = (IF scope = "open" THEN NewTransaction ELSE cur) /\ scope' = "none"
        /\ UNCHANGED <<db, rootBatch, root, flushing, process>>
    BY Zenon, <1>4 DEF EndTransaction
  <2>2. EvoInv'
    BY Zenon, <1>0, <1>a, <1>b, <2>1 DEF Sound, IsTransaction, FlushingClean
  <2>3. UNCHANGED <<db, Pending, CommittedMap, Keys(root), process>>
    BY Zenon, <2>1 DEF CommittedMap, Pending, Through, Read, Keys
  <2>4. WorkingMap' = Through(cur', CommittedMap) /\ Keys(cur)' = Keys(cur')
    BY Zenon, <2>3 DEF WorkingMap, Through, Read, Keys
  <2>5. \/ WorkingMap' = CommittedMap /\ Keys(cur)' = {}
        \/ WorkingMap' = WorkingMap /\ Keys(cur)' = Keys(cur)
    BY Zenon, <1>b, <1>c, <2>1, <2>4 DEF WorkingMap
  <2>6. L!Rollback \/ UNCHANGED Maps
    BY Zenon, <2>3, <2>5 DEF L!Rollback, Maps, CommittedMap, WorkingMap, Pending, Shown
  <2> QED  BY Zenon, <1>d, <2>2, <2>6 DEF L!Next
<1>5. CASE CommitRootTransaction
  <2> DEFINE b == ToBatch(root, rootBatch)
  <2>1. Committed(b, root, rootBatch)
    BY Zenon, <1>0, CommitCommits
  <2>2. /\ IsClean(cur) /\ rootBatch' = b /\ root' = NewTransaction
        /\ UNCHANGED <<db, cur, scope, process>> /\ flushing' = TRUE
    BY Zenon, <1>5 DEF CommitRootTransaction
  <2> HIDE DEF b
  <2>3. Keys(cur) = {} /\ Through(cur, db) = db
    BY Zenon, <1>0, <2>2, CleanShows
  <2>4. Keys(root)' = {} /\ Keys(cur)' = {}
    BY Zenon, <1>b, <2>2, <2>3 DEF Keys
  <2>5. EvoInv'
    BY Zenon, <1>0, <1>a, <1>b, <2>1, <2>2, <2>4
       DEF Committed, Sound, IsTransaction, FlushingClean
  <2>6. CommittedMap' = Through(NewTransaction, db)
    BY Zenon, <2>2 DEF CommittedMap, Through, Read
  <2>7. CommittedMap' = db
    BY Zenon, <1>0, <1>b, <2>6
  <2>8. WorkingMap' = Through(cur, db)
    BY Zenon, <2>2, <2>7 DEF WorkingMap, Through, Read
  <2>9. Pending' = Through(b, db)
    BY Zenon, <2>2 DEF Pending, Through, Read
  <2>10. Pending' = Through(root, Pending)
    BY Zenon, <1>0, <2>1, <2>9 DEF Committed, Pending
  <2>11. ASSUME NEW k \in Key
         PROVE  Through(root, Pending)[k]
                  = IF k \in Keys(root) THEN CommittedMap[k] ELSE Pending[k]
    BY ZenonT(30), <1>0, <1>c, KeysShow DEF CommittedMap
  <2>12. Through(root, Pending)
           = [k \in Key |-> IF k \in Keys(root) THEN CommittedMap[k] ELSE Pending[k]]
    <3>1. Through(root, Pending) = [k \in Key |-> Through(root, Pending)[k]]
      BY Zenon DEF Through
    <3> QED  BY Zenon, <2>11, <3>1
  <2>13. /\ Pending' = [k \in Key |-> IF k \in Keys(root) THEN CommittedMap[k] ELSE Pending[k]]
         /\ CommittedMap' = db /\ WorkingMap' = db /\ Keys(root)' = {} /\ Keys(cur) = {}
         /\ UNCHANGED <<db, Keys(cur), process>>
    BY Zenon, <2>2, <2>3, <2>4, <2>7, <2>8, <2>10, <2>12
  <2>14. L!Begin
    BY Zenon, <2>13 DEF L!Begin, CommittedMap, WorkingMap, Pending, Shown
  <2> QED  BY Zenon, <2>5, <2>14 DEF L!Next
<1>6. CASE WriteBatch
  <2>1. /\ flushing /\ db' = Pending /\ rootBatch' = NewTransaction
        /\ UNCHANGED <<root, cur, scope, process>> /\ flushing' = FALSE
    BY Zenon, <1>6 DEF WriteBatch, Pending
  <2>2. Keys(root) = {} /\ Keys(cur) = {}
    BY Zenon, <1>0, <2>1 DEF FlushingClean
  <2>3. EvoInv'
    BY Zenon, <1>0, <1>a, <1>b, <1>c, <2>1 DEF Sound, IsTransaction, FlushingClean
  <2>4. Pending' = Through(NewTransaction, db')
    BY Zenon, <2>1 DEF Pending, Through, Read
  <2>5. Pending' = Pending
    BY Zenon, <1>b, <1>c, <2>1, <2>4
  <2>6. CommittedMap' = Through(root, Pending)
    BY Zenon, <2>1 DEF CommittedMap, Through, Read
  <2>7. CommittedMap' = Pending
    BY Zenon, <1>0, <1>c, <2>2, <2>6, CleanShows
  <2>8. WorkingMap' = Through(cur, Pending)
    BY Zenon, <2>1, <2>7 DEF WorkingMap, Through, Read
  <2>9. WorkingMap' = Pending
    BY Zenon, <1>0, <1>c, <2>2, <2>8, CleanShows
  <2>10. UNCHANGED <<Keys(root), Keys(cur)>>
    BY Zenon, <2>1 DEF Keys
  <2>11. L!Persist
    BY Zenon, <2>1, <2>2, <2>5, <2>7, <2>9, <2>10
       DEF L!Persist, CommittedMap, WorkingMap, Pending, Shown
  <2> QED  BY Zenon, <2>3, <2>11 DEF L!Next
<1>7. CASE Crash
  <2>1. /\ rootBatch' = NewTransaction /\ root' = NewTransaction /\ cur' = NewTransaction
        /\ scope' = "none" /\ flushing' = FALSE /\ process' \in {0, 1} \ {process} /\ UNCHANGED db
    BY Zenon, <1>7 DEF Crash
  <2>2. EvoInv'
    BY Zenon, <1>0, <1>a, <1>b, <2>1 DEF FlushingClean
  <2>3. Pending' = Through(NewTransaction, db) /\ CommittedMap' = Through(NewTransaction, db)
    BY Zenon, <2>1 DEF Pending, CommittedMap, Through, Read
  <2>4. Pending' = db /\ CommittedMap' = db
    BY Zenon, <1>0, <1>b, <2>3
  <2>5. WorkingMap' = Through(NewTransaction, db)
    BY Zenon, <2>1, <2>4 DEF WorkingMap, Through, Read
  <2>6. WorkingMap' = db
    BY Zenon, <1>0, <1>b, <2>5
  <2>7. Keys(root)' = {} /\ Keys(cur)' = {}
    BY Zenon, <1>b, <2>1 DEF Keys
  <2>8. L!Crash
    BY Zenon, <2>1, <2>4, <2>6, <2>7 DEF L!Crash, CommittedMap, WorkingMap, Pending, Shown
  <2> QED  BY Zenon, <2>2, <2>8 DEF L!Next
<1>8. ASSUME UNCHANGED <<db, rootBatch, root, cur, process>>,
             scope' \in {"none", "open", "done"}, flushing' \in BOOLEAN, flushing' => flushing
      PROVE  EvoInv' /\ AbstractNext
  <2>1. EvoInv'
    BY Zenon, <1>0, <1>a, <1>8 DEF Sound, IsTransaction, FlushingClean, Keys
  <2>2. UNCHANGED Maps
    BY Zenon, <1>8 DEF Maps, CommittedMap, WorkingMap, Pending, Through, Read, Keys
  <2> QED  BY Zenon, <1>d, <2>1, <2>2
<1>9. CASE BeginTransaction
  BY Zenon, <1>0, <1>8, <1>9 DEF BeginTransaction
<1>10. CASE WriteBatchFails
  BY Zenon, <1>0, <1>8, <1>10 DEF WriteBatchFails
<1>11. CASE UNCHANGED vars
  BY Zenon, <1>0, <1>8, <1>11 DEF vars
<1> QED  BY ZenonT(30), <1>1, <1>2, <1>3, <1>4, <1>5, <1>6, <1>7, <1>9, <1>10, <1>11 DEF Next

\* After opening the database all the maps are what is on disk.
LEMMA InitCorrect ==
  ASSUME Init  PROVE EvoInv /\ L!Init
<1>1. /\ db \in Map /\ rootBatch = NewTransaction /\ root = NewTransaction
      /\ cur = NewTransaction /\ scope = "none" /\ flushing = FALSE /\ process = 0
  BY Zenon DEF Init, Map
<1>2. EvoInv
  BY Zenon, <1>1, EvoInvParts, NewTransactionSound DEF FlushingClean
<1>3. Pending = db /\ CommittedMap = db
  BY Zenon, <1>1, NewTransactionSound DEF Pending, CommittedMap
<1>4. WorkingMap = db
  BY Zenon, <1>1, <1>3, NewTransactionSound DEF WorkingMap
<1>5. Keys(root) = {} /\ Keys(cur) = {}
  BY Zenon, <1>1, NewTransactionSound
<1>6. L!Init
  BY Zenon, <1>1, <1>3, <1>4, <1>5 DEF L!Init, CommittedMap, WorkingMap, Pending, Map, Shown
<1> QED  BY Zenon, <1>2, <1>6

\* The inductive invariant holds in every reachable state.
THEOREM Invariance == Spec => []EvoInv
<1>1. Init => EvoInv
  BY Zenon, InitCorrect
<1>2. EvoInv /\ [Next]_vars => EvoInv'
  BY Zenon, StepCorrect
<1> QED  BY <1>1, <1>2, PTL DEF Spec

\* The database, the batch and the transactions keep their types.
THEOREM EvoTypeCorrect == Spec => []TypeOK
  BY Invariance, PTL DEF EvoInv

\* No transaction both writes and deletes a key.
THEOREM Disjoint == Spec => []WritesAndDeletesDisjoint
  BY Invariance, PTL DEF EvoInv

\* The database implements four plain maps, across commits, rollbacks, crashes and
\* flushes, which readers may observe half done, and which may fail and be repeated.
THEOREM TransactionsRefineMaps == Spec => Refinement
<1>1. Init => L!Init
  BY Zenon, InitCorrect
<1>2. EvoInv /\ [Next]_vars => [L!Next]_(L!vars)
  BY Zenon, StepCorrect DEF AbstractNext
<1> QED  BY <1>1, <1>2, Invariance, PTL DEF Spec, Refinement, L!Spec

-----------------------------------------------------------------------------
(* CallbackQueue. *)

\* m_are_callbacks_running is set exactly while one thread executes a callback or is
\* about to reset the flag; the thread that executes holds a callback.
Exclusive ==
  /\ running <=> \E t \in Thread : pc[t] \in {"run", "done"}
  /\ \A t, u \in Thread :
       pc[t] \in {"run", "done"} /\ pc[u] \in {"run", "done"} => t = u
  /\ \A t \in Thread : callback[t] # Nil <=> pc[t] = "run"

\* The callbacks pending are the last ones added, in the order of their numbers.
Numbered ==
  /\ Len(pending) <= count
  /\ \A i \in 1 .. Len(pending) : pending[i] = count - Len(pending) + i

\* What a client waits for has been added; what it has synchronised with is not pending.
SyncBounds ==
  \A t \in Thread : /\ promise[t] <= count
                    /\ synced[t] <= count - Len(pending)

CallbackInv == CallbackTypeOK /\ Exclusive /\ Numbered /\ SyncBounds /\ CallbackNotForgotten

USE DEF Nil, Thread
-----------------------------------------------------------------------------
\* A thread that has scheduled its task goes back to one of four places.
LEMMA ReturnedType == ASSUME NEW t \in Thread
                      PROVE Returned(t) \in {"service", "idle", "sync", "drain"}
BY Zenon DEF Returned

\* Everything the initial state has to satisfy.
LEMMA InitInv == CallbackInit => CallbackInv
<1> SUFFICES ASSUME CallbackInit PROVE CallbackInv
  BY Zenon
<1>0. running \in BOOLEAN BY ZenonT(30) DEF CallbackInit
<1>1. CallbackTypeOK BY <1>0, ThreadsDistinct DEF CallbackInit, CallbackTypeOK
<1>2. Exclusive BY ZenonT(30), ThreadsDistinct DEF CallbackInit, Exclusive
<1>3. Numbered BY DEF CallbackInit, Numbered
<1>4. SyncBounds BY DEF CallbackInit, SyncBounds
<1>5. CallbackNotForgotten BY SMTT(30) DEF CallbackInit, CallbackNotForgotten
<1> QED BY Zenon, <1>1, <1>2, <1>3, <1>4, <1>5 DEF CallbackInv
-----------------------------------------------------------------------------
\* Every step keeps the types.
LEMMA TypeStep == CallbackInv /\ [CallbackNext]_callbackVars => CallbackTypeOK'
<1> SUFFICES ASSUME CallbackTypeOK, Exclusive, Numbered, [CallbackNext]_callbackVars
             PROVE CallbackTypeOK'
  BY Zenon DEF CallbackInv
<1> USE ReturnedType DEF CallbackTypeOK, Goto, Push
<1>1. ASSUME NEW t \in Thread, AddToProcessQueue(t) PROVE CallbackTypeOK'
  BY <1>1 DEF AddToProcessQueue
<1>2. ASSUME NEW t \in Thread, SyncNothing(t) PROVE CallbackTypeOK'
  BY Zenon, <1>2 DEF SyncNothing
<1>3. ASSUME NEW t \in Thread, SyncBegin(t) PROVE CallbackTypeOK'
  BY Zenon, <1>3 DEF SyncBegin
<1>4. ASSUME NEW t \in Thread, SyncAdd(t) PROVE CallbackTypeOK'
  BY <1>4 DEF SyncAdd
<1>5. ASSUME NEW t \in Thread, SyncReturn(t) PROVE CallbackTypeOK'
  BY Zenon, <1>5 DEF SyncReturn
<1>6. ASSUME NEW t \in Thread, MaybeScheduleProcessQueue(t) PROVE CallbackTypeOK'
  BY Zenon, <1>6 DEF MaybeScheduleProcessQueue
<1>7. ASSUME NEW t \in Thread, Schedule(t) PROVE CallbackTypeOK'
  BY <1>7 DEF Schedule
<1>8. ASSUME NEW t \in Thread, NotifyOne(t) PROVE CallbackTypeOK'
  BY ZenonT(60), <1>8 DEF NotifyOne
<1>9. ASSUME NEW t \in Thread, ServiceTake(t) PROVE CallbackTypeOK'
  BY <1>9 DEF ServiceTake
<1>10. ASSUME NEW t \in Thread, ServiceWait(t) \/ ServiceExit(t) \/ SpuriousWakeup(t)
       PROVE CallbackTypeOK'
  <2>1. CASE ServiceWait(t) BY Zenon, <2>1 DEF ServiceWait
  <2>2. CASE ServiceExit(t) BY Zenon, <2>2 DEF ServiceExit
  <2>3. CASE SpuriousWakeup(t) BY <2>3 DEF SpuriousWakeup
  <2> QED BY Zenon, <1>10, <2>1, <2>2, <2>3
<1>11. ASSUME NEW t \in Thread, TakeCallback(t) PROVE CallbackTypeOK'
  <2>1. CASE running \/ pending = <<>>
    BY ZenonT(30), <1>11, <2>1 DEF TakeCallback
  <2>2. CASE ~(running \/ pending = <<>>)
    <3>1. /\ running' = TRUE /\ pending' = Tail(pending) /\ Goto(t, "run")
          /\ callback' = [callback EXCEPT ![t] = Head(pending)]
      BY Zenon, <1>11, <2>2 DEF TakeCallback
    <3>2. running' \in BOOLEAN BY Zenon, <3>1, Zenon
    <3>3. Head(pending) \in Nat /\ Tail(pending) \in Seq(Nat) BY <2>2
    <3>4. UNCHANGED <<taskQueue, promise, count, synced, spurious>>
      BY Zenon, <1>11 DEF TakeCallback
    <3> QED BY ZenonT(30), <3>1, <3>2, <3>3, <3>4
  <2> QED BY Zenon, <2>1, <2>2
<1>12. ASSUME NEW t \in Thread, CallbackAdds(t) PROVE CallbackTypeOK'
  BY <1>12 DEF CallbackAdds
<1>13. ASSUME NEW t \in Thread, CallbackReturns(t) PROVE CallbackTypeOK'
  BY Zenon, <1>13 DEF CallbackReturns
<1>14. ASSUME NEW t \in Thread, ResetRunning(t) PROVE CallbackTypeOK'
  <2>1. running' \in BOOLEAN BY Zenon, <1>14, Zenon DEF ResetRunning
  <2> QED BY Zenon, <1>14, <2>1 DEF ResetRunning
<1>15. ASSUME InterruptAll PROVE CallbackTypeOK'
  BY Zenon, <1>15 DEF InterruptAll
<1>16. ASSUME JoinAll PROVE CallbackTypeOK'
  <2>1. CASE Push /\ Goto(Main, "maybe")
    BY <1>16, <2>1 DEF JoinAll
  <2>2. CASE Goto(Main, "drain") /\ UNCHANGED <<pending, count>>
    BY Zenon, <1>16, <2>2 DEF JoinAll
  <2> QED BY ZenonT(30), <1>16, <2>1, <2>2 DEF JoinAll
<1>17. ASSUME EmptyQueue PROVE CallbackTypeOK'
  BY Zenon, <1>17 DEF EmptyQueue
<1>18. ASSUME UNCHANGED callbackVars PROVE CallbackTypeOK'
  BY Zenon, <1>18 DEF callbackVars
<1> QED BY ZenonT(30), <1>1, <1>2, <1>3, <1>4, <1>5, <1>6, <1>7, <1>8, <1>9, <1>10, <1>11, <1>12,
           <1>13, <1>14, <1>15, <1>16, <1>17, <1>18 DEF CallbackNext, CallbackStep
-----------------------------------------------------------------------------
\* What a step does to the callbacks pending: nothing, one more, or one less.
LEMMA PendingStep ==
  [CallbackNext]_callbackVars =>
    \/ UNCHANGED <<pending, count>>
    \/ Push
    \/ pending # <<>> /\ pending' = Tail(pending) /\ UNCHANGED count
BY ZenonT(30) DEF CallbackNext, CallbackStep, callbackVars, AddToProcessQueue, SyncNothing, SyncBegin,
       SyncAdd, SyncReturn, MaybeScheduleProcessQueue, Schedule, NotifyOne, ServiceTake,
       ServiceWait, ServiceExit, SpuriousWakeup, TakeCallback, CallbackAdds,
       CallbackReturns, ResetRunning, InterruptAll, JoinAll, EmptyQueue

\* Pending callbacks stay numbered without gaps up to the last one added.
LEMMA NumberedStep == CallbackInv /\ [CallbackNext]_callbackVars => Numbered'
<1> SUFFICES ASSUME CallbackTypeOK, Numbered, [CallbackNext]_callbackVars PROVE Numbered'
  BY Zenon DEF CallbackInv
<1> USE DEF CallbackTypeOK, Numbered
<1>1. CASE UNCHANGED <<pending, count>> BY Zenon, <1>1
<1>2. CASE Push
  <2>1. Len(pending') = Len(pending) + 1 /\ count' = count + 1 BY <1>2 DEF Push
  <2>2. \A i \in 1 .. Len(pending) : pending'[i] = pending[i] BY <1>2 DEF Push
  <2>3. pending'[Len(pending) + 1] = count + 1 BY <1>2 DEF Push
  <2>4. ASSUME NEW i \in 1 .. Len(pending')
        PROVE pending'[i] = count' - Len(pending') + i
    <3>1. CASE i \in 1 .. Len(pending) BY <2>1, <2>2, <3>1
    <3>2. CASE i = Len(pending) + 1 BY <2>1, <2>3, <3>2
    <3> QED BY <2>1, <3>1, <3>2
  <2> QED BY <2>1, <2>4
<1>3. CASE pending # <<>> /\ pending' = Tail(pending) /\ UNCHANGED count
  <2>1. Len(pending) >= 1 /\ Len(pending') = Len(pending) - 1 BY <1>3
  <2>2. \A i \in 1 .. Len(pending') : pending'[i] = pending[i + 1] BY <1>3
  <2> QED BY <1>3, <2>1, <2>2
<1> QED BY Zenon, <1>1, <1>2, <1>3, PendingStep
-----------------------------------------------------------------------------
\* What a step does to the promises and to what the clients have synchronised with.
LEMMA SyncStep ==
  ASSUME CallbackTypeOK, [CallbackNext]_callbackVars
  PROVE \/ UNCHANGED <<promise, synced>>
        \/ \E t \in Thread : SyncNothing(t) \/ SyncAdd(t) \/ SyncReturn(t)
BY DEF CallbackNext, CallbackStep, callbackVars, AddToProcessQueue, SyncBegin,
       MaybeScheduleProcessQueue, Schedule, NotifyOne, ServiceTake,
       ServiceWait, ServiceExit, SpuriousWakeup, TakeCallback, CallbackAdds,
       CallbackReturns, ResetRunning, InterruptAll, JoinAll, EmptyQueue

\* What a caller of SyncWithValidationInterfaceQueue waits for stays within that range.
LEMMA SyncBoundsStep == CallbackInv /\ [CallbackNext]_callbackVars => SyncBounds'
<1> SUFFICES ASSUME CallbackTypeOK, Numbered, SyncBounds, [CallbackNext]_callbackVars
             PROVE SyncBounds'
  BY Zenon DEF CallbackInv
<1>1. /\ count \in Nat /\ count' \in Nat /\ Len(pending) \in Nat /\ Len(pending') \in Nat
      /\ count <= count' /\ count - Len(pending) <= count' - Len(pending')
  BY PendingStep DEF CallbackTypeOK, Push
<1>2. CASE UNCHANGED <<promise, synced>>
  BY SMTT(30), <1>1, <1>2 DEF CallbackTypeOK, SyncBounds
<1>3. ASSUME NEW t \in Thread, SyncNothing(t) PROVE SyncBounds'
  BY <1>1, <1>3 DEF CallbackTypeOK, SyncBounds, SyncNothing
<1>4. ASSUME NEW t \in Thread, SyncAdd(t) PROVE SyncBounds'
  BY SMTT(30), <1>1, <1>4 DEF CallbackTypeOK, SyncBounds, SyncAdd, Push
<1>5. ASSUME NEW t \in Thread, SyncReturn(t) PROVE SyncBounds'
  <2>1. promise[t] <= count - Len(pending)
    <3> SUFFICES ASSUME promise[t] > count - Len(pending) PROVE FALSE
      BY <1>1 DEF CallbackTypeOK
    <3> DEFINE i == promise[t] - (count - Len(pending))
    <3>1. i \in 1 .. Len(pending) BY SMTT(30), <1>1 DEF CallbackTypeOK, SyncBounds
    <3>2. pending[i] = promise[t] BY SMTT(30), <1>1, <3>1 DEF Numbered, CallbackTypeOK
    <3> HIDE DEF i
    <3>3. promise[t] \in Range(pending) BY <3>1, <3>2 DEF Range, CallbackTypeOK
    <3> QED BY Zenon, <1>5, <3>3 DEF SyncReturn, Executed
  <2> QED BY SMTT(30), <1>1, <1>5, <2>1 DEF CallbackTypeOK, SyncBounds, SyncReturn
<1> QED BY Zenon, <1>2, <1>3, <1>4, <1>5, SyncStep
-----------------------------------------------------------------------------
\* m_are_callbacks_running and the threads that execute a callback.
LEMMA ExclusiveStep == CallbackInv /\ [CallbackNext]_callbackVars => Exclusive'
<1> SUFFICES ASSUME CallbackTypeOK, Exclusive, Numbered, [CallbackNext]_callbackVars
             PROVE Exclusive'
  BY Zenon DEF CallbackInv
<1> DEFINE Busy == {"run", "done"}
           Same == /\ UNCHANGED <<running, callback>>
                   /\ \A u \in Thread : pc[u] # pc'[u] => pc[u] \notin Busy /\ pc'[u] \notin Busy
<1>1. CASE Same
  BY Zenon, <1>1 DEF Exclusive
<1>2. ASSUME NEW t \in Thread, TakeCallback(t), ~(running \/ pending = <<>>)
      PROVE Exclusive'
  <2>1. Head(pending) # Nil
    BY <1>2 DEF Numbered, CallbackTypeOK
  <2>2. /\ running' = TRUE /\ pc' = [pc EXCEPT ![t] = "run"]
        /\ callback' = [callback EXCEPT ![t] = Head(pending)]
    BY Zenon, <1>2 DEF TakeCallback, Goto
  <2>3. \A u \in Thread : pc[u] \notin Busy BY Zenon, <1>2 DEF Exclusive
  <2>4. \A u \in Thread : pc'[u] \in Busy <=> u = t
    BY Zenon, <2>2, <2>3 DEF CallbackTypeOK
  <2>5. \A u \in Thread : callback'[u] # Nil <=> pc'[u] = "run"
    BY Zenon, <2>1, <2>2 DEF Exclusive, CallbackTypeOK
  <2> QED BY <2>2, <2>4, <2>5 DEF Exclusive
<1>3. ASSUME NEW t \in Thread, CallbackReturns(t) PROVE Exclusive'
  BY Zenon, <1>3 DEF CallbackReturns, Goto, Exclusive, CallbackTypeOK
<1>4. ASSUME NEW t \in Thread, ResetRunning(t) PROVE Exclusive'
  BY Zenon, <1>4 DEF ResetRunning, Goto, Exclusive, CallbackTypeOK
<1>5. \/ Same
      \/ \E t \in Thread : \/ TakeCallback(t) /\ ~(running \/ pending = <<>>)
                          \/ CallbackReturns(t) \/ ResetRunning(t)
  <2>1. ASSUME NEW t \in Thread, TakeCallback(t), running \/ pending = <<>> PROVE Same
    BY ZenonT(30), <2>1, ReturnedType DEF TakeCallback, Goto, CallbackTypeOK
  <2>2. ASSUME NEW t \in Thread, NotifyOne(t) PROVE Same
    BY ZenonT(30), <2>2, ReturnedType DEF NotifyOne, Goto, CallbackTypeOK
  <2>3. ASSUME JoinAll \/ EmptyQueue \/ InterruptAll PROVE Same
    BY ZenonT(30), <2>3 DEF JoinAll, EmptyQueue, InterruptAll, Goto, CallbackTypeOK
  <2>4. ASSUME NEW t \in Thread, MaybeScheduleProcessQueue(t) PROVE Same
    BY ZenonT(30), <2>4, ReturnedType DEF MaybeScheduleProcessQueue, Goto, CallbackTypeOK
  <2>5. ASSUME NEW t \in Thread,
               \/ AddToProcessQueue(t) \/ SyncNothing(t) \/ SyncBegin(t) \/ SyncAdd(t)
               \/ SyncReturn(t) \/ Schedule(t) \/ ServiceTake(t) \/ ServiceWait(t)
               \/ ServiceExit(t) \/ SpuriousWakeup(t) \/ CallbackAdds(t)
        PROVE Same
    BY ZenonT(30), <2>5 DEF AddToProcessQueue, SyncNothing, SyncBegin, SyncAdd, SyncReturn, Schedule,
                ServiceTake, ServiceWait, ServiceExit, SpuriousWakeup, CallbackAdds, Goto,
                CallbackTypeOK
  <2>6. ASSUME UNCHANGED callbackVars PROVE Same
    BY Zenon, <2>6 DEF callbackVars
  <2> HIDE DEF Same
  <2> QED BY Zenon, <2>1, <2>2, <2>3, <2>4, <2>5, <2>6 DEF CallbackNext, CallbackStep
<1> QED BY Zenon, <1>1, <1>2, <1>3, <1>4, <1>5
-----------------------------------------------------------------------------
\* No step loses the task that a pending callback needs.
LEMMA NotForgottenStep ==
  CallbackInv /\ [CallbackNext]_callbackVars => CallbackNotForgotten'
<1> SUFFICES ASSUME CallbackTypeOK, Exclusive, CallbackNotForgotten,
                    [CallbackNext]_callbackVars
             PROVE CallbackNotForgotten'
  BY Zenon DEF CallbackInv
<1> USE ReturnedType, ThreadsDistinct
    DEF CallbackTypeOK, CallbackNotForgotten, Interrupted, Goto
<1>1. ASSUME NEW t \in Thread, AddToProcessQueue(t) PROVE CallbackNotForgotten'
  BY ZenonT(30), <1>1 DEF AddToProcessQueue
<1>2. ASSUME NEW t \in Thread, SyncNothing(t) \/ SyncBegin(t) PROVE CallbackNotForgotten'
  BY ZenonT(60), <1>2 DEF SyncNothing, SyncBegin
<1>3. ASSUME NEW t \in Thread, SyncAdd(t) PROVE CallbackNotForgotten'
  BY ZenonT(30), <1>3 DEF SyncAdd
<1>4. ASSUME NEW t \in Thread, SyncReturn(t) PROVE CallbackNotForgotten'
  BY ZenonT(30), <1>4 DEF SyncReturn
<1>5. ASSUME NEW t \in Thread, MaybeScheduleProcessQueue(t) PROVE CallbackNotForgotten'
  BY Zenon, <1>5 DEF MaybeScheduleProcessQueue, Returned
<1>6. ASSUME NEW t \in Thread, Schedule(t) PROVE CallbackNotForgotten'
  BY <1>6 DEF Schedule
<1>7. ASSUME NEW t \in Thread, NotifyOne(t) PROVE CallbackNotForgotten'
  <2>1. UNCHANGED <<taskQueue, pending, running>> /\ pc[t] = "notify"
    BY Zenon, <1>7 DEF NotifyOne
  <2>2. CASE {s \in Service : pc[s] = "wait"} = {}
    <3>1. pc' = [pc EXCEPT ![t] = Returned(t)] BY Zenon, <1>7, <2>2 DEF NotifyOne
    <3>2. \A s \in Service : pc'[s] # "wait" BY ZenonT(30), <2>2, <3>1
    <3> QED BY ZenonT(30), <2>1, <3>1, <3>2
  <2>3. CASE {s \in Service : pc[s] = "wait"} # {}
    <3>1. PICK s \in Service : pc[s] = "wait" /\ pc' = [pc EXCEPT ![t] = Returned(t),
                                                               ![s] = "service"]
      BY ZenonT(30), <1>7, <2>3 DEF NotifyOne
    <3> QED BY ZenonT(30), <2>1, <3>1
  <2> QED BY Zenon, <2>2, <2>3
<1>8. ASSUME NEW t \in Thread, ServiceTake(t) PROVE CallbackNotForgotten'
  BY Zenon, <1>8 DEF ServiceTake
<1>9. ASSUME NEW t \in Thread, ServiceWait(t) \/ ServiceExit(t) \/ SpuriousWakeup(t)
      PROVE CallbackNotForgotten'
  <2>1. CASE ServiceWait(t) BY SMTT(30), <2>1 DEF ServiceWait
  <2>2. CASE ServiceExit(t) BY Zenon, <2>2 DEF ServiceExit
  <2>3. CASE SpuriousWakeup(t) BY ZenonT(30), <2>3 DEF SpuriousWakeup
  <2> QED BY Zenon, <1>9, <2>1, <2>2, <2>3
<1>10. ASSUME NEW t \in Thread, TakeCallback(t) PROVE CallbackNotForgotten'
  BY ZenonT(60), <1>10 DEF TakeCallback, Returned
<1>11. ASSUME NEW t \in Thread, CallbackAdds(t) PROVE CallbackNotForgotten'
  BY ZenonT(30), <1>11 DEF CallbackAdds, Exclusive
<1>12. ASSUME NEW t \in Thread, CallbackReturns(t) PROVE CallbackNotForgotten'
  BY Zenon, <1>12 DEF CallbackReturns
<1>13. ASSUME NEW t \in Thread, ResetRunning(t) PROVE CallbackNotForgotten'
  BY Zenon, <1>13 DEF ResetRunning
<1>14. ASSUME InterruptAll PROVE CallbackNotForgotten'
  BY Zenon, <1>14 DEF InterruptAll
<1>15. ASSUME JoinAll PROVE CallbackNotForgotten'
  BY Zenon, <1>15 DEF JoinAll
<1>16. ASSUME EmptyQueue PROVE CallbackNotForgotten'
  BY Zenon, <1>16 DEF EmptyQueue
<1>17. ASSUME UNCHANGED callbackVars PROVE CallbackNotForgotten'
  BY Zenon, <1>17 DEF callbackVars
<1> QED BY ZenonT(30), <1>1, <1>2, <1>3, <1>4, <1>5, <1>6, <1>7, <1>8, <1>9, <1>10, <1>11, <1>12,
           <1>13, <1>14, <1>15, <1>16, <1>17 DEF CallbackNext, CallbackStep
-----------------------------------------------------------------------------
\* The inductive invariant of the callback queue holds in every reachable state.
THEOREM CallbackInvariant == CallbackSpec => []CallbackInv
<1>1. CallbackInv /\ [CallbackNext]_callbackVars => CallbackInv'
  BY Zenon, TypeStep, ExclusiveStep, NumberedStep, SyncBoundsStep, NotForgottenStep DEF CallbackInv
<1> QED BY InitInv, <1>1, PTL DEF CallbackSpec

\* No callback and no wake-up of the scheduler is lost, for any number of threads
\* (MaybeScheduleProcessQueue and CScheduler::schedule).
THEOREM NotForgotten == CallbackSpec => []CallbackNotForgotten
BY CallbackInvariant, PTL DEF CallbackInv

\* When SyncWithValidationInterfaceQueue returns, nothing added before the call is pending.
THEOREM SyncCovers == CallbackSpec => []SyncLeavesNothingPending
<1>1. CallbackInv => SyncLeavesNothingPending
  <2> SUFFICES ASSUME CallbackInv, NEW t \in Client, NEW c \in 1 .. synced[t],
                      c \in Range(pending)
               PROVE FALSE
    BY Zenon DEF SyncLeavesNothingPending
  <2> USE DEF CallbackInv
  <2>1. PICK i \in 1 .. Len(pending) : pending[i] = c BY DEF Range, CallbackTypeOK
  <2>2. synced[t] <= count - Len(pending) BY Zenon DEF SyncBounds
  <2>3. synced[t] \in Nat /\ count \in Nat /\ Len(pending) \in Nat BY DEF CallbackTypeOK
  <2> QED BY <2>1, <2>2, <2>3 DEF Numbered
<1> QED BY <1>1, CallbackInvariant, PTL
-----------------------------------------------------------------------------
\* The set of callbacks being executed, as the refinement mapping gives it.
executing == {callback[t] : t \in Thread} \ {Nil}

\* The callback a thread takes is a callback.
LEMMA HeadNotNone ==
  ASSUME CallbackTypeOK, Numbered, pending # <<>> PROVE Head(pending) # Nil
BY SMTT(30) DEF Numbered, CallbackTypeOK

\* Every step is a step of the serial executor or changes nothing it sees.
LEMMA RefinementStep ==
  CallbackInv /\ CallbackInv' /\ [CallbackNext]_callbackVars => [Executor!Next]_(Executor!vars)
<1> SUFFICES ASSUME CallbackInv, CallbackInv', [CallbackNext]_callbackVars
             PROVE Executor!Next \/ UNCHANGED <<count, pending, executing>>
  BY Zenon DEF Executor!vars, executing
<1> USE DEF CallbackInv
<1>1. CASE UNCHANGED <<pending, callback, count>> BY Zenon, <1>1 DEF executing
<1>2. CASE Push /\ UNCHANGED callback
  BY Zenon, <1>2 DEF Push, Executor!Next, Executor!Submit, executing
<1>3. ASSUME NEW t \in Thread, TakeCallback(t), ~(running \/ pending = <<>>)
      PROVE Executor!Next
  <2>1. executing = {}
    <3>1. \A u \in Thread : pc[u] # "run" BY Zenon, <1>3 DEF Exclusive
    <3> QED BY SMTT(30), <3>1 DEF Exclusive, executing
  <2>2. /\ pending # <<>> /\ pending' = Tail(pending) /\ count' = count
        /\ callback' = [callback EXCEPT ![t] = Head(pending)]
    BY Zenon, <1>3 DEF TakeCallback
  <2>3. Head(pending) # Nil BY Zenon, <2>2, HeadNotNone
  <2>4. \A u \in Thread : callback[u] = Nil BY Zenon, <2>1 DEF executing
  <2>5. executing' = {Head(pending)}
    BY SMTT(30), <2>2, <2>3, <2>4 DEF executing, CallbackTypeOK
  <2> QED BY ZenonT(30), <2>1, <2>2, <2>5 DEF Executor!Next, Executor!Start, executing
<1>4. ASSUME NEW t \in Thread, CallbackReturns(t) PROVE Executor!Next
  <2>1. /\ pc[t] = "run" /\ callback' = [callback EXCEPT ![t] = Nil]
        /\ UNCHANGED <<pending, count>>
    BY Zenon, <1>4 DEF CallbackReturns
  <2>2. callback[t] \in executing BY Zenon, <2>1 DEF Exclusive, executing
  <2>3. \A u \in Thread : u # t => callback[u] = Nil BY Zenon, <2>1 DEF Exclusive
  <2>4. executing' = {} BY ZenonT(30), <2>1, <2>3 DEF executing, CallbackTypeOK
  <2> QED BY Zenon, <2>1, <2>2, <2>4 DEF Executor!Next, Executor!Finish, executing
<1>5. \/ UNCHANGED <<pending, callback, count>>
      \/ Push /\ UNCHANGED callback
      \/ \E t \in Thread : \/ TakeCallback(t) /\ ~(running \/ pending = <<>>)
                          \/ CallbackReturns(t)
  BY DEF CallbackNext, CallbackStep, callbackVars, AddToProcessQueue, SyncNothing,
         SyncBegin, SyncAdd, SyncReturn, MaybeScheduleProcessQueue, Schedule, NotifyOne,
         ServiceTake, ServiceWait, ServiceExit, SpuriousWakeup, TakeCallback, CallbackAdds,
         ResetRunning, InterruptAll, JoinAll, EmptyQueue
<1> QED BY Zenon, <1>1, <1>2, <1>3, <1>4, <1>5

\* However many threads service the scheduler, the callbacks are executed one at a time
\* and in the order in which they were added (SingleThreadedSchedulerClient).
THEOREM CallbacksRefineSerial == CallbackSpec => CallbacksSerial
<1>1. CallbackInit => Executor!Init
  BY DEF CallbackInit, Executor!Init
<1> QED BY <1>1, RefinementStep, CallbackInvariant, PTL
        DEF CallbackSpec, CallbacksSerial, Executor!Spec

-----------------------------------------------------------------------------
(* The memory counter of EvoDB transactions. *)
INSTANCE RecursionTheorems

KeyUsage(t, k) == WriteUsage(t, k) + (IF k \in t.deletes THEN KeySize[k] ELSE 0)
KeyUsages(t) == [k \in Key |-> KeyUsage(t, k)]

\* The counter of one transaction is exact.
Exact(t) == t.memoryUsage = SumFunction(KeyUsages(t))

\* What a transaction holds for a key takes a number of bytes.
LEMMA KeyUsageType ==
  ASSUME NEW t, IsTransaction(t), NEW k \in Key
  PROVE  KeySize[k] \in Nat /\ WriteUsage(t, k) \in Nat /\ KeyUsage(t, k) \in Nat
<1>1. KeySize[k] \in Nat BY Zenon, EvoAssumption DEF EvoAssumption
<1>2. WriteUsage(t, k) \in Nat BY <1>1, EvoAssumption DEF EvoAssumption, WriteUsage, IsTransaction
<1> QED BY <1>1, <1>2 DEF KeyUsage

\* So the counter of a transaction is a number, when it is exact, and not negative.
LEMMA ExactNat ==
  ASSUME NEW t, IsTransaction(t), Exact(t)
  PROVE  t.memoryUsage \in Nat
<1> DEFINE a == KeyUsages(t)
<1>1. a \in [Key -> Nat] BY Zenon, KeyUsageType DEF KeyUsages
<1>2. IsFiniteSet(Key) BY Zenon, EvoAssumption DEF EvoAssumption
<1> HIDE DEF a
<1>3. SumFunction(a) \in Nat BY Zenon, <1>1, <1>2, SumNat
<1> QED BY Zenon, <1>3 DEF Exact, a

\* A change of one key that the counter follows leaves it exact.
LEMMA OneKeyExact ==
  ASSUME NEW t, IsTransaction(t), Exact(t), NEW r, IsTransaction(r), NEW k \in Key,
         \A j \in Key \ {k} : KeyUsage(r, j) = KeyUsage(t, j),
         r.memoryUsage = t.memoryUsage - KeyUsage(t, k) + KeyUsage(r, k)
  PROVE  Exact(r)
<1> DEFINE a == KeyUsages(t)
           b == KeyUsages(r)
<1>1. a \in [Key -> Int] BY KeyUsageType DEF KeyUsages
<1>2. b \in [Key -> Int] BY KeyUsageType DEF KeyUsages
<1>3. \A j \in Key \ {k} : b[j] = a[j] BY Zenon DEF KeyUsages
<1>4. a[k] = KeyUsage(t, k) /\ b[k] = KeyUsage(r, k) BY Zenon DEF KeyUsages
<1>5. IsFiniteSet(Key) BY Zenon, EvoAssumption DEF EvoAssumption
<1>6. t.memoryUsage = SumFunction(a) BY Zenon DEF Exact
<1> HIDE DEF a, b
<1>7. SumFunction(b) = SumFunction(a) - a[k] + b[k] BY ZenonT(30), <1>1, <1>2, <1>3, <1>5, SumChange
<1>8. r.memoryUsage = SumFunction(b) BY Zenon, <1>4, <1>6, <1>7
<1> QED BY Zenon, <1>8 DEF Exact, b

\* What Write and Erase do to the counter, whatever it was.
LEMMA WriteCounts ==
  ASSUME NEW t, Sound(t), NEW k \in Key, NEW v \in Value, t.memoryUsage \in Int
  PROVE  /\ \A j \in Key \ {k} : KeyUsage(Write(t, k, v), j) = KeyUsage(t, j)
         /\ KeyUsage(Write(t, k, v), k) = KeySize[k] + ValueSize[v]
         /\ Write(t, k, v).memoryUsage
              = t.memoryUsage - KeyUsage(t, k) + KeyUsage(Write(t, k, v), k)
<1> DEFINE r == Write(t, k, v)
<1>1. /\ r.writes = [t.writes EXCEPT ![k] = v] /\ r.deletes = t.deletes \ {k}
      /\ r.memoryUsage = t.memoryUsage - (IF k \in t.deletes THEN KeySize[k] ELSE 0)
                         - WriteUsage(t, k) + KeySize[k] + ValueSize[v]
  BY Zenon DEF Write
<1>2. v # NoValue /\ ValueSize[v] \in Nat BY Zenon, EvoAssumption DEF EvoAssumption
<1>3. IsTransaction(t) BY Zenon DEF Sound
<1>4. KeySize[k] \in Nat /\ WriteUsage(t, k) \in Nat BY Zenon, <1>3, KeyUsageType
<1> HIDE DEF r
<1>5. r.writes[k] = v /\ k \notin r.deletes BY Zenon, <1>1, <1>3 DEF IsTransaction
<1>6. WriteUsage(r, k) = KeySize[k] + ValueSize[v] BY Zenon, <1>2, <1>5 DEF WriteUsage
<1>7. KeyUsage(r, k) = KeySize[k] + ValueSize[v] BY SMTT(20), <1>2, <1>4, <1>5, <1>6 DEF KeyUsage
<1>8. r.memoryUsage = t.memoryUsage - KeyUsage(t, k) + KeyUsage(r, k)
  BY <1>1, <1>2, <1>4, <1>7 DEF KeyUsage
<1>9. \A j \in Key \ {k} : KeyUsage(r, j) = KeyUsage(t, j)
  BY Zenon, <1>1, <1>3 DEF KeyUsage, WriteUsage, IsTransaction
<1> QED BY Zenon, <1>7, <1>8, <1>9 DEF r

\* The same for Erase.
LEMMA EraseCounts ==
  ASSUME NEW t, Sound(t), NEW k \in Key, t.memoryUsage \in Int
  PROVE  /\ \A j \in Key \ {k} : KeyUsage(Erase(t, k), j) = KeyUsage(t, j)
         /\ KeyUsage(Erase(t, k), k) = KeySize[k]
         /\ Erase(t, k).memoryUsage
              = t.memoryUsage - KeyUsage(t, k) + KeyUsage(Erase(t, k), k)
<1> DEFINE r == Erase(t, k)
<1>1. /\ r.writes = [t.writes EXCEPT ![k] = NoValue] /\ r.deletes = t.deletes \cup {k}
      /\ r.memoryUsage = t.memoryUsage - WriteUsage(t, k)
                         + (IF k \in t.deletes THEN 0 ELSE KeySize[k])
  BY Zenon DEF Erase
<1>2. IsTransaction(t) BY Zenon DEF Sound
<1>3. KeySize[k] \in Nat /\ WriteUsage(t, k) \in Nat BY Zenon, <1>2, KeyUsageType
<1> HIDE DEF r
<1>4. r.writes[k] = NoValue /\ k \in r.deletes BY Zenon, <1>1, <1>2 DEF IsTransaction
<1>5. KeyUsage(r, k) = KeySize[k] BY <1>3, <1>4 DEF KeyUsage, WriteUsage
<1>6. r.memoryUsage = t.memoryUsage - KeyUsage(t, k) + KeyUsage(r, k)
  BY <1>1, <1>3, <1>5 DEF KeyUsage
<1>7. \A j \in Key \ {k} : KeyUsage(r, j) = KeyUsage(t, j)
  BY Zenon, <1>1, <1>2 DEF KeyUsage, WriteUsage, IsTransaction
<1> QED BY Zenon, <1>5, <1>6, <1>7 DEF r

\* Commit: the changes of all keys add up.
LEMMA CommitExact ==
  ASSUME NEW t, Sound(t), NEW target, Sound(target), Exact(target)
  PROVE  Exact(Commit(t, target))
<1> DEFINE r == Commit(t, target)
           a == KeyUsages(target)
           b == KeyUsages(r)
           d == [k \in Key |-> CommitKey(t, target, k).memoryUsage - target.memoryUsage]
<1>1. IsTransaction(target) /\ IsTransaction(t) /\ IsTransaction(r)
  BY Zenon, CommitCommits DEF Committed, Sound
<1>2. target.memoryUsage \in Int BY <1>1, ExactNat
<1>3. ASSUME NEW k \in Key
      PROVE  /\ KeyUsage(r, k) = KeyUsage(CommitKey(t, target, k), k)
             /\ CommitKey(t, target, k).memoryUsage
                  = target.memoryUsage - KeyUsage(target, k) + KeyUsage(CommitKey(t, target, k), k)
             /\ KeyUsage(target, k) \in Int /\ KeyUsage(r, k) \in Int
  <2>1. r.writes[k] = CommitKey(t, target, k).writes[k] /\ (k \in r.deletes <=> k \in CommitKey(t, target, k).deletes)
    BY Zenon DEF Commit
  <2>2. KeyUsage(r, k) = KeyUsage(CommitKey(t, target, k), k)
    BY Zenon, <2>1 DEF KeyUsage, WriteUsage
  <2>3. KeyUsage(target, k) \in Int /\ KeyUsage(r, k) \in Int BY <1>1, KeyUsageType
  <2>4. CASE t.writes[k] # NoValue
    <3>1. t.writes[k] \in Value BY Zenon, <1>1, <2>4 DEF IsTransaction
    <3>2. CommitKey(t, target, k) = Write(target, k, t.writes[k]) BY Zenon, <2>4 DEF CommitKey
    <3> QED BY <1>2, <2>2, <2>3, <3>1, <3>2, WriteCounts
  <2>5. CASE t.writes[k] = NoValue /\ k \in t.deletes
    <3>1. CommitKey(t, target, k) = Erase(target, k) BY Zenon, <2>5 DEF CommitKey
    <3> QED BY ZenonT(30), <1>2, <2>2, <2>3, <3>1, EraseCounts
  <2>6. CASE t.writes[k] = NoValue /\ k \notin t.deletes
    <3>1. CommitKey(t, target, k) = target BY Zenon, <2>6 DEF CommitKey
    <3>2. target.memoryUsage = target.memoryUsage - KeyUsage(target, k) + KeyUsage(target, k)
      BY <1>2, <2>3
    <3> QED BY Zenon, <2>2, <2>3, <3>1, <3>2
  <2> QED BY Zenon, <2>4, <2>5, <2>6
<1>4. a \in [Key -> Int] BY Zenon, <1>3 DEF KeyUsages
<1>5. b \in [Key -> Int] BY Zenon, <1>3 DEF KeyUsages
<1>6. \A k \in Key : d[k] = b[k] - a[k] BY <1>2, <1>3 DEF KeyUsages
<1>7. d \in [Key -> Int]
  <2>1. \A k \in Key : b[k] - a[k] \in Int BY <1>4, <1>5
  <2>2. \A k \in Key : d[k] \in Int BY Zenon, <1>6, <2>1
  <2>3. d = [k \in Key |-> d[k]] BY Zenon
  <2> HIDE DEF d
  <2> QED BY Zenon, <2>2, <2>3
<1>8. r.memoryUsage = target.memoryUsage + SumFunction(d) BY Zenon DEF Commit
<1>9. target.memoryUsage = SumFunction(a) BY Zenon DEF Exact
<1>10. IsFiniteSet(Key) BY Zenon, EvoAssumption DEF EvoAssumption
<1> HIDE DEF a, b, d, r
<1>11. \A k \in Key : b[k] = a[k] + d[k] BY <1>4, <1>5, <1>6
<1>12. SumFunction(b) = SumFunction(a) + SumFunction(d) BY <1>4, <1>5, <1>7, <1>10, <1>11, SumAdd
<1>13. r.memoryUsage = SumFunction(b) BY Zenon, <1>8, <1>9, <1>12
<1> QED BY Zenon, <1>13 DEF Exact, b, r

\* A new transaction takes nothing.
LEMMA NewTransactionExact == Exact(NewTransaction)
<1> DEFINE zero == [k \in Key |-> 0]
<1>1. IsFiniteSet(Key) BY Zenon, EvoAssumption DEF EvoAssumption
<1>2. SumFunction(zero) = 0 BY Zenon, <1>1, SumZero
<1>3. KeyUsages(NewTransaction) = zero BY DEF KeyUsages, KeyUsage, WriteUsage, NewTransaction
<1> HIDE DEF zero
<1> QED BY Zenon, <1>2, <1>3 DEF Exact, NewTransaction

\* CDBTransaction's memoryUsage, from which FlushStateToDisk decides when to flush, is in
\* every reachable state what the transaction holds, and so never negative.
THEOREM MemoryUsageExact ==
  Spec => [](MemoryUsageIsSum /\ root.memoryUsage \in Nat /\ cur.memoryUsage \in Nat)
<1> DEFINE Both == Exact(root) /\ Exact(cur)
<1>1. Init => Both BY Zenon, NewTransactionExact DEF Init
<1>2. ASSUME EvoInv, Both, [Next]_vars PROVE Both'
  <2>1. Sound(root) /\ Sound(cur) /\ IsTransaction(root) /\ IsTransaction(cur)
    BY Zenon, <1>2, EvoInvParts DEF Sound
  <2>2. root.memoryUsage \in Int /\ cur.memoryUsage \in Int BY <1>2, <2>1, ExactNat
  <2>3. ASSUME Exact(root'), Exact(cur') PROVE Both'
    BY Zenon, <2>3 DEF Exact, KeyUsages, KeyUsage, WriteUsage
  <2>4. CASE UNCHANGED vars BY ZenonT(30), <1>2, <2>3, <2>4 DEF vars
  <2>5. ASSUME NEW k \in Key, DoErase(k) PROVE Both'
    <3>1. Sound(Erase(cur, k))
      <4>1. db \in Map BY Zenon, <1>2, EvoInvParts
      <4> QED BY ZenonT(30), <2>1, <4>1, EraseShows
    <3>2. Exact(Erase(cur, k))
      <4>1. IsTransaction(Erase(cur, k)) BY Zenon, <3>1 DEF Sound
      <4>2. /\ \A j \in Key \ {k} : KeyUsage(Erase(cur, k), j) = KeyUsage(cur, j)
            /\ Erase(cur, k).memoryUsage
                 = cur.memoryUsage - KeyUsage(cur, k) + KeyUsage(Erase(cur, k), k)
        BY Zenon, <2>1, <2>2, EraseCounts
      <4> QED BY ZenonT(30), <1>2, <2>1, <4>1, <4>2, OneKeyExact
    <3> QED BY ZenonT(30), <1>2, <2>3, <2>5, <3>2 DEF DoErase
  <2>6. ASSUME NEW k \in Key, NEW v \in Value, DoWrite(k, v) PROVE Both'
    <3>1. Sound(Write(cur, k, v))
      <4>1. db \in Map BY Zenon, <1>2, EvoInvParts
      <4> QED BY Zenon, <2>1, <4>1, WriteShows
    <3>2. Exact(Write(cur, k, v))
      <4>1. IsTransaction(Write(cur, k, v)) BY Zenon, <3>1 DEF Sound
      <4>2. /\ \A j \in Key \ {k} : KeyUsage(Write(cur, k, v), j) = KeyUsage(cur, j)
            /\ Write(cur, k, v).memoryUsage
                 = cur.memoryUsage - KeyUsage(cur, k) + KeyUsage(Write(cur, k, v), k)
        BY ZenonT(30), <2>1, <2>2, WriteCounts
      <4> QED BY ZenonT(30), <1>2, <2>1, <4>1, <4>2, OneKeyExact
    <3> QED BY ZenonT(30), <1>2, <2>3, <2>6, <3>2 DEF DoWrite
  <2>7. CASE BeginTransaction BY ZenonT(30), <1>2, <2>3, <2>7 DEF BeginTransaction
  <2>8. CASE CommitCurTransaction
    <3>1. Exact(Commit(cur, root)) BY ZenonT(30), <1>2, <2>1, CommitExact
    <3> QED BY ZenonT(30), <2>3, <2>8, <3>1, NewTransactionExact DEF CommitCurTransaction
  <2>9. CASE EndTransaction BY ZenonT(30), <1>2, <2>3, <2>9, NewTransactionExact DEF EndTransaction
  <2>10. CASE CommitRootTransaction
    BY ZenonT(30), <1>2, <2>3, <2>10, NewTransactionExact DEF CommitRootTransaction
  <2>11. CASE WriteBatch \/ WriteBatchFails
    BY ZenonT(30), <1>2, <2>3, <2>11 DEF WriteBatch, WriteBatchFails
  <2>12. CASE Crash BY ZenonT(30), <2>3, <2>12, NewTransactionExact DEF Crash
  <2> HIDE DEF Both
  <2> QED BY ZenonT(30), <1>2, <2>4, <2>5, <2>6, <2>7, <2>8, <2>9, <2>10, <2>11, <2>12 DEF Next
<1>3. EvoInv /\ Both => MemoryUsageIsSum /\ root.memoryUsage \in Nat /\ cur.memoryUsage \in Nat
  <2> SUFFICES ASSUME EvoInv, Exact(root), Exact(cur)
               PROVE  MemoryUsageIsSum /\ root.memoryUsage \in Nat /\ cur.memoryUsage \in Nat
    BY Zenon
  <2>1. IsTransaction(root) /\ IsTransaction(cur) BY Zenon, EvoInvParts DEF Sound
  <2>2. root.memoryUsage \in Nat /\ cur.memoryUsage \in Nat BY Zenon, <2>1, ExactNat
  <2>3. MemoryUsageIsSum BY Zenon DEF MemoryUsageIsSum, Exact, KeyUsages, KeyUsage
  <2> QED BY Zenon, <2>2, <2>3
<1>4. EvoInv /\ Both /\ [Next]_vars => Both' BY Zenon, <1>2
<1> QED BY <1>1, <1>3, <1>4, Invariance, PTL DEF Spec

-----------------------------------------------------------------------------
(* MNManager: the inductive invariant. *)

\* A map of lists or diffs that holds, for each block, nothing or the block's own.
Right(f, S) == f \in [S -> S \cup {None}] /\ \A b \in S : f[b] \in {None, b}

\* A transaction, a batch or a database with nothing wrong in it.
Transaction(t) ==
  /\ t = [snapshot |-> t.snapshot, diff |-> t.diff, best |-> t.best]
  /\ Right(t.snapshot, Node) /\ Right(t.diff, Block) /\ t.best \in Node \cup {None}

Stored(d, b) == b \in Node /\ (b \in Block => d.diff[b] # None)

\* A database with the diff of its best block, and those of all ancestors of a
\* block whose diff it has.
Closed(d) ==
  /\ Transaction(d) /\ Stored(d, d.best)
  /\ \A b \in Block : d.diff[b] # None => \A i \in 1..Depth(b) : d.diff[At(b, i)] # None

\* The caches, the transactions and the databases hold nothing wrong.  What a read
\* sees, what is on disk and what the disk will hold are closed.  Anything not on
\* disk yet goes with the tip, and when the database is at the tip, the chains that
\* end in the manager's tip and in the tips to come are on the way to the disk.
ManagerInv ==
  /\ tip \in Node /\ tipIndex \in Node \cup {None} /\ tipQueue \in Seq(Block)
  /\ Right(mnListsCache, Node) /\ Right(mnListDiffsCache, Block)
  /\ Transaction(evoRoot) /\ Transaction(evoBatch)
  /\ disk = [evoDb |-> disk.evoDb, tip |-> disk.tip] /\ disk.tip \in Node
  /\ Closed(disk.evoDb) /\ Closed(EvoDb) /\ Closed(Whole)
  /\ evoRoot.best # None \/ evoBatch.best # None => Whole.best = tip
  /\ Whole.best = tip =>
       /\ tipIndex # None => Stored(Whole, tipIndex)
       /\ \A i \in 1..Len(tipQueue) : Stored(Whole, tipQueue[i])

-----------------------------------------------------------------------------
(* The block tree *)

\* Walking down from a block passes one block per depth, and the path of each of them
\* is a part of it.
LEMMA PathFacts ==
  ASSUME NEW b \in Block
  PROVE  /\ Depth(b) \in Nat \ {0} /\ At(b, Depth(b)) = b
         /\ \A i \in 1..Depth(b) : At(b, i) \in Block /\ Depth(At(b, i)) = i
         /\ \A i \in 1..Depth(b) : \A j \in 1..i : At(At(b, i), j) = At(b, j)
<1>1. b # Root BY Zenon, ManagerAssumption
<1>2. Path[b] \in Seq(Block) /\ Len(Path[b]) > 0 /\ Path[b][Len(Path[b])] = b
  BY Zenon, PathAssumption
<1>3. Depth(b) = Len(Path[b]) /\ Depth(b) \in Nat \ {0} BY <1>1, <1>2 DEF Depth
<1>4. At(b, Depth(b)) = b BY Zenon, <1>2, <1>3 DEF At
<1>5. ASSUME NEW i \in 1..Depth(b)
      PROVE  /\ At(b, i) \in Block /\ Depth(At(b, i)) = i
             /\ \A j \in 1..i : At(At(b, i), j) = At(b, j)
  <2>1. At(b, i) = Path[b][i] /\ At(b, i) \in Block BY <1>2, <1>3, <1>5 DEF At
  <2>2. Path[At(b, i)] = SubSeq(Path[b], 1, i) BY <1>3, <1>5, <2>1, PathAssumption
  <2>3. Len(SubSeq(Path[b], 1, i)) = i /\ \A j \in 1..i : SubSeq(Path[b], 1, i)[j] = Path[b][j]
    BY <1>2, <1>3, <1>5
  <2>4. At(b, i) # Root BY Zenon, <2>1, ManagerAssumption
  <2> QED BY ZenonT(30), <2>1, <2>2, <2>3, <2>4 DEF At, Depth
<1> QED BY ZenonT(30), <1>3, <1>4, <1>5

\* The same for the root.
LEMMA NodeFacts ==
  ASSUME NEW b \in Node
  PROVE  /\ Depth(b) \in Nat /\ At(b, Depth(b)) = b
         /\ \A i \in 0..Depth(b) : At(b, i) \in Node
         /\ \A i \in 1..Depth(b) : At(b, i) \in Block
<1>1. CASE b = Root BY <1>1, ManagerAssumption DEF Depth, At, Node
<1>2. CASE b \in Block BY <1>2, PathFacts DEF At, Node
<1> QED BY Zenon, <1>1, <1>2 DEF Node

\* The path of the parent is the path of the block without its last step.
LEMMA ParentFacts ==
  ASSUME NEW b \in Block
  PROVE  /\ Parent(b) \in Node /\ Depth(Parent(b)) = Depth(b) - 1
         /\ \A i \in 1..(Depth(b) - 1) : At(Parent(b), i) = At(b, i)
<1>1. CASE Depth(b) = 1
  <2>1. Parent(b) = Root BY <1>1 DEF Parent, At
  <2>2. Depth(Root) = 0 /\ Root \in Node BY Zenon DEF Depth, Node
  <2> QED BY <1>1, <2>1, <2>2
<1>2. CASE Depth(b) # 1
  <2>1. Depth(b) - 1 \in 1..Depth(b) BY <1>2, PathFacts
  <2> QED BY Zenon, <2>1, PathFacts DEF Parent, Node
<1> QED BY Zenon, <1>1, <1>2

-----------------------------------------------------------------------------
(* One transaction over another *)

\* A transaction over a right one is right.
LEMMA OverRight ==
  ASSUME NEW t, NEW d, Transaction(t), Transaction(d)
  PROVE  Transaction(Over(t, d))
<1> DEFINE o == Over(t, d)
<1>1. o = [snapshot |-> o.snapshot, diff |-> o.diff, best |-> o.best] BY Zenon DEF Over
<1>2. /\ o.snapshot = [b \in Node |-> First(t.snapshot[b], d.snapshot[b])]
      /\ o.diff = [b \in Block |-> First(t.diff[b], d.diff[b])]
      /\ o.best = First(t.best, d.best)
  BY Zenon DEF Over
<1> HIDE DEF o
<1>3. Right(o.snapshot, Node)
  <2>1. \A b \in Node : t.snapshot[b] \in {None, b} /\ d.snapshot[b] \in {None, b}
    BY Zenon DEF Transaction, Right
  <2>2. \A b \in Node : First(t.snapshot[b], d.snapshot[b]) \in {None, b} BY Zenon, <2>1 DEF First
  <2> QED BY Zenon, <1>2, <2>2 DEF Right
<1>4. Right(o.diff, Block)
  <2>1. \A b \in Block : t.diff[b] \in {None, b} /\ d.diff[b] \in {None, b} BY Zenon DEF Transaction, Right
  <2>2. \A b \in Block : First(t.diff[b], d.diff[b]) \in {None, b} BY Zenon, <2>1 DEF First
  <2> QED BY Zenon, <1>2, <2>2 DEF Right
<1>5. o.best \in Node \cup {None} BY Zenon, <1>2 DEF Transaction, First
<1> QED BY Zenon, <1>1, <1>3, <1>4, <1>5 DEF Transaction, o

\* An empty transaction shows what is under it.
LEMMA OverNothing ==
  ASSUME NEW d, Transaction(d)
  PROVE  Over(Nothing, d) = d /\ Transaction(Nothing)
<1>1. /\ Nothing.best = None /\ \A b \in Node : Nothing.snapshot[b] = None
      /\ \A b \in Block : Nothing.diff[b] = None
  BY Zenon DEF Nothing, NoLists, NoDiffs
<1>2. [b \in Node |-> First(Nothing.snapshot[b], d.snapshot[b])] = d.snapshot
  BY Zenon, <1>1 DEF First, Transaction, Right
<1>3. [b \in Block |-> First(Nothing.diff[b], d.diff[b])] = d.diff
  BY Zenon, <1>1 DEF First, Transaction, Right
<1>4. First(Nothing.best, d.best) = d.best BY Zenon, <1>1 DEF First
<1>5. Over(Nothing, d) = d BY Zenon, <1>2, <1>3, <1>4 DEF Over, Transaction
<1>6. Right(NoLists, Node) /\ Right(NoDiffs, Block) BY Zenon DEF Right, NoLists, NoDiffs
<1>7. Transaction(Nothing) BY Zenon, <1>6 DEF Transaction, Nothing
<1> QED BY Zenon, <1>5, <1>7

\* Handing the root transaction to the batch changes nothing of what the disk will hold.
LEMMA OverAssociative ==
  ASSUME NEW r, NEW t, NEW d
  PROVE  Over(Over(r, t), d) = Over(r, Over(t, d))
<1>0. \A x, y, z : First(First(x, y), z) = First(x, First(y, z)) BY Zenon DEF First
<1>1. [b \in Node |-> First(Over(r, t).snapshot[b], d.snapshot[b])]
      = [b \in Node |-> First(r.snapshot[b], Over(t, d).snapshot[b])]
  BY SMT, <1>0 DEF Over
<1>2. [b \in Block |-> First(Over(r, t).diff[b], d.diff[b])]
      = [b \in Block |-> First(r.diff[b], Over(t, d).diff[b])]
  BY SMT, <1>0 DEF Over
<1>3. First(Over(r, t).best, d.best) = First(r.best, Over(t, d).best)
  BY SMT, <1>0 DEF Over
<1>4. ASSUME NEW x, NEW y
      PROVE  Over(x, y) = [snapshot |-> [b \in Node |-> First(x.snapshot[b], y.snapshot[b])],
                           diff |-> [b \in Block |-> First(x.diff[b], y.diff[b])],
                           best |-> First(x.best, y.best)]
  BY Zenon DEF Over
<1> QED BY Zenon, <1>1, <1>2, <1>3, <1>4

\* The blocks of the chain of a stored block are stored.
LEMMA ChainStored ==
  ASSUME NEW d, Closed(d), NEW b, Stored(d, b)
  PROVE  /\ \A c \in Chain(b) : c \in Block /\ Stored(d, c)
         /\ b \in Block => Stored(d, Parent(b))
<1>1. ASSUME NEW c \in Chain(b) PROVE c \in Block /\ Stored(d, c)
  <2>1. PICK i \in 1..Depth(b) : c = At(b, i) BY Zenon, <1>1 DEF Chain
  <2>2. b \in Block BY SMTT(30), <2>1 DEF Stored, Node, Depth
  <2>3. c \in Block BY Zenon, <2>1, <2>2, PathFacts
  <2>4. d.diff[c] # None BY Zenon, <2>1, <2>2 DEF Stored, Closed
  <2> QED BY Zenon, <2>3, <2>4 DEF Stored, Node
<1>2. ASSUME b \in Block PROVE Stored(d, Parent(b))
  <2>1. Parent(b) \in Node BY ZenonT(30), <1>2, ParentFacts
  <2>2. ASSUME Parent(b) \in Block PROVE d.diff[Parent(b)] # None
    <3>1. Depth(b) - 1 \in 1..Depth(b)
      <4>1. Depth(b) \in Nat \ {0} /\ Depth(Parent(b)) = Depth(b) - 1
        BY ZenonT(30), <1>2, PathFacts, ParentFacts
      <4>2. Depth(Parent(b)) \in Nat \ {0} BY Zenon, <2>2, PathFacts
      <4> QED BY SMTT(30), <4>1, <4>2
    <3> QED BY ZenonT(30), <1>2, <3>1 DEF Stored, Closed, Parent
  <2> QED BY Zenon, <2>1, <2>2 DEF Stored
<1> QED BY Zenon, <1>1, <1>2

\* Writing the diff of a block whose parent is stored keeps a database closed.
LEMMA WriteRight ==
  ASSUME NEW t, NEW u, NEW d, Transaction(t), Transaction(u), Transaction(d),
         NEW b \in Block, Closed(Over(t, d)), Stored(Over(t, d), Parent(b)),
         u.best = b, u.diff = [t.diff EXCEPT ![b] = b]
  PROVE  /\ Closed(Over(u, d)) /\ Over(u, d).best = b
         /\ \A c : Stored(Over(t, d), c) => Stored(Over(u, d), c)
<1> DEFINE o == Over(t, d)
           n == Over(u, d)
           p == Parent(b)
<1>0. Transaction(n) /\ Closed(o) /\ Stored(o, p) BY Zenon, OverRight
<1>1. /\ \A c \in Block : n.diff[c] = First(u.diff[c], d.diff[c])
      /\ \A c \in Block : o.diff[c] = First(t.diff[c], d.diff[c])
      /\ n.best = First(u.best, d.best)
  BY Zenon DEF Over
<1> HIDE DEF o, n
<1>2. b # None /\ b \in Node BY Zenon, ManagerAssumption DEF Node
<1>3. n.best = b BY Zenon, <1>1, <1>2 DEF First
<1>4. n.diff[b] # None BY ZenonT(30), <1>1, <1>2 DEF Transaction, Right, First
<1>5. \A c \in Block : c # b => n.diff[c] = o.diff[c]
  <2>1. \A c \in Block : c # b => u.diff[c] = t.diff[c] BY Zenon DEF Transaction, Right
  <2> QED BY SMT, <1>1, <2>1
<1>6. \A c \in Block : o.diff[c] # None => n.diff[c] # None BY ZenonT(30), <1>4, <1>5
<1>7. ASSUME NEW c \in Block, n.diff[c] # None, NEW i \in 1..Depth(c)
      PROVE  n.diff[At(c, i)] # None
  <2>1. At(c, i) \in Block BY Zenon, PathFacts
  <2>2. CASE o.diff[c] # None BY ZenonT(30), <1>0, <1>6, <2>1, <2>2 DEF Closed
  <2>3. CASE o.diff[c] = None
    <3>1. c = b BY ZenonT(30), <1>5, <1>7, <2>3
    <3>2. CASE i = Depth(b) BY ZenonT(30), <1>4, <3>1, <3>2, PathFacts
    <3>3. CASE i # Depth(b)
      <4>1. i \in 1..(Depth(b) - 1) BY <3>1, <3>3, PathFacts
      <4>2. At(b, i) = At(p, i) /\ i \in 1..Depth(p) BY Zenon, <4>1, ParentFacts
      <4>3. At(p, i) \in Chain(p) BY Zenon, <4>2 DEF Chain
      <4>4. o.diff[At(p, i)] # None
        <5> HIDE DEF p
        <5>1. At(p, i) \in Block /\ Stored(o, At(p, i)) BY Zenon, <1>0, <4>3, ChainStored
        <5> QED BY Zenon, <5>1 DEF Stored
      <4> QED BY ZenonT(30), <1>6, <2>1, <3>1, <4>2, <4>4
    <3> QED BY ZenonT(30), <3>2, <3>3
  <2> QED BY ZenonT(30), <2>2, <2>3
<1>8. Closed(n) BY ZenonT(30), <1>0, <1>2, <1>3, <1>4, <1>7 DEF Closed, Stored
<1>9. \A c : Stored(o, c) => Stored(n, c) BY Zenon, <1>6 DEF Stored
<1> QED BY ZenonT(30), <1>3, <1>8, <1>9 DEF o, n

\* Writing only the best block, which is stored, keeps a database closed.
LEMMA StepBackRight ==
  ASSUME NEW t, NEW u, NEW d, Transaction(t), Transaction(u), Transaction(d),
         Closed(Over(t, d)), NEW b, Stored(Over(t, d), b), u.best = b, u.diff = t.diff
  PROVE  /\ Closed(Over(u, d)) /\ Over(u, d).best = b
         /\ \A c : Stored(Over(t, d), c) => Stored(Over(u, d), c)
<1>1. Over(u, d).diff = Over(t, d).diff BY Zenon DEF Over
<1>2. b # None BY Zenon, ManagerAssumption DEF Stored, Node
<1>3. Over(u, d).best = b BY Zenon, <1>2 DEF Over, First
<1>4. Transaction(Over(u, d)) BY Zenon, OverRight
<1> QED BY Zenon, <1>1, <1>3, <1>4 DEF Closed, Stored

-----------------------------------------------------------------------------
(* The walk *)

\* Every map the walk reads holds nothing or the block's own entry.
LEMMA SourcesRight ==
  ASSUME NEW d, Right(d.snapshot, Node), Right(d.diff, Block),
         NEW lists, NEW diffs, Right(lists, Node), Right(diffs, Block)
  PROVE  /\ \A b \in Node : Snapshot(d, lists, b) \in {None, b}
         /\ Snapshot(d, lists, Root) = Root
         /\ \A b \in Block : Diff(d, diffs, b) \in {None, b}
         /\ \A b \in Block : d.diff[b] # None => Diff(d, diffs, b) = b
<1>1. Root \in Node /\ Root # None BY Zenon, ManagerAssumption DEF Node
<1>2. ASSUME NEW b \in Node PROVE Snapshot(d, lists, b) \in {None, b}
  BY Zenon DEF Snapshot, Right
<1>3. Snapshot(d, lists, Root) = Root
  BY Zenon, <1>1 DEF Snapshot, Right
<1>4. ASSUME NEW b \in Block
      PROVE  Diff(d, diffs, b) \in {None, b} /\ (d.diff[b] # None => Diff(d, diffs, b) = b)
  BY Zenon DEF Diff, First, Right
<1> QED BY Zenon, <1>2, <1>3, <1>4

\* The walk stops, at the latest before the activation.
LEMMA BaseExists ==
  ASSUME NEW d, Right(d.snapshot, Node), Right(d.diff, Block),
         NEW lists, NEW diffs, Right(lists, Node), Right(diffs, Block), NEW b \in Node
  PROVE  /\ Base(d, lists, diffs, b) \in 0..Depth(b)
         /\ StopsAt(d, lists, diffs, At(b, Base(d, lists, diffs, b)))
         /\ \A j \in (Base(d, lists, diffs, b) + 1)..Depth(b) : ~StopsAt(d, lists, diffs, At(b, j))
<1> DEFINE Stop(i) == StopsAt(d, lists, diffs, At(b, i))
           S == {i \in 0..Depth(b) : Stop(i)}
<1>1. Depth(b) \in Nat BY Zenon, NodeFacts
<1>2. 0 \in S
  <2>1. At(b, 0) = Root BY Zenon DEF At
  <2>2. Stop(0) BY Zenon, <2>1, SourcesRight, ManagerAssumption DEF StopsAt, Node
  <2> QED BY <1>1, <2>2
<1>3. \E i \in S : \A j \in S : j <= i
  <2>1. S \subseteq 0..Depth(b) /\ S # {} BY Zenon, <1>2
  <2> HIDE DEF S
  <2> QED BY ZenonT(30), <1>1, <2>1, GreatestExists
<1> DEFINE base == Base(d, lists, diffs, b)
<1>4. base \in S /\ \A j \in S : j <= base
  <2>1. base = CHOOSE i \in S : \A j \in S : j <= i BY Zenon DEF Base
  <2> HIDE DEF S, base
  <2> QED BY Zenon, <1>3, <2>1
<1>5. base \in 0..Depth(b) /\ Stop(base) BY Zenon, <1>4
<1>6. \A j \in (base + 1)..Depth(b) : ~Stop(j)
  <2> HIDE DEF base
  <2>1. TAKE j \in (base + 1)..Depth(b)
  <2>2. j \in 0..Depth(b) /\ ~(j <= base) BY <1>1, <1>5, <2>1
  <2> QED BY ZenonT(30), <1>4, <2>2
<1> QED BY Zenon, <1>5, <1>6

\* A lookup on a database with nothing wrong in it returns the block's list or throws,
\* whatever is missing, and leaves nothing wrong in the caches.
LEMMA GetSafe ==
  ASSUME NEW d, Right(d.snapshot, Node), Right(d.diff, Block),
         NEW lists, NEW diffs, Right(lists, Node), Right(diffs, Block), NEW b \in Node
  PROVE  /\ Get(d, lists, diffs, b).list \in {None, b}
         /\ Right(Get(d, lists, diffs, b).lists, Node)
         /\ Right(Get(d, lists, diffs, b).diffs, Block)
<1> DEFINE i == Base(d, lists, diffs, b)
           x == At(b, i)
           s == Snapshot(d, lists, x)
           found == ListFrom(d, lists, diffs, b, i)
           read == Emplace(lists, x, s)
           walked == [y \in Block |-> IF \E j \in (i + 1)..Depth(b) : At(b, j) = y
                                        THEN Diff(d, diffs, y) ELSE diffs[y]]
<1>1. CASE b = Root
  <2>1. Get(d, lists, diffs, b) = [list |-> Root, lists |-> lists, diffs |-> diffs]
    BY Zenon, <1>1 DEF Get
  <2> QED BY <1>1, <2>1
<1>2. CASE b # Root
  <2>1. /\ i \in 0..Depth(b)
        /\ \A j \in (i + 1)..Depth(b) : ~StopsAt(d, lists, diffs, At(b, j))
    BY Zenon, BaseExists
  <2>2. x \in Node BY ZenonT(30), <2>1, NodeFacts
  <2>3. s \in {None, x} BY Zenon, <2>2, SourcesRight
  <2>4. \A j \in (i + 1)..Depth(b) : Diff(d, diffs, At(b, j)) = At(b, j)
    <3>1. TAKE j \in (i + 1)..Depth(b)
    <3>2. j \in 1..Depth(b) BY <2>1, NodeFacts
    <3>3. At(b, j) \in Block BY Zenon, <3>2, NodeFacts
    <3>4. Diff(d, diffs, At(b, j)) # None BY Zenon, <2>1, <3>1 DEF StopsAt
    <3>5. Diff(d, diffs, At(b, j)) \in {None, At(b, j)} BY ZenonT(30), <3>3, SourcesRight
    <3> QED BY Zenon, <3>4, <3>5
  <2>5. found \in {None, b}
    <3>1. i = Depth(b) => x = b BY ZenonT(30), NodeFacts
    <3>2. found = IF i = Depth(b) \/ s = None THEN s
                  ELSE IF s = x /\ \A j \in (i + 1)..Depth(b) : Diff(d, diffs, At(b, j)) = At(b, j)
                    THEN b ELSE Wrong
      BY Zenon DEF ListFrom
    <3> HIDE DEF found, s, x, i
    <3> QED BY ZenonT(30), <2>3, <2>4, <3>1, <3>2
  <2>6. Right(read, Node) BY Zenon, <2>2, <2>3 DEF Emplace, Right
  <2>7. Right(Emplace(read, b, found), Node)
    <3> HIDE DEF read, found
    <3> QED BY ZenonT(30), <2>5, <2>6 DEF Emplace, Right
  <2>8. Right(walked, Block)
    <3>1. \A y \in Block : walked[y] \in {None, y} BY Zenon, SourcesRight DEF Right
    <3> QED BY ZenonT(30), <3>1 DEF Right
  <2>9. /\ Get(d, lists, diffs, b).list = found
        /\ Get(d, lists, diffs, b).lists \in {read, Emplace(read, b, found)}
        /\ Get(d, lists, diffs, b).diffs = walked
    BY Zenon, <1>2 DEF Get
  <2> HIDE DEF read, found, walked
  <2> QED BY ZenonT(30), <2>5, <2>6, <2>7, <2>8, <2>9
<1> QED BY ZenonT(30), <1>1, <1>2

\* On a closed database the lookup of a stored block finds its list.
LEMMA GetFinds ==
  ASSUME NEW d, Closed(d), NEW lists, NEW diffs, Right(lists, Node), Right(diffs, Block),
         NEW b, Stored(d, b)
  PROVE  Get(d, lists, diffs, b).list = b
<1> DEFINE i == Base(d, lists, diffs, b)
           x == At(b, i)
<1>0. b \in Node /\ Right(d.snapshot, Node) /\ Right(d.diff, Block)
  BY Zenon DEF Stored, Closed, Transaction
<1>1. CASE b = Root BY Zenon, <1>1 DEF Get
<1>2. CASE b # Root
  <2>1. b \in Block /\ d.diff[b] # None BY Zenon, <1>0, <1>2 DEF Stored, Node
  <2>2. i \in 0..Depth(b) /\ StopsAt(d, lists, diffs, x) BY Zenon, <1>0, BaseExists
  <2>3. x \in Node /\ x # None
    BY ZenonT(30), <1>0, <2>2, NodeFacts, ManagerAssumption DEF Node
  <2>4. Snapshot(d, lists, x) # None
    <3>1. CASE i = 0 BY ZenonT(30), <1>0, <2>3, <3>1, SourcesRight DEF At
    <3>2. CASE i # 0
      <4>1. i \in 1..Depth(b) BY <2>2, <3>2, NodeFacts, <1>0
      <4>2. x \in Block /\ d.diff[x] # None
        <5>1. x \in Chain(b) BY Zenon, <4>1 DEF Chain
        <5>2. x \in Block /\ Stored(d, x)
          <6> HIDE DEF x
          <6> QED BY Zenon, <5>1, ChainStored
        <5> QED BY Zenon, <5>2 DEF Stored
      <4>3. Diff(d, diffs, x) # None
        <5> HIDE DEF x
        <5> QED BY ZenonT(30), <1>0, <2>3, <4>2, SourcesRight
      <4> QED BY ZenonT(30), <2>2, <4>3 DEF StopsAt
    <3> QED BY ZenonT(30), <3>1, <3>2
  <2>5. Get(d, lists, diffs, b).list # None
    <3>1. Get(d, lists, diffs, b).list = ListFrom(d, lists, diffs, b, i) BY Zenon, <1>2 DEF Get
    <3>2. b # None /\ Wrong # None BY Zenon, <2>1, ManagerAssumption
    <3>3. ListFrom(d, lists, diffs, b, i) # None
      BY ZenonT(30), <2>4, <3>2 DEF ListFrom
    <3> QED BY Zenon, <3>1, <3>3
  <2> QED BY ZenonT(30), <1>0, <2>5, GetSafe
<1> QED BY ZenonT(30), <1>1, <1>2

-----------------------------------------------------------------------------
(* The invariant is inductive *)

\* The invariant holds of empty caches and databases.
LEMMA FreshRight ==
  /\ Right(NoLists, Node) /\ Right(NoDiffs, Block) /\ Closed(Fresh) /\ Fresh.best = Root
  /\ Over(Nothing, Fresh) = Fresh /\ Transaction(Nothing) /\ Nothing.best = None
<1>1. Right(NoLists, Node) /\ Right(NoDiffs, Block) BY Zenon DEF Right, NoLists, NoDiffs
<1>2. Root \in Node /\ Root \notin Block BY Zenon, ManagerAssumption DEF Node
<1>3. Fresh = [snapshot |-> NoLists, diff |-> NoDiffs, best |-> Root] BY DEF Fresh, Nothing
<1>4. Transaction(Fresh) BY Zenon, <1>1, <1>2, <1>3 DEF Transaction
<1>5. Closed(Fresh) BY Zenon, <1>2, <1>3, <1>4 DEF Closed, Stored, NoDiffs
<1>6. Nothing.best = None BY Zenon DEF Nothing
<1> QED BY Zenon, <1>1, <1>3, <1>4, <1>5, <1>6, OverNothing

\* What the invariant says of the database when it is at the tip.
LEMMA AtTip ==
  ASSUME ManagerInv, VerifyBestBlock(tip)
  PROVE  Stored(EvoDb, tip) /\ Whole.best = tip /\ Stored(Whole, tip)
<1>1. Stored(EvoDb, tip) BY Zenon DEF ManagerInv, Closed, VerifyBestBlock
<1>2. Whole.best = tip
  <2>1. CASE evoRoot.best # None \/ evoBatch.best # None BY Zenon, <2>1 DEF ManagerInv
  <2>2. CASE evoRoot.best = None /\ evoBatch.best = None
    BY Zenon, <2>2 DEF VerifyBestBlock, EvoDb, Whole, Over, First
  <2> QED BY Zenon, <2>1, <2>2
<1>3. Stored(Whole, tip) BY Zenon, <1>2 DEF ManagerInv, Closed
<1> QED BY Zenon, <1>1, <1>2, <1>3

\* What a lookup may see has nothing wrong in it.
LEMMA ViewsRight ==
  ASSUME ManagerInv, NEW d \in Views
  PROVE  Right(d.snapshot, Node) /\ Right(d.diff, Block)
<1>1. /\ Right(EvoDb.snapshot, Node) /\ Right(EvoDb.diff, Block)
      /\ Right(Whole.snapshot, Node) /\ Right(Whole.diff, Block)
      /\ Right(disk.evoDb.snapshot, Node) /\ Right(disk.evoDb.diff, Block)
  BY Zenon DEF ManagerInv, Closed, Transaction
<1>2. CASE d = EvoDb BY Zenon, <1>1, <1>2
<1>3. ASSUME NEW lists, NEW diffs, d = Mix(lists, diffs)
      PROVE  Right(d.snapshot, Node) /\ Right(d.diff, Block)
  <2> DEFINE whole == Whole
             stored == disk.evoDb
  <2>1. /\ d.snapshot = [b \in Node |-> IF b \in lists THEN whole.snapshot[b] ELSE stored.snapshot[b]]
        /\ d.diff = [b \in Block |-> IF b \in diffs THEN whole.diff[b] ELSE stored.diff[b]]
    BY Zenon, <1>3 DEF Mix
  <2> HIDE DEF whole, stored
  <2>2. /\ Right(whole.snapshot, Node) /\ Right(whole.diff, Block)
        /\ Right(stored.snapshot, Node) /\ Right(stored.diff, Block)
    BY Zenon, <1>1 DEF whole, stored
  <2>3. Right(d.snapshot, Node)
    <3>1. \A b \in Node : whole.snapshot[b] \in {None, b} /\ stored.snapshot[b] \in {None, b}
      BY Zenon, <2>2 DEF Right
    <3> QED BY Zenon, <2>1, <3>1 DEF Right
  <2>4. Right(d.diff, Block)
    <3>1. \A b \in Block : whole.diff[b] \in {None, b} /\ stored.diff[b] \in {None, b}
      BY Zenon, <2>2 DEF Right
    <3> QED BY Zenon, <2>1, <3>1 DEF Right
  <2> QED BY Zenon, <2>3, <2>4
<1>4. d = EvoDb \/ \E lists, diffs : d = Mix(lists, diffs) BY SMT DEF Views
<1> QED BY Zenon, <1>2, <1>3, <1>4

\* Every block the manager is asked about is a block of the tree.
LEMMA AskedBlocks ==
  ASSUME ManagerInv, NEW b \in Asked
  PROVE  b \in Block /\ b \in Node
<1>1. ASSUME NEW c \in Node, b \in Chain(c) PROVE b \in Block BY Zenon, <1>1, NodeFacts DEF Chain
<1>2. tip \in Node /\ (tipIndex # None => tipIndex \in Node) BY Zenon DEF ManagerInv
<1> QED BY Zenon, <1>1, <1>2 DEF Asked, Node

\* ProcessBlock makes the block's own list and leaves nothing wrong in the caches.
LEMMA ProcessRight ==
  ASSUME ManagerInv, NEW b \in Block, ProcessBlock(b)
  PROVE  /\ Parent(b) = tip /\ NewList(b, GetListForBlock(EvoDb, tip).list) = b
         /\ VerifyBestBlock(tip)
         /\ Right(mnListsCache', Node) /\ Right(mnListDiffsCache', Block)
<1> DEFINE got == GetListForBlock(EvoDb, tip)
           lists == IF SnapshotDue(b) THEN Emplace(got.lists, b, NewList(b, got.list)) ELSE got.lists
<1>1. Parent(b) = tip /\ VerifyBestBlock(tip) BY Zenon DEF ProcessBlock
<1>2. got.list \in {None, tip} /\ Right(got.lists, Node) /\ Right(got.diffs, Block)
  BY Zenon, GetSafe DEF ManagerInv, GetListForBlock, Closed, Transaction
<1>3. NewList(b, got.list) = b BY Zenon, <1>1, <1>2 DEF NewList, ProcessBlock
<1>4. Right(lists, Node)
  <2>1. lists \in {got.lists, Emplace(got.lists, b, b)} BY Zenon, <1>3
  <2> HIDE DEF lists, got
  <2> QED BY ZenonT(30), <1>2, <2>1 DEF Emplace, Right, Node
<1>5. Right(Emplace(got.diffs, b, b), Block)
  <2> HIDE DEF got
  <2> QED BY Zenon, <1>2 DEF Emplace, Right
<1>6. /\ mnListsCache' = CleanupLists(lists, Height(b))
      /\ mnListDiffsCache' = CleanupDiffs(Emplace(got.diffs, b, b), Height(b))
  BY Zenon, <1>3 DEF ProcessBlock
<1> HIDE DEF lists, got
<1>7. Right(mnListsCache', Node) BY ZenonT(30), <1>4, <1>6 DEF CleanupLists, Right
<1>8. Right(mnListDiffsCache', Block) BY Zenon, <1>5, <1>6 DEF CleanupDiffs, Right
<1> QED BY ZenonT(30), <1>1, <1>3, <1>7, <1>8 DEF got

\* The queue of tips to come after ConnectTip.
LEMMA QueueRight ==
  ASSUME NEW d, NEW b \in Block, Stored(d, b), NEW q, NEW r, q \in Seq(Block),
         \A i \in 1..Len(q) : Stored(d, q[i]), r \in {q, Append(q, b)}
  PROVE  r \in Seq(Block) /\ \A i \in 1..Len(r) : Stored(d, r[i])
<1>1. CASE r = q BY Zenon, <1>1
<1>2. CASE r = Append(q, b)
  <2>1. /\ Len(r) = Len(q) + 1 /\ r \in Seq(Block)
        /\ \A i \in 1..Len(r) : r[i] = IF i = Len(q) + 1 THEN b ELSE q[i]
    BY SMTT(30), <1>2
  <2> QED BY SMTT(30), <2>1
<1> QED BY Zenon, <1>1, <1>2

\* A step that leaves the transactions and the database alone, and the tip and the
\* manager's tips too, keeps the invariant when it leaves nothing wrong in the caches.
LEMMA CachesOnly ==
  ASSUME ManagerInv, UNCHANGED <<tip, tipIndex, tipQueue, evoVars>>,
         Right(mnListsCache', Node), Right(mnListDiffsCache', Block)
  PROVE  ManagerInv'
<1>1. EvoDb' = EvoDb /\ Whole' = Whole BY Zenon DEF EvoDb, Whole, evoVars
<1> QED BY Zenon, <1>1 DEF ManagerInv, evoVars

\* The same when the transactions and the database of a new process are those on disk.
LEMMA NewProcess ==
  ASSUME tip' \in Node, disk' = [evoDb |-> disk'.evoDb, tip |-> disk'.tip], disk'.tip \in Node,
         Closed(disk'.evoDb), evoRoot' = Nothing, evoBatch' = Nothing,
         mnListsCache' = NoLists, mnListDiffsCache' = NoDiffs, tipIndex' = None, tipQueue' = <<>>
  PROVE  ManagerInv'
<1>1. Over(Nothing, disk'.evoDb) = disk'.evoDb BY Zenon, OverNothing DEF Closed
<1>2. EvoDb' = disk'.evoDb /\ Whole' = disk'.evoDb BY Zenon, <1>1 DEF EvoDb, Whole
<1>3. tipQueue' \in Seq(Block) /\ \A i \in 1..Len(tipQueue') : FALSE BY SMT
<1>4. evoRoot'.best = None /\ evoBatch'.best = None BY Zenon, FreshRight
<1>5. /\ Right(mnListsCache', Node) /\ Right(mnListDiffsCache', Block)
      /\ Transaction(evoRoot') /\ Transaction(evoBatch')
  BY Zenon, FreshRight
<1> QED BY Zenon, <1>2, <1>3, <1>4, <1>5 DEF ManagerInv

\* The invariant holds at the start.
LEMMA ManagerInitInv == ManagerInit => ManagerInv
<1> SUFFICES ASSUME ManagerInit PROVE ManagerInv BY Zenon
<1>1. disk.evoDb = Fresh /\ disk.tip = Root /\ disk = [evoDb |-> disk.evoDb, tip |-> disk.tip]
  BY Zenon DEF ManagerInit
<1>2. EvoDb = Fresh /\ Whole = Fresh BY Zenon, <1>1, FreshRight DEF EvoDb, Whole, ManagerInit
<1>3. tipQueue \in Seq(Block) /\ \A i \in 1..Len(tipQueue) : FALSE BY SMT DEF ManagerInit
<1>4. Root \in Node BY Zenon DEF Node
<1> QED BY Zenon, <1>1, <1>2, <1>3, <1>4, FreshRight DEF ManagerInv, ManagerInit

\* The invariant holds after a step of the chain that puts best block b into the root
\* transaction, keeping the databases closed and what is stored in them.
LEMMA ChainStep ==
  ASSUME ManagerInv, VerifyBestBlock(tip), NEW b \in Node, tip' = b, evoRoot'.best = b,
         Transaction(evoRoot'), UNCHANGED <<tipIndex, evoBatch, disk>>,
         Right(mnListsCache', Node), Right(mnListDiffsCache', Block),
         Closed(EvoDb'), Closed(Whole'), Whole'.best = b,
         \A c : Stored(Whole, c) => Stored(Whole', c),
         tipQueue' = tipQueue \/ (Stored(Whole', b) /\ b \in Block /\ tipQueue' = Append(tipQueue, b))
  PROVE  ManagerInv'
<1>1. Whole.best = tip BY Zenon, AtTip
<1>2. tipIndex' # None => Stored(Whole', tipIndex') BY Zenon, <1>1 DEF ManagerInv
<1>3. tipQueue' \in Seq(Block) /\ \A i \in 1..Len(tipQueue') : Stored(Whole', tipQueue'[i])
  <2>1. tipQueue \in Seq(Block) /\ \A i \in 1..Len(tipQueue) : Stored(Whole', tipQueue[i])
    BY Zenon, <1>1 DEF ManagerInv
  <2>2. CASE tipQueue' = tipQueue BY Zenon, <2>1, <2>2
  <2>3. CASE Stored(Whole', b) /\ b \in Block /\ tipQueue' = Append(tipQueue, b)
    BY ZenonT(30), <2>1, <2>3, QueueRight
  <2> QED BY Zenon, <2>2, <2>3
<1> QED BY Zenon, <1>2, <1>3 DEF ManagerInv

\* Connecting a block keeps the invariant.
LEMMA ConnectKeeps ==
  ASSUME ManagerInv, NEW b \in Block, NEW last \in BOOLEAN, ConnectTip(b, last)
  PROVE  ManagerInv'
<1> DEFINE under == Over(evoBatch, disk.evoDb)
<1>1. /\ Parent(b) = tip /\ WriteBlock(b, b) /\ VerifyBestBlock(tip)
      /\ Right(mnListsCache', Node) /\ Right(mnListDiffsCache', Block)
  BY ZenonT(30), ProcessRight DEF ConnectTip
<1>2. /\ Transaction(evoRoot) /\ Transaction(evoBatch) /\ Transaction(disk.evoDb)
      /\ Closed(EvoDb) /\ Closed(Whole)
  BY Zenon DEF ManagerInv, Closed
<1>3. b \in Node BY Zenon DEF Node
<1>4. /\ evoRoot'.diff = [evoRoot.diff EXCEPT ![b] = b] /\ evoRoot'.best = b
      /\ evoRoot'.snapshot \in {evoRoot.snapshot, [evoRoot.snapshot EXCEPT ![b] = b]}
      /\ evoRoot' = [snapshot |-> evoRoot'.snapshot, diff |-> evoRoot'.diff, best |-> evoRoot'.best]
  BY Zenon, <1>1 DEF WriteBlock
<1>5. Transaction(evoRoot')
  <2>1. Right(evoRoot'.snapshot, Node) BY SMTT(30), <1>2, <1>3, <1>4 DEF Transaction, Right
  <2>2. Right(evoRoot'.diff, Block) BY SMTT(30), <1>2, <1>4 DEF Transaction, Right
  <2> QED BY Zenon, <1>3, <1>4, <2>1, <2>2 DEF Transaction
<1>6. UNCHANGED <<tipIndex, evoBatch, disk>> /\ tip' = b BY Zenon DEF ConnectTip
<1>7. Transaction(under) BY Zenon, <1>2, OverRight
<1>8. EvoDb = Over(evoRoot, disk.evoDb) /\ EvoDb' = Over(evoRoot', disk.evoDb) BY Zenon, <1>6 DEF EvoDb
<1>9. Whole = Over(evoRoot, under) /\ Whole' = Over(evoRoot', under) BY Zenon, <1>6 DEF Whole
<1>10. Stored(EvoDb, Parent(b)) /\ Stored(Whole, Parent(b)) BY Zenon, <1>1, AtTip
<1> HIDE DEF under
<1>11. Closed(EvoDb') BY ZenonT(30), <1>2, <1>4, <1>5, <1>8, <1>10, WriteRight
<1>12. Closed(Whole') /\ Whole'.best = b /\ \A c : Stored(Whole, c) => Stored(Whole', c)
  <2>1. Closed(Over(evoRoot, under)) /\ Stored(Over(evoRoot, under), Parent(b)) BY Zenon, <1>2, <1>9, <1>10
  <2>2. /\ Closed(Over(evoRoot', under)) /\ Over(evoRoot', under).best = b
        /\ \A c : Stored(Over(evoRoot, under), c) => Stored(Over(evoRoot', under), c)
    <3>1. Transaction(evoRoot) BY Zenon, <1>2
    <3>2. evoRoot'.best = b /\ evoRoot'.diff = [evoRoot.diff EXCEPT ![b] = b] BY Zenon, <1>4
    <3> QED BY ZenonT(30), <1>5, <1>7, <2>1, <3>1, <3>2, WriteRight
  <2> QED BY Zenon, <1>9, <2>2
<1>13. Stored(Whole', b) BY Zenon, <1>12 DEF Closed
<1>14. tipQueue' = tipQueue \/ (Stored(Whole', b) /\ b \in Block /\ tipQueue' = Append(tipQueue, b))
  <2>1. tipQueue' = tipQueue \/ tipQueue' = Append(tipQueue, b) BY Zenon DEF ConnectTip
  <2> QED BY Zenon, <1>13, <2>1
<1> QED BY ZenonT(30), <1>1, <1>3, <1>4, <1>5, <1>6, <1>11, <1>12, <1>14, ChainStep

\* Disconnecting the tip keeps the invariant.
LEMMA DisconnectKeeps ==
  ASSUME ManagerInv, DisconnectTip
  PROVE  ManagerInv'
<1> DEFINE under == Over(evoBatch, disk.evoDb)
           p == Parent(tip)
           cache == GetListForBlock(EvoDb, tip)
           prev == Get(EvoDb, cache.lists, cache.diffs, Parent(tip))
           kept == IF tip \in Changed THEN prev
                   ELSE [lists |-> mnListsCache, diffs |-> mnListDiffsCache]
<1>1. tip \in Block /\ VerifyBestBlock(tip) BY Zenon DEF DisconnectTip, ManagerInv, Node
<1>2. /\ Transaction(evoRoot) /\ Transaction(evoBatch) /\ Transaction(disk.evoDb)
      /\ Closed(EvoDb) /\ Closed(Whole) /\ Transaction(EvoDb)
  BY Zenon DEF ManagerInv, Closed
<1>3. Stored(EvoDb, p) /\ Stored(Whole, p) BY ZenonT(30), <1>1, <1>2, AtTip, ChainStored
<1>4. p \in Node BY Zenon, <1>3 DEF Stored
<1>5. Right(mnListsCache', Node) /\ Right(mnListDiffsCache', Block)
  <2>1. Right(EvoDb.snapshot, Node) /\ Right(EvoDb.diff, Block) BY Zenon, <1>2 DEF Transaction
  <2>2. Right(cache.lists, Node) /\ Right(cache.diffs, Block)
    BY Zenon, <2>1, GetSafe DEF ManagerInv, GetListForBlock
  <2>3. Right(prev.lists, Node) /\ Right(prev.diffs, Block)
    <3> HIDE DEF cache
    <3> QED BY Zenon, <1>4, <2>1, <2>2, GetSafe
  <2>4. Right(kept.lists, Node) /\ Right(kept.diffs, Block)
    <3> HIDE DEF prev
    <3> QED BY Zenon, <2>3 DEF ManagerInv
  <2>5. /\ mnListsCache' = [kept.lists EXCEPT ![tip] = None]
        /\ mnListDiffsCache' = [kept.diffs EXCEPT ![tip] = None]
    BY Zenon DEF DisconnectTip
  <2> HIDE DEF kept
  <2> QED BY ZenonT(30), <2>4, <2>5 DEF Right
<1>6. /\ evoRoot' = [evoRoot EXCEPT !.best = p] /\ tip' = p /\ tipQueue' = tipQueue
      /\ UNCHANGED <<tipIndex, evoBatch, disk>>
  BY Zenon DEF DisconnectTip
<1>7. /\ evoRoot'.best = p /\ evoRoot'.diff = evoRoot.diff /\ evoRoot'.snapshot = evoRoot.snapshot
      /\ evoRoot' = [snapshot |-> evoRoot'.snapshot, diff |-> evoRoot'.diff, best |-> evoRoot'.best]
  <2> HIDE DEF p
  <2>1. evoRoot = [snapshot |-> evoRoot.snapshot, diff |-> evoRoot.diff, best |-> evoRoot.best]
    BY Zenon, <1>2 DEF Transaction
  <2> QED BY SMT, <1>6, <2>1
<1>8. Transaction(evoRoot') BY Zenon, <1>2, <1>4, <1>7 DEF Transaction
<1>9. Transaction(under) BY Zenon, <1>2, OverRight
<1>10. EvoDb = Over(evoRoot, disk.evoDb) /\ EvoDb' = Over(evoRoot', disk.evoDb) BY Zenon, <1>6 DEF EvoDb
<1>11. Whole = Over(evoRoot, under) /\ Whole' = Over(evoRoot', under) BY Zenon, <1>6 DEF Whole
<1> HIDE DEF under, p
<1>12. Closed(EvoDb') BY ZenonT(30), <1>2, <1>3, <1>7, <1>8, <1>10, StepBackRight
<1>13. Closed(Whole') /\ Whole'.best = p /\ \A c : Stored(Whole, c) => Stored(Whole', c)
  BY ZenonT(30), <1>2, <1>3, <1>7, <1>8, <1>9, <1>11, StepBackRight
<1> QED BY SMT, <1>1, <1>4, <1>5, <1>6, <1>7, <1>8, <1>12, <1>13, ChainStep

\* A callback of the queue keeps the invariant.
LEMMA UpdatedKeeps ==
  ASSUME ManagerInv, UpdatedBlockTip
  PROVE  ManagerInv'
<1>1. tipQueue \in Seq(Block) /\ tipQueue # <<>> BY ZenonT(30) DEF UpdatedBlockTip, ManagerInv
<1>2. /\ Tail(tipQueue) \in Seq(Block) /\ Len(Tail(tipQueue)) = Len(tipQueue) - 1
      /\ \A i \in 1..Len(Tail(tipQueue)) : Tail(tipQueue)[i] = tipQueue[i + 1]
      /\ Len(tipQueue) \in Nat \ {0} /\ Head(tipQueue) = tipQueue[1] /\ Head(tipQueue) \in Block
  BY SMTT(30), <1>1
<1>3. /\ tipIndex' = Head(tipQueue) /\ tipQueue' = Tail(tipQueue)
      /\ UNCHANGED <<tip, mnListsCache, mnListDiffsCache, evoRoot, evoBatch, disk>>
  BY Zenon DEF UpdatedBlockTip, caches, evoVars
<1>4. EvoDb' = EvoDb /\ Whole' = Whole BY Zenon, <1>3 DEF EvoDb, Whole
<1>5. ASSUME Whole.best = tip
      PROVE  /\ Stored(Whole, Head(tipQueue))
             /\ \A i \in 1..Len(Tail(tipQueue)) : Stored(Whole, Tail(tipQueue)[i])
  <2>1. \A i \in 1..Len(tipQueue) : Stored(Whole, tipQueue[i]) BY Zenon, <1>5 DEF ManagerInv
  <2>2. 1 \in 1..Len(tipQueue) /\ \A i \in 1..Len(Tail(tipQueue)) : i + 1 \in 1..Len(tipQueue)
    BY SMTT(30), <1>2
  <2> QED BY Zenon, <1>2, <2>1, <2>2
<1>6. tipIndex' \in Node \cup {None} BY Zenon, <1>2, <1>3 DEF Node
<1> QED BY Zenon, <1>2, <1>3, <1>4, <1>5, <1>6 DEF ManagerInv

\* The end of a root commit, written or not, keeps the invariant.
LEMMA CommitKeeps ==
  ASSUME ManagerInv, FlushEvoDb \/ FlushEvoDbFails
  PROVE  ManagerInv'
<1>0. UNCHANGED <<tip, mnListsCache, mnListDiffsCache, tipIndex, tipQueue>> /\ evoRoot' = Nothing
  BY Zenon DEF FlushEvoDb, FlushEvoDbFails, caches
<1>1. /\ Transaction(evoRoot) /\ Transaction(evoBatch) /\ Closed(disk.evoDb) /\ Closed(Whole)
      /\ Transaction(disk.evoDb) /\ Transaction(Whole)
      /\ disk = [evoDb |-> disk.evoDb, tip |-> disk.tip] /\ disk.tip \in Node
  BY Zenon DEF ManagerInv, Closed
<1>2. CASE FlushEvoDb
  <2>1. evoBatch' = Nothing /\ disk' = [disk EXCEPT !.evoDb = Whole] BY Zenon, <1>2 DEF FlushEvoDb
  <2>2. disk' = [evoDb |-> disk'.evoDb, tip |-> disk'.tip] /\ disk'.evoDb = Whole /\ disk'.tip = disk.tip
    BY SMT, <1>1, <2>1
  <2>3. Over(Nothing, Whole) = Whole BY Zenon, <1>1, OverNothing
  <2>4. EvoDb' = Whole /\ Whole' = Whole BY Zenon, <1>0, <2>1, <2>2, <2>3 DEF EvoDb, Whole
  <2>5. evoRoot'.best = None /\ evoBatch'.best = None BY Zenon, <1>0, <2>1, FreshRight
  <2>6. Transaction(evoRoot') /\ Transaction(evoBatch') BY Zenon, <1>0, <2>1, FreshRight
  <2> QED BY Zenon, <1>0, <1>1, <2>2, <2>4, <2>5, <2>6 DEF ManagerInv
<1>3. CASE FlushEvoDbFails
  <2>1. evoBatch' = Over(evoRoot, evoBatch) /\ disk' = disk BY Zenon, <1>3 DEF FlushEvoDbFails
  <2>2. EvoDb' = disk.evoDb BY Zenon, <1>0, <1>1, <2>1, OverNothing DEF EvoDb
  <2>3. Transaction(evoBatch') BY Zenon, <1>1, <2>1, OverRight
  <2>4. Whole' = Whole
    <3>1. Whole' = Over(Nothing, Over(evoBatch', disk.evoDb)) BY Zenon, <1>0, <2>1 DEF Whole
    <3>2. Over(Over(evoRoot, evoBatch), disk.evoDb) = Over(evoRoot, Over(evoBatch, disk.evoDb))
      BY SMT, OverAssociative
    <3>3. Over(evoBatch', disk.evoDb) = Whole BY Zenon, <2>1, <3>2 DEF Whole
    <3> QED BY Zenon, <1>1, <3>1, <3>3, OverNothing
  <2>5. evoRoot'.best = None /\ Transaction(evoRoot') BY Zenon, <1>0, FreshRight
  <2>6. evoBatch'.best # None => evoRoot.best # None \/ evoBatch.best # None
    BY Zenon, <2>1 DEF Over, First
  <2> QED BY ZenonT(30), <1>0, <1>1, <2>1, <2>2, <2>3, <2>4, <2>5, <2>6 DEF ManagerInv
<1> QED BY Zenon, <1>2, <1>3

\* Every step of the manager and of its environment keeps the invariant.
LEMMA ManagerNextInv == ManagerInv /\ [ManagerNext]_managerVars => ManagerInv'
<1> SUFFICES ASSUME ManagerInv, [ManagerNext]_managerVars PROVE ManagerInv' BY Zenon
<1>1. ASSUME NEW b \in Block, Lookup(b) PROVE ManagerInv'
  <2>1. PICK d \in Views : /\ mnListsCache' = GetListForBlock(d, b).lists
                           /\ mnListDiffsCache' = GetListForBlock(d, b).diffs
    BY Zenon, <1>1 DEF Lookup
  <2>2. b \in Node BY Zenon DEF Node
  <2>3. Right(mnListsCache', Node) /\ Right(mnListDiffsCache', Block)
    BY Zenon, <2>1, <2>2, ViewsRight, GetSafe DEF ManagerInv, GetListForBlock
  <2>4. UNCHANGED <<tip, tipIndex, tipQueue, evoVars>> BY Zenon, <1>1 DEF Lookup
  <2> QED BY Zenon, <2>3, <2>4, CachesOnly
<1>2. ASSUME NEW b \in Block, NEW last \in BOOLEAN, ConnectTip(b, last) PROVE ManagerInv'
  BY Zenon, <1>2, ConnectKeeps
<1>3. ASSUME NEW b \in Block, ConnectFails(b) PROVE ManagerInv'
  <2>1. Right(mnListsCache', Node) /\ Right(mnListDiffsCache', Block)
    BY Zenon, <1>3, ProcessRight DEF ConnectFails
  <2>2. UNCHANGED <<tip, tipIndex, tipQueue, evoVars>> BY Zenon, <1>3 DEF ConnectFails
  <2> QED BY Zenon, <2>1, <2>2, CachesOnly
<1>4. CASE DisconnectTip BY Zenon, <1>4, DisconnectKeeps
<1>5. CASE UpdatedBlockTip BY Zenon, <1>5, UpdatedKeeps
<1>6. CASE InitializeCurrentBlockTip
  <2>1. /\ tipIndex' = tip
        /\ UNCHANGED <<tip, mnListsCache, mnListDiffsCache, tipQueue, evoRoot, evoBatch, disk>>
    BY Zenon, <1>6 DEF InitializeCurrentBlockTip, caches, evoVars
  <2>2. EvoDb' = EvoDb /\ Whole' = Whole BY Zenon, <2>1 DEF EvoDb, Whole
  <2>3. Whole.best = tip => Stored(Whole, tip) BY Zenon DEF ManagerInv, Closed
  <2> QED BY Zenon, <2>1, <2>2, <2>3 DEF ManagerInv
<1>7. CASE FlushStateToDisk
  <2>1. /\ disk' = [disk EXCEPT !.tip = tip]
        /\ UNCHANGED <<tip, mnListsCache, mnListDiffsCache, tipIndex, tipQueue, evoRoot, evoBatch>>
    BY Zenon, <1>7 DEF FlushStateToDisk, caches
  <2>2. disk = [evoDb |-> disk.evoDb, tip |-> disk.tip] BY Zenon DEF ManagerInv
  <2>3. disk' = [evoDb |-> disk'.evoDb, tip |-> disk'.tip] /\ disk'.evoDb = disk.evoDb /\ disk'.tip = tip
    BY SMT, <2>1, <2>2
  <2>4. EvoDb' = EvoDb /\ Whole' = Whole BY Zenon, <2>1, <2>3 DEF EvoDb, Whole
  <2> QED BY Zenon, <2>1, <2>3, <2>4 DEF ManagerInv
<1>8. CASE FlushEvoDb \/ FlushEvoDbFails BY Zenon, <1>8, CommitKeeps
<1>9. CASE Restart BY Zenon, <1>9, NewProcess DEF Restart, ManagerInv
<1>10. CASE Reindex
  <2>1. disk' = [evoDb |-> Fresh, tip |-> Root] BY Zenon, <1>10 DEF Reindex
  <2>2. /\ disk' = [evoDb |-> disk'.evoDb, tip |-> disk'.tip] /\ disk'.evoDb = Fresh
        /\ disk'.tip = Root /\ Root \in Node
    BY SMT, <2>1 DEF Node
  <2> QED BY Zenon, <1>10, <2>2, FreshRight, NewProcess DEF Reindex
<1>11. CASE UNCHANGED managerVars
  <2>1. UNCHANGED <<tip, tipIndex, tipQueue, evoVars>> /\ UNCHANGED <<mnListsCache, mnListDiffsCache>>
    BY ZenonT(30), <1>11 DEF managerVars, evoVars
  <2> QED BY Zenon, <2>1, CachesOnly DEF ManagerInv
<1> QED BY ZenonT(30), <1>1, <1>2, <1>3, <1>4, <1>5, <1>6, <1>7, <1>8, <1>9, <1>10, <1>11 DEF ManagerNext

\* The caches and the databases never hold a wrong list or diff, and every chain that
\* may be looked up is stored or on the way to the disk, in every tree and under any
\* sequence of calls, failed flushes and restarts.
THEOREM ManagerInvariant == ManagerSpec => []ManagerInv
<1> QED BY ManagerInitInv, ManagerNextInv, PTL DEF ManagerSpec

\* GetListForBlock returns the right list or throws, and throws only where
\* ListsAvailable allows it, for every tree, period and cache size.
THEOREM ListsAlwaysAvailable == ManagerSpec => []ListsAvailable
<1>1. ManagerInv => ListsAvailable
  <2> SUFFICES ASSUME ManagerInv, NEW b \in Asked, NEW d \in Views
               PROVE  LET list == GetListForBlock(d, b).list
                      IN  \/ list = b
                          \/ /\ list = None
                             /\ \/ committing \/ ~VerifyBestBlock(tip)
                                \/ b \notin Chain(tip) /\ evoBatch # Nothing
    BY Zenon DEF ListsAvailable
  <2>1. GetListForBlock(d, b).list \in {None, b}
    BY Zenon, AskedBlocks, ViewsRight, GetSafe DEF ManagerInv, GetListForBlock
  <2>2. ASSUME ~committing, VerifyBestBlock(tip), b \in Chain(tip) \/ evoBatch = Nothing
        PROVE  GetListForBlock(d, b).list = b
    <3>1. d = EvoDb BY SMT, <2>2 DEF Views
    <3>2. Stored(EvoDb, b)
      <4>1. CASE b \in Chain(tip)
        BY ZenonT(30), <2>2, <4>1, AtTip, ChainStored DEF ManagerInv
      <4>2. CASE b \notin Chain(tip)
        <5>1. Transaction(disk.evoDb) BY Zenon DEF ManagerInv, Closed
        <5>2. Over(evoBatch, disk.evoDb) = disk.evoDb BY Zenon, <2>2, <4>2, <5>1, OverNothing
        <5>3. EvoDb = Whole BY Zenon, <5>2 DEF EvoDb, Whole
        <5>4. tipIndex # None /\ b \in Chain(tipIndex) BY Zenon, <4>2 DEF Asked
        <5>5. Stored(Whole, tipIndex) BY Zenon, <2>2, <5>4, AtTip DEF ManagerInv
        <5> QED BY ZenonT(30), <5>3, <5>4, <5>5, ChainStored DEF ManagerInv
      <4> QED BY Zenon, <4>1, <4>2
    <3> QED BY ZenonT(30), <3>1, <3>2, GetFinds DEF ManagerInv, GetListForBlock
  <2> QED BY Zenon, <2>1, <2>2
<1> QED BY <1>1, ManagerInvariant, PTL

==============================================================================
