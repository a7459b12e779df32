---------------------------- MODULE MNChainProofs ----------------------------
(***************************************************************************)
(* Proofs about the masternode lists along a chain, for every chain of     *)
(* blocks: the map of unique properties is exact, a block's list comes     *)
(* back from its diff and from its snapshot, the list fails only on a      *)
(* revoked masternode, and the payment queue is fair.                      *)
(***************************************************************************)
EXTENDS MNListProofs

-----------------------------------------------------------------------------
(* Reading a snapshot. *)

\* The masternodes determine the map of their unique properties.
LEMMA ExactUnique ==
  ASSUME NEW M, NEW N, NEW m, Exact(M, m), Exact(N, m) PROVE M = N
<1>1. /\ M = [v \in DOMAIN M |-> M[v]] /\ N = [v \in DOMAIN N |-> N[v]]
      /\ DOMAIN M = DOMAIN N /\ DOMAIN M = UNION {Properties(m[p]) : p \in DOMAIN m}
  BY Zenon DEF Exact
<1>2. ASSUME NEW v \in DOMAIN M PROVE M[v] = N[v]
  <2>1. PICK p \in DOMAIN m : v \in Properties(m[p]) BY Zenon, <1>1
  <2>2. M[v] = [proTx |-> p, count |-> Size(Uses(m[p], v))] BY ZenonT(30), <2>1 DEF Exact
  <2>3. N[v] = [proTx |-> p, count |-> Size(Uses(m[p], v))] BY ZenonT(30), <2>1 DEF Exact
  <2> QED BY ZenonT(30), <2>2, <2>3
<1> QED BY ZenonT(30), <1>1, <1>2

\* A list that is written and read again is the same, if it holds no revoked masternode.
LEMMA UnserializeSame ==
  ASSUME NEW l, ListOK(l), Revoked(l) = {} PROVE Unserialize(l) = l
<1>0. PICK bump \in BOOLEAN : bump = FALSE BY Zenon
<1> DEFINE e == [EmptyList EXCEPT !.nHeight = l.nHeight, !.nTotalRegisteredCount = l.nTotalRegisteredCount]
           m == l.mnMap
           order == SomeOrder(DOMAIN m)
           r == AddAll(e, order, m, bump)
<1>1. /\ IsList(e) /\ e.status = "ok" /\ e.nHeight = l.nHeight /\ DOMAIN e.mnMap = {}
      /\ e.nTotalRegisteredCount = l.nTotalRegisteredCount
      /\ e.mnMap = [p \in DOMAIN e.mnMap |-> e.mnMap[p]] /\ DOMAIN e.mnUniquePropertyMap = {}
      /\ e.mnUniquePropertyMap = [v \in DOMAIN e.mnUniquePropertyMap |-> e.mnUniquePropertyMap[v]]
  BY Zenon DEF EmptyList, Empty, IsList, ListFields
<1>2. Unserialize(l) = r BY Zenon, <1>0 DEF Unserialize
<1> HIDE DEF e
<1>3. Exact(e.mnUniquePropertyMap, e.mnMap) BY ZenonT(30), <1>1 DEF Exact
<1>4. /\ m = [p \in DOMAIN m |-> m[p]] /\ IsFiniteSet(DOMAIN m) /\ IdsDiffer(m)
      /\ Exact(l.mnUniquePropertyMap, m) /\ l.nTotalRegisteredCount \in Nat
      /\ \A p \in DOMAIN m : MNOK(m[p])
  BY Zenon DEF ListOK
<1>5. Addable(e, m)
  <2>1. \A p \in DOMAIN m : \A v \in Properties(m[p]) : Free(m, v, p) BY Zenon, ListOKFree
  <2>2. \A p \in DOMAIN m : m[p].collateral # Null /\ m[p].keyIDOwner # Null
    BY ZenonT(30), <1>4, MNOKNotNull
  <2>3. \A p \in DOMAIN m : m[p].keyIDOperator # Null BY Zenon DEF Revoked
  <2> QED BY ZenonT(30), <1>1, <1>4, <2>1, <2>2, <2>3 DEF Addable, InternalIds
<1>6. Lists(order, DOMAIN m) BY Zenon, <1>4, SomeOrderLists
<1> HIDE DEF m, order
<1>7. /\ e.nTotalRegisteredCount \in Nat /\ IsList(e) /\ e.status = "ok"
      /\ e.mnMap = [p \in DOMAIN e.mnMap |-> e.mnMap[p]] BY ZenonT(30), <1>1, <1>4
<1>8. ~Bumps(bump) BY ZenonT(30), <1>0 DEF Bumps
<1>9. Added(e, r, m, bump) BY ZenonT(30), <1>3, <1>5, <1>6, <1>7, AddAllFacts
<1> HIDE DEF r
<1>10. /\ IsList(r) /\ r.status = "ok" /\ r.nHeight = e.nHeight
       /\ r.mnMap = With(e.mnMap, m, DOMAIN m) /\ Exact(r.mnUniquePropertyMap, r.mnMap)
       /\ r.nTotalRegisteredCount = e.nTotalRegisteredCount
  BY ZenonT(30), <1>8, <1>9 DEF Added
<1>11. r.mnMap = m
  <2>1. With(e.mnMap, m, DOMAIN m) = m BY ZenonT(30), <1>1, <1>4 DEF With
  <2> QED BY Zenon, <1>10, <2>1
<1>12. r.mnUniquePropertyMap = l.mnUniquePropertyMap BY Zenon, <1>4, <1>10, <1>11, ExactUnique
<1>13. IsList(l) /\ l.status = "ok" /\ l.mnMap = m BY Zenon DEF ListOK, m
<1>14. \A f \in ListFields : r[f] = l[f] BY ZenonT(30), <1>1, <1>10, <1>11, <1>12, <1>13 DEF ListFields
<1>15. r = l
  <2> HIDE DEF ListFields
  <2> QED BY ZenonT(30), <1>10, <1>13, <1>14 DEF IsList
<1> QED BY Zenon, <1>2, <1>15

-----------------------------------------------------------------------------
(* The list of a block while BuildNewListFromBlock makes it from the list  *)
(* prev of the block before, at height h, with the collaterals in coins    *)
(* unspent.  R are the registrations of the block so far.                  *)

\* What a block does to a masternode that stays: it may be paid, revived or banned, and a ban
\* ends only with a revival.
Kept(old, mn, h) ==
  /\ mn.internalId = old.internalId /\ mn.collateral = old.collateral
  /\ mn.nRegisteredHeight = old.nRegisteredHeight
  /\ mn.nLastPaidHeight \in {old.nLastPaidHeight, h}
  /\ mn.nPoSeRevivedHeight \in {old.nPoSeRevivedHeight, h}
  /\ mn.nPoSeBanHeight = -1 => old.nPoSeBanHeight = -1 \/ mn.nPoSeRevivedHeight = h

\* A masternode the block registered: nothing else in the block can change it.
Fresh(mn, count, h) ==
  /\ mn.internalId >= count /\ mn.keyIDOperator # Null
  /\ mn.nRegisteredHeight = h /\ mn.nLastPaidHeight = 0 /\ mn.nPoSeRevivedHeight = -1

Entry(prev, h, coins, R, p, mn) ==
  /\ mn.collateral \in coins
  /\ p \in DOMAIN prev.mnMap => Kept(prev.mnMap[p], mn, h)
  /\ p \notin DOMAIN prev.mnMap => p \in R /\ Fresh(mn, prev.nTotalRegisteredCount, h)

\* v is not a property of another masternode that was in prev and is in l.
Unclaimed(prev, l, v, p) ==
  \A q \in DOMAIN prev.mnMap \cap DOMAIN l.mnMap : v \in Properties(prev.mnMap[q]) => q = p

Built(prev, h, coins, R, l) ==
  /\ ListOK(l) /\ l.nHeight = h /\ l.nTotalRegisteredCount >= prev.nTotalRegisteredCount
  /\ \A p \in DOMAIN l.mnMap :
       /\ Entry(prev, h, coins, R, p, l.mnMap[p])
       /\ \A v \in Properties(l.mnMap[p]) : Unclaimed(prev, l, v, p)

\* An assertion failed for a masternode whose operator key was revoked.
Revocation(l) == l.status = "assert" /\ Revoked(l) # {}

\* A property in the map belongs to the masternode the map names and to no other.
LEMMA OwnerOf ==
  ASSUME NEW l, ListOK(l), NEW v \in DOMAIN l.mnUniquePropertyMap
  PROVE  LET q == l.mnUniquePropertyMap[v].proTx
         IN  q \in DOMAIN l.mnMap /\ v \in Properties(l.mnMap[q]) /\ Free(l.mnMap, v, q)
<1>1. Exact(l.mnUniquePropertyMap, l.mnMap) BY Zenon DEF ListOK
<1>2. PICK q \in DOMAIN l.mnMap : v \in Properties(l.mnMap[q]) BY ZenonT(30), <1>1, ExactUsed
<1>3. l.mnUniquePropertyMap[v].proTx = q BY <1>1, <1>2, ExactUsed
<1>4. Free(l.mnMap, v, q) BY ZenonT(30), <1>2, ListOKFree
<1> QED BY Zenon, <1>2, <1>3, <1>4

\* The properties of the masternodes are in the map.
LEMMA InMap ==
  ASSUME NEW l, ListOK(l), NEW p \in DOMAIN l.mnMap, NEW v \in Properties(l.mnMap[p])
  PROVE  v \in DOMAIN l.mnUniquePropertyMap /\ l.mnUniquePropertyMap[v].proTx = p
<1>1. Exact(l.mnUniquePropertyMap, l.mnMap) BY Zenon DEF ListOK
<1> QED BY <1>1, ExactUsed

\* UsedByOther tells whether another masternode has the property.
LEMMA NotUsedByOther ==
  ASSUME NEW l, ListOK(l), NEW v, NEW p, ~UsedByOther(l, v, p)
  PROVE  Free(l.mnMap, v, p)
<1>1. SUFFICES ASSUME NEW q \in DOMAIN l.mnMap, v \in Properties(l.mnMap[q]) PROVE q = p BY Zenon DEF Free
<1> QED BY ZenonT(30), <1>1, InMap DEF UsedByOther, HasUniqueProperty

\* A collateral is a masternode's only as its collateral.
LEMMA CollateralOf ==
  ASSUME NEW mn, MNOK(mn), NEW c \in Collateral
  PROVE  c \in Properties(mn) <=> mn.collateral = c
BY ZenonT(30), ChainAssumption DEF MNOK, Properties, PropertyFields

\* A failed list keeps the reason.
LEMMA FailRejects ==
  ASSUME NEW l, IsList(l), l.status = "ok" PROVE Fail(l, "rejected").status = "rejected"
BY ZenonT(30), FailFacts

\* The list of a block follows the list before.
LEMMA BuiltFollows ==
  ASSUME NEW prev, NEW h, NEW coins, NEW R, NEW l, Built(prev, h, coins, R, l)
  PROVE  Follows(prev, l)
<1>1. \A p \in DOMAIN l.mnMap : Entry(prev, h, coins, R, p, l.mnMap[p]) BY Zenon DEF Built
<1>2. \A p \in DOMAIN l.mnMap : \A v \in Properties(l.mnMap[p]) : Unclaimed(prev, l, v, p)
  BY Zenon DEF Built
<1>3. \A p \in DOMAIN l.mnMap, q \in DOMAIN prev.mnMap \cap DOMAIN l.mnMap : \A v :
        v \in Properties(l.mnMap[p]) /\ v \in Properties(prev.mnMap[q]) => q = p
  BY Zenon, <1>2 DEF Unclaimed
<1>4. \A p \in DOMAIN prev.mnMap \cap DOMAIN l.mnMap :
        /\ l.mnMap[p].internalId = prev.mnMap[p].internalId
        /\ l.mnMap[p].collateral = prev.mnMap[p].collateral
  BY ZenonT(30), <1>1 DEF Entry, Kept
<1>5. \A p \in DOMAIN l.mnMap \ DOMAIN prev.mnMap :
        l.mnMap[p].internalId >= prev.nTotalRegisteredCount /\ l.mnMap[p].keyIDOperator # Null
  BY ZenonT(30), <1>1 DEF Entry, Fresh
<1> QED BY Zenon, <1>3, <1>4, <1>5 DEF Follows

\* A masternode that is removed leaves the others as they are, or its key was revoked.
LEMMA RemoveBuilt ==
  ASSUME NEW prev, NEW h, NEW coins, NEW R, NEW l, Built(prev, h, coins, R, l),
         NEW q \in DOMAIN l.mnMap
  PROVE  LET r == RemoveMN(l, q)
         IN  /\ IsList(r)
             /\ \/ Revocation(r) /\ r.mnMap = l.mnMap
                \/ /\ Built(prev, h, coins, R, r)
                   /\ r.mnMap = Restrict(l.mnMap, DOMAIN l.mnMap \ {q})
                   /\ r.nTotalRegisteredCount = l.nTotalRegisteredCount
<1> DEFINE r == RemoveMN(l, q)
           m == l.mnMap
           n == Restrict(m, DOMAIN m \ {q})
<1>1. ListOK(l) BY Zenon DEF Built
<1>2. /\ IsList(l) /\ l.status = "ok" /\ Exact(l.mnUniquePropertyMap, l.mnMap)
      /\ \A p \in DOMAIN l.mnMap : MNOK(l.mnMap[p]) /\ m[p].internalId < l.nTotalRegisteredCount
      /\ IsFiniteSet(DOMAIN m) /\ IdsDiffer(m) /\ l.nTotalRegisteredCount \in Nat
  BY ZenonT(30), <1>1 DEF ListOK
<1>3. l.mnMap[q].collateral # Null /\ l.mnMap[q].keyIDOwner # Null BY ZenonT(30), <1>2, MNOKNotNull
<1>4. /\ IsList(r) /\ r.nHeight = l.nHeight /\ r.nTotalRegisteredCount = l.nTotalRegisteredCount
      /\ l.mnMap[q].keyIDOperator = Null => r.status = "assert" /\ r.mnMap = l.mnMap
      /\ l.mnMap[q].keyIDOperator # Null =>
           /\ r.status = "ok" /\ r.mnMap = Restrict(l.mnMap, DOMAIN l.mnMap \ {q})
           /\ Exact(r.mnUniquePropertyMap, r.mnMap)
  BY ZenonT(30), <1>2, <1>3, RemoveMNFacts DEF Removed
<1> HIDE DEF r
<1>5. CASE l.mnMap[q].keyIDOperator = Null
  <2>1. Revocation(r) BY ZenonT(30), <1>4, <1>5 DEF Revocation, Revoked
  <2> QED BY ZenonT(30), <1>4, <1>5, <2>1 DEF r
<1>6. CASE l.mnMap[q].keyIDOperator # Null
  <2>1. r.mnMap = n /\ r.status = "ok" /\ Exact(r.mnUniquePropertyMap, r.mnMap) BY ZenonT(30), <1>4, <1>6
  <2>2. DOMAIN n = DOMAIN m \ {q} /\ n = [p \in DOMAIN n |-> n[p]] /\ \A p \in DOMAIN n : n[p] = m[p]
    BY Zenon DEF Restrict
  <2>3. IsFiniteSet(DOMAIN n)
    <3>1. DOMAIN n \in SUBSET DOMAIN m BY ZenonT(30), <2>2
    <3> QED BY ZenonT(30), <1>2, <3>1, FS_Subset
  <2> HIDE DEF n, m
  <2>4. IdsDiffer(n) BY ZenonT(30), <1>2, <2>2 DEF IdsDiffer
  <2>5. \A p \in DOMAIN n : MNOK(n[p]) /\ n[p].internalId < l.nTotalRegisteredCount
    BY ZenonT(30), <1>2, <2>2 DEF m
  <2>6. ListOK(r) BY ZenonT(30), <1>2, <1>4, <2>1, <2>2, <2>3, <2>4, <2>5 DEF ListOK
  <2>7. \A p \in DOMAIN n : Entry(prev, h, coins, R, p, n[p]) BY ZenonT(30), <2>2 DEF Built, m
  <2>8. ASSUME NEW p \in DOMAIN n, NEW v \in Properties(n[p]) PROVE Unclaimed(prev, r, v, p)
    <3>1. p \in DOMAIN m /\ v \in Properties(m[p]) BY ZenonT(30), <2>2, <2>8
    <3>2. Unclaimed(prev, l, v, p) BY Zenon, <3>1 DEF Built, m
    <3> QED BY ZenonT(30), <2>1, <2>2, <3>2 DEF Unclaimed, m
  <2>9. r.nHeight = h /\ r.nTotalRegisteredCount >= prev.nTotalRegisteredCount BY ZenonT(30), <1>4 DEF Built
  <2>10. Built(prev, h, coins, R, r) BY Zenon, <2>1, <2>6, <2>7, <2>8, <2>9 DEF Built
  <2> QED BY ZenonT(30), <1>4, <2>1, <2>10 DEF r, n, m
<1> QED BY ZenonT(30), <1>5, <1>6

\* An update of a masternode of prev that claims no property of another.
LEMMA UpdateBuilt ==
  ASSUME NEW prev, NEW h, NEW coins, NEW R, NEW l, Built(prev, h, coins, R, l),
         NEW p \in DOMAIN l.mnMap, p \in DOMAIN prev.mnMap, NEW new, MNOK(new),
         Kept(l.mnMap[p], new, h),
         \A v \in Properties(new) : Free(l.mnMap, v, p) /\ Unclaimed(prev, l, v, p)
  PROVE  Built(prev, h, coins, R, UpdateMN(l, p, new))
<1> DEFINE r == UpdateMN(l, p, new)
           m == l.mnMap
           n == [m EXCEPT ![p] = new]
<1>1. ListOK(l) BY Zenon DEF Built
<1>2. /\ IsList(l) /\ l.status = "ok" /\ Exact(l.mnUniquePropertyMap, l.mnMap)
      /\ \A q \in DOMAIN m : MNOK(m[q]) /\ m[q].internalId < l.nTotalRegisteredCount
      /\ IsFiniteSet(DOMAIN m) /\ IdsDiffer(m) /\ l.nTotalRegisteredCount \in Nat
      /\ m = [q \in DOMAIN m |-> m[q]]
  BY ZenonT(30), <1>1 DEF ListOK
<1>3. new.collateral = m[p].collateral /\ new.internalId = m[p].internalId BY Zenon DEF Kept
<1>4. \A v \in {new.addr, new.keyIDOwner, new.keyIDOperator} : Free(m, v, p)
  <2>1. Free(m, Null, p) BY ZenonT(30) DEF Free, Properties
  <2>2. \A v \in {new.addr, new.keyIDOwner, new.keyIDOperator} : v # Null => v \in Properties(new)
    BY Zenon DEF Properties, PropertyFields
  <2> QED BY Zenon, <2>1, <2>2
<1>5. /\ IsList(r) /\ r.mnMap = n /\ Exact(r.mnUniquePropertyMap, r.mnMap)
      /\ r.nHeight = l.nHeight /\ r.nTotalRegisteredCount = l.nTotalRegisteredCount
      /\ r.status = l.status
  BY <1>2, <1>3, <1>4, UpdateMNFacts
<1> HIDE DEF r
<1>6. /\ DOMAIN n = DOMAIN m /\ n[p] = new /\ \A q \in DOMAIN m : q # p => n[q] = m[q]
      /\ n = [q \in DOMAIN n |-> n[q]]
  BY ZenonT(30), <1>2
<1> HIDE DEF n, m
<1>7. IdsDiffer(n) BY <1>2, <1>3, <1>6 DEF IdsDiffer, m
<1>8. \A q \in DOMAIN n : MNOK(n[q]) /\ n[q].internalId < l.nTotalRegisteredCount
  BY Zenon, <1>2, <1>3, <1>6 DEF m
<1>9. ListOK(r) BY <1>2, <1>5, <1>6, <1>7, <1>8 DEF ListOK
<1>10. \A q \in DOMAIN n : Entry(prev, h, coins, R, q, n[q])
  <2>1. \A q \in DOMAIN m : Entry(prev, h, coins, R, q, m[q]) BY Zenon DEF Built, m
  <2>2. Entry(prev, h, coins, R, p, new)
    <3>1. new.collateral \in coins BY ZenonT(30), <1>3, <2>1 DEF Entry, m
    <3>2. Kept(prev.mnMap[p], m[p], h) BY ZenonT(30), <2>1 DEF Entry, m
    <3>3. Kept(prev.mnMap[p], new, h) BY ZenonT(30), <3>2 DEF Kept, m
    <3> QED BY Zenon, <3>1, <3>3 DEF Entry
  <2> QED BY Zenon, <1>6, <2>1, <2>2
<1>11. ASSUME NEW q \in DOMAIN n, NEW v \in Properties(n[q]) PROVE Unclaimed(prev, r, v, q)
  <2>1. CASE q = p
    <3>1. Unclaimed(prev, l, v, p) BY Zenon, <1>6, <1>11, <2>1
    <3> QED BY ZenonT(30), <1>5, <1>6, <2>1, <3>1 DEF Unclaimed, m
  <2>2. CASE q # p
    <3>1. Unclaimed(prev, l, v, q) BY ZenonT(30), <1>6, <1>11, <2>2 DEF Built, m
    <3> QED BY ZenonT(30), <1>5, <1>6, <3>1 DEF Unclaimed, m
  <2> QED BY ZenonT(30), <2>1, <2>2
<1>12. r.nHeight = h /\ r.nTotalRegisteredCount >= prev.nTotalRegisteredCount BY ZenonT(30), <1>5 DEF Built
<1>13. Built(prev, h, coins, R, r) BY ZenonT(30), <1>5, <1>9, <1>10, <1>11, <1>12 DEF Built
<1> QED BY ZenonT(30), <1>13 DEF r

\* The update of one masternode keeps its own properties unclaimed.
LEMMA OwnProperties ==
  ASSUME NEW prev, NEW h, NEW coins, NEW R, NEW l, Built(prev, h, coins, R, l),
         NEW p \in DOMAIN l.mnMap, NEW v \in Properties(l.mnMap[p])
  PROVE  Free(l.mnMap, v, p) /\ Unclaimed(prev, l, v, p)
<1>1. ListOK(l) /\ Unclaimed(prev, l, v, p) BY Zenon DEF Built
<1> QED BY Zenon, <1>1, ListOKFree

\* A property that both checks found free is unclaimed.
LEMMA FreeProperty ==
  ASSUME NEW prev, NEW h, NEW coins, NEW R, NEW l, Built(prev, h, coins, R, l), ListOK(prev),
         NEW p, NEW v, ~UsedByOther(l, v, p), ~UsedByOther(prev, v, p)
  PROVE  Free(l.mnMap, v, p) /\ Unclaimed(prev, l, v, p)
<1>1. ListOK(l) BY ZenonT(30) DEF Built
<1>2. Free(l.mnMap, v, p) /\ Free(prev.mnMap, v, p) BY Zenon, <1>1, NotUsedByOther
<1> QED BY Zenon, <1>2 DEF Unclaimed, Free

\* The properties of a masternode that differs from mn in its address and operator key.
LEMMA NewProperties ==
  ASSUME NEW mn, NEW new, new.collateral = mn.collateral, new.keyIDOwner = mn.keyIDOwner,
         NEW v \in Properties(new)
  PROVE  v # Null /\ (v \in Properties(mn) \/ v = new.addr \/ v = new.keyIDOperator)
BY ZenonT(30) DEF Properties, PropertyFields

\* ProUpServTx: a new address, and a revival if the masternode was banned.
LEMMA UpdateServiceBuilt ==
  ASSUME NEW prev, NEW h, NEW coins, NEW R, NEW l, Built(prev, h, coins, R, l), ListOK(prev),
         NEW tx \in Tx, tx.type = "PROUPSERV", CheckProUpServTx(tx, prev)
  PROVE  LET r == UpdateService(l, tx, h)
         IN  Built(prev, h, coins, R, r) \/ r.status = "rejected"
<1> DEFINE p == tx.proTx
           mn == [l.mnMap[p] EXCEPT !.addr = tx.addr]
           revived == [mn EXCEPT !.nPoSeBanHeight = -1, !.nPoSeRevivedHeight = h]
           new == IF mn.nPoSeBanHeight # -1 /\ mn.keyIDOperator # Null THEN revived ELSE mn
<1>1. ListOK(l) /\ IsList(l) /\ l.status = "ok" BY ZenonT(30) DEF Built, ListOK
<1>2. CASE UsedByOther(l, tx.addr, p) \/ ~HasMN(l, p)
  <2>1. UpdateService(l, tx, h) = Fail(l, "rejected") BY ZenonT(30), <1>2 DEF UpdateService
  <2> QED BY ZenonT(30), <1>1, <2>1, FailRejects
<1>3. CASE ~UsedByOther(l, tx.addr, p) /\ p \in DOMAIN l.mnMap
  <2>1. UpdateService(l, tx, h) = UpdateMN(l, p, new) BY ZenonT(30), <1>3 DEF UpdateService, HasMN
  <2>2. p \in DOMAIN prev.mnMap /\ ~UsedByOther(prev, tx.addr, p) BY ZenonT(30) DEF CheckProUpServTx, HasMN
  <2>3. MNOK(l.mnMap[p]) BY ZenonT(30), <1>1, <1>3 DEF ListOK
  <2>4. tx.addr \notin Collateral BY ZenonT(30), ChainAssumption
  <2> DEFINE a == l.mnMap[p]
  <2>5. IsMN(a) BY Zenon, <2>3 DEF MNOK
  <2> HIDE DEF a
  <2>6. /\ IsMN(new) /\ new.collateral = a.collateral /\ new.keyIDOwner = a.keyIDOwner
        /\ new.keyIDOperator = a.keyIDOperator /\ new.addr = tx.addr
        /\ Kept(a, new, h)
    BY Zenon, <2>5 DEF IsMN, MNFields, Kept, a
  <2> HIDE DEF new
  <2>7. MNOK(new) BY ZenonT(30), <2>3, <2>4, <2>6 DEF MNOK, a
  <2>8. ASSUME NEW v \in Properties(new) PROVE Free(l.mnMap, v, p) /\ Unclaimed(prev, l, v, p)
    <3>1. v \in Properties(a) \/ v = tx.addr \/ v = a.keyIDOperator BY ZenonT(30), <2>6, <2>8, NewProperties
    <3>2. v # Null BY ZenonT(30) DEF Properties
    <3>3. v = a.keyIDOperator => v \in Properties(a) BY ZenonT(30), <3>2 DEF Properties, PropertyFields
    <3>4. CASE v \in Properties(a) BY ZenonT(30), <1>3, <3>4, OwnProperties DEF a
    <3>5. CASE v = tx.addr BY ZenonT(30), <1>3, <2>2, <3>5, FreeProperty
    <3> QED BY ZenonT(30), <3>1, <3>3, <3>4, <3>5
  <2>9. Built(prev, h, coins, R, UpdateMN(l, p, new))
    BY ZenonT(30), <1>3, <2>2, <2>6, <2>7, <2>8, UpdateBuilt DEF a
  <2> QED BY Zenon, <2>1, <2>9 DEF new
<1> QED BY ZenonT(30), <1>2, <1>3 DEF HasMN

\* ProUpRegTx: a new operator key resets the address and bans the masternode.
LEMMA UpdateRegistrarBuilt ==
  ASSUME NEW prev, NEW h, NEW coins, NEW R, NEW l, Built(prev, h, coins, R, l), ListOK(prev),
         NEW tx \in Tx, tx.type = "PROUPREG", CheckProUpRegTx(tx, prev, coins), h \in Nat
  PROVE  LET r == UpdateRegistrar(l, tx, h)
         IN  Built(prev, h, coins, R, r) \/ r.status = "rejected"
<1> DEFINE p == tx.proTx
           mn == l.mnMap[p]
           kept == IF mn.keyIDOperator = tx.keyIDOperator THEN mn
                   ELSE BanIfNotBanned(ResetOperatorFields(mn), h)
           new == [kept EXCEPT !.keyIDOperator = tx.keyIDOperator]
<1>1. ListOK(l) /\ IsList(l) /\ l.status = "ok" BY ZenonT(30) DEF Built, ListOK
<1>2. CASE ~HasMN(l, p) \/ UsedByOther(l, tx.keyIDOperator, p)
  <2>1. UpdateRegistrar(l, tx, h) = Fail(l, "rejected") BY ZenonT(30), <1>2 DEF UpdateRegistrar
  <2> QED BY ZenonT(30), <1>1, <2>1, FailRejects
<1>3. CASE ~UsedByOther(l, tx.keyIDOperator, p) /\ p \in DOMAIN l.mnMap
  <2>1. UpdateRegistrar(l, tx, h) = UpdateMN(l, p, new) BY ZenonT(30), <1>3 DEF UpdateRegistrar, HasMN
  <2>2. p \in DOMAIN prev.mnMap /\ ~UsedByOther(prev, tx.keyIDOperator, p)
    BY Zenon DEF CheckProUpRegTx, HasMN
  <2>3. MNOK(l.mnMap[p]) BY ZenonT(30), <1>1, <1>3 DEF ListOK
  <2>4. tx.keyIDOperator \notin Collateral /\ Null \notin Collateral BY ZenonT(30), ChainAssumption
  <2> DEFINE a == l.mnMap[p]
  <2>5. IsMN(a) BY ZenonT(30), <2>3 DEF MNOK
  <2> HIDE DEF a
  <2>6. /\ IsMN(new) /\ new.collateral = a.collateral /\ new.keyIDOwner = a.keyIDOwner
        /\ new.keyIDOperator = tx.keyIDOperator /\ new.addr \in {a.addr, Null}
        /\ Kept(a, new, h)
    BY ZenonT(30), <2>5 DEF IsMN, MNFields, Kept, a, BanIfNotBanned, ResetOperatorFields
  <2> HIDE DEF new
  <2>7. MNOK(new) BY ZenonT(30), <2>3, <2>4, <2>6 DEF MNOK, a
  <2>8. ASSUME NEW v \in Properties(new) PROVE Free(l.mnMap, v, p) /\ Unclaimed(prev, l, v, p)
    <3>1. v \in Properties(a) \/ v = new.addr \/ v = tx.keyIDOperator
      BY ZenonT(30), <2>6, <2>8, NewProperties
    <3>2. v # Null BY ZenonT(30) DEF Properties
    <3>3. v = new.addr => v \in Properties(a) BY ZenonT(30), <2>6, <3>2 DEF Properties, PropertyFields
    <3>4. CASE v \in Properties(a) BY ZenonT(30), <1>3, <3>4, OwnProperties DEF a
    <3>5. CASE v = tx.keyIDOperator BY ZenonT(30), <1>3, <2>2, <3>5, FreeProperty
    <3> QED BY ZenonT(30), <3>1, <3>3, <3>4, <3>5
  <2>9. Built(prev, h, coins, R, UpdateMN(l, p, new))
    BY ZenonT(30), <1>3, <2>2, <2>6, <2>7, <2>8, UpdateBuilt DEF a
  <2> QED BY Zenon, <2>1, <2>9 DEF new
<1> QED BY ZenonT(30), <1>2, <1>3 DEF HasMN

\* ProUpRevTx: the operator key and the address become null, and the masternode is banned.
LEMMA RevokeBuilt ==
  ASSUME NEW prev, NEW h, NEW coins, NEW R, NEW l, Built(prev, h, coins, R, l),
         NEW tx, CheckProUpRevTx(tx, prev), h \in Nat
  PROVE  LET r == Revoke(l, tx, h)
         IN  Built(prev, h, coins, R, r) \/ r.status = "rejected"
<1> DEFINE p == tx.proTx
           new == BanIfNotBanned(ResetOperatorFields(l.mnMap[p]), h)
<1>1. ListOK(l) /\ IsList(l) /\ l.status = "ok" BY Zenon DEF Built, ListOK
<1>2. CASE ~HasMN(l, p)
  <2>1. Revoke(l, tx, h) = Fail(l, "rejected") BY ZenonT(30), <1>2 DEF Revoke
  <2> QED BY ZenonT(30), <1>1, <2>1, FailRejects
<1>3. CASE p \in DOMAIN l.mnMap
  <2>1. Revoke(l, tx, h) = UpdateMN(l, p, new) BY ZenonT(30), <1>3 DEF Revoke, HasMN
  <2>2. p \in DOMAIN prev.mnMap BY ZenonT(30) DEF CheckProUpRevTx, HasMN
  <2>3. MNOK(l.mnMap[p]) BY ZenonT(30), <1>1, <1>3 DEF ListOK
  <2>4. Null \notin Collateral BY ZenonT(30), ChainAssumption
  <2> DEFINE a == l.mnMap[p]
  <2>5. IsMN(a) BY Zenon, <2>3 DEF MNOK
  <2> HIDE DEF a
  <2>6. /\ IsMN(new) /\ new.collateral = a.collateral /\ new.keyIDOwner = a.keyIDOwner
        /\ new.keyIDOperator = Null /\ new.addr = Null /\ Kept(a, new, h)
    BY Zenon, <2>5 DEF IsMN, MNFields, Kept, a, BanIfNotBanned, ResetOperatorFields
  <2> HIDE DEF new
  <2>7. MNOK(new) BY ZenonT(30), <2>3, <2>4, <2>6 DEF MNOK, a
  <2>8. ASSUME NEW v \in Properties(new) PROVE Free(l.mnMap, v, p) /\ Unclaimed(prev, l, v, p)
    <3>1. v \in Properties(a) BY ZenonT(30), <2>6, <2>8, NewProperties
    <3> QED BY Zenon, <1>3, <3>1, OwnProperties DEF a
  <2>9. Built(prev, h, coins, R, UpdateMN(l, p, new))
    BY ZenonT(30), <1>3, <2>2, <2>6, <2>7, <2>8, UpdateBuilt DEF a
  <2> QED BY Zenon, <2>1, <2>9 DEF new
<1> QED BY ZenonT(30), <1>2, <1>3 DEF HasMN

\* The masternode of a registration.
NewMN(l, tx, h) ==
  [internalId |-> l.nTotalRegisteredCount, collateral |-> tx.collateral, addr |-> tx.addr,
   keyIDOwner |-> tx.keyIDOwner, keyIDOperator |-> tx.keyIDOperator,
   nRegisteredHeight |-> h, nLastPaidHeight |-> 0, nPoSeRevivedHeight |-> -1,
   nPoSeBanHeight |-> IF tx.addr = Null THEN h ELSE -1, confirmed |-> Null]

\* A registration in a list k where its collateral, address and keys are free.
LEMMA AddBuilt ==
  ASSUME NEW prev, NEW h, NEW coins, NEW R, NEW k, Built(prev, h, coins, R, k), ListOK(prev),
         NEW tx \in Tx, tx.type = "PROREG", CheckProRegTx(tx, prev, coins),
         tx.proTx \notin DOMAIN prev.mnMap, tx.proTx \notin R,
         \A v \in {tx.collateral, tx.addr, tx.keyIDOwner, tx.keyIDOperator} : ~HasUniqueProperty(k, v),
         NEW mn, mn = NewMN(k, tx, h), NEW bump \in BOOLEAN, Bumps(bump)
  PROVE  Built(prev, h, coins, R \cup {tx.proTx}, AddMN(k, tx.proTx, mn, bump))
<1> DEFINE p == tx.proTx
           r == AddMN(k, p, mn, bump)
           m == k.mnMap
           n == Set(m, p, mn)
<1>1. ListOK(k) BY ZenonT(30) DEF Built
<1>2. /\ IsList(k) /\ k.status = "ok" /\ Exact(k.mnUniquePropertyMap, k.mnMap)
      /\ \A q \in DOMAIN m : MNOK(m[q]) /\ m[q].internalId < k.nTotalRegisteredCount
      /\ IsFiniteSet(DOMAIN m) /\ IdsDiffer(m) /\ k.nTotalRegisteredCount \in Nat
      /\ m = [q \in DOMAIN m |-> m[q]]
  BY ZenonT(30), <1>1 DEF ListOK
<1>3. \A q \in DOMAIN m : Entry(prev, h, coins, R, q, m[q]) BY Zenon DEF Built
<1>4. p \notin DOMAIN m BY ZenonT(30), <1>3 DEF Entry
<1>5. /\ IsMN(mn) /\ mn.internalId = k.nTotalRegisteredCount /\ mn.collateral = tx.collateral
      /\ mn.addr = tx.addr /\ mn.keyIDOwner = tx.keyIDOwner /\ mn.keyIDOperator = tx.keyIDOperator
      /\ mn.nRegisteredHeight = h /\ mn.nLastPaidHeight = 0 /\ mn.nPoSeRevivedHeight = -1
  BY ZenonT(30) DEF NewMN, IsMN, MNFields
<1>6. /\ tx.collateral \in Collateral /\ tx.collateral \in coins /\ Null \notin Collateral
      /\ tx.keyIDOwner # Null /\ tx.keyIDOperator # Null
      /\ {tx.addr, tx.keyIDOwner, tx.keyIDOperator} \cap Collateral = {}
  BY ZenonT(30), ChainAssumption DEF CheckProRegTx
<1>7. mn.internalId \notin InternalIds(k) BY <1>2, <1>5 DEF InternalIds, IdsDiffer
<1>8. \A f \in PropertyFields : mn[f] \notin DOMAIN k.mnUniquePropertyMap
  BY Zenon, <1>5 DEF PropertyFields, HasUniqueProperty
<1>9. /\ IsList(r) /\ r.mnMap = n /\ Exact(r.mnUniquePropertyMap, r.mnMap) /\ r.nHeight = k.nHeight
      /\ r.nTotalRegisteredCount = (IF bump /\ mn.internalId >= k.nTotalRegisteredCount
                                      THEN mn.internalId + 1 ELSE k.nTotalRegisteredCount)
      /\ r.status = IF mn.keyIDOperator = Null THEN Asserts(k) ELSE k.status
  <2>1. mn.collateral # Null /\ mn.keyIDOwner # Null BY ZenonT(30), <1>5, <1>6
  <2>2. IsList(k) /\ Exact(k.mnUniquePropertyMap, k.mnMap) /\ p \notin DOMAIN k.mnMap
    BY ZenonT(30), <1>2, <1>4
  <2> HIDE DEF p
  <2> QED BY <1>7, <1>8, <2>1, <2>2, AddMNFacts
<1> HIDE DEF r
<1>10. r.nTotalRegisteredCount = k.nTotalRegisteredCount + 1 BY <1>2, <1>5, <1>9 DEF Bumps
<1>11. r.status = "ok" BY <1>2, <1>5, <1>6, <1>9
<1>12. /\ DOMAIN n = DOMAIN m \cup {p} /\ n = [q \in DOMAIN n |-> n[q]] /\ n[p] = mn
       /\ \A q \in DOMAIN m : n[q] = m[q]
  BY ZenonT(30), <1>4 DEF Set
<1> HIDE DEF n
<1>13. IsFiniteSet(DOMAIN n) BY <1>2, <1>12, FS_AddElement
<1>14. IdsDiffer(n) BY <1>2, <1>5, <1>12 DEF IdsDiffer
<1>15. MNOK(mn) BY ZenonT(30), <1>5, <1>6 DEF MNOK
<1>16. \A q \in DOMAIN n : MNOK(n[q]) /\ n[q].internalId < r.nTotalRegisteredCount
  BY <1>2, <1>5, <1>10, <1>12, <1>15 DEF IdsDiffer
<1>17. ListOK(r)
  <2>1. r.nTotalRegisteredCount \in Nat BY <1>2, <1>10
  <2> QED BY ZenonT(30), <1>9, <1>11, <1>12, <1>13, <1>14, <1>16, <2>1 DEF ListOK
<1>18. r.nHeight = h /\ r.nTotalRegisteredCount >= prev.nTotalRegisteredCount
  <2>1. prev.nTotalRegisteredCount \in Nat BY ZenonT(30) DEF ListOK
  <2> QED BY <1>2, <1>9, <1>10, <2>1 DEF Built
<1>19. \A q \in DOMAIN n : Entry(prev, h, coins, R \cup {p}, q, n[q])
  <2>1. Entry(prev, h, coins, R \cup {p}, p, mn)
    <3>1. k.nTotalRegisteredCount >= prev.nTotalRegisteredCount BY ZenonT(30) DEF Built
    <3> QED BY ZenonT(30), <1>5, <1>6, <3>1 DEF Entry, Fresh
  <2>2. \A q \in DOMAIN m : Entry(prev, h, coins, R \cup {p}, q, m[q]) BY Zenon, <1>3 DEF Entry
  <2> QED BY Zenon, <1>12, <2>1, <2>2
<1>20. ASSUME NEW q \in DOMAIN n, NEW v \in Properties(n[q]) PROVE Unclaimed(prev, r, v, q)
  <2>1. SUFFICES ASSUME NEW x \in DOMAIN prev.mnMap, x \in DOMAIN m, v \in Properties(prev.mnMap[x])
                 PROVE  x = q
    BY ZenonT(30), <1>9, <1>12 DEF Unclaimed
  <2>2. CASE q = p
    <3>1. prev.mnMap[x].collateral = tx.collateral
      <4>1. MNOK(prev.mnMap[x]) BY ZenonT(30) DEF ListOK
      <4>2. v \in DOMAIN prev.mnUniquePropertyMap /\ prev.mnUniquePropertyMap[v].proTx = x
        BY ZenonT(30), <2>1, InMap
      <4>3. v \in {tx.collateral, tx.addr, tx.keyIDOwner, tx.keyIDOperator}
        BY <1>5, <1>12, <1>20, <2>2 DEF Properties, PropertyFields
      <4>4. CASE v = tx.collateral BY <1>6, <2>1, <4>1, <4>4, CollateralOf
      <4>5. CASE v = tx.addr BY ZenonT(30), <4>2, <4>5 DEF CheckProRegTx, HasUniqueProperty
      <4>6. CASE v \in {tx.keyIDOwner, tx.keyIDOperator}
        BY ZenonT(30), <4>2, <4>6 DEF CheckProRegTx, HasUniqueProperty
      <4> QED BY ZenonT(30), <4>3, <4>4, <4>5, <4>6
    <3>2. m[x].collateral = tx.collateral BY ZenonT(30), <1>3, <2>1, <3>1 DEF Entry, Kept
    <3>3. tx.collateral \in Properties(m[x]) BY <1>2, <1>6, <2>1, <3>2, CollateralOf
    <3>4. HasUniqueProperty(k, tx.collateral) BY <1>1, <2>1, <3>3, InMap DEF HasUniqueProperty
    <3> QED BY ZenonT(30), <3>4
  <2>3. CASE q # p
    <3>1. q \in DOMAIN m /\ v \in Properties(m[q]) BY ZenonT(30), <1>12, <1>20, <2>3
    <3>2. Unclaimed(prev, k, v, q) BY Zenon, <3>1 DEF Built
    <3> QED BY ZenonT(30), <2>1, <3>2 DEF Unclaimed
  <2> QED BY ZenonT(30), <2>2, <2>3
<1>21. Built(prev, h, coins, R \cup {p}, r) BY ZenonT(30), <1>9, <1>17, <1>18, <1>19, <1>20 DEF Built
<1> QED BY ZenonT(30), <1>21 DEF r

\* ProRegTx: it replaces the masternode with the same collateral.
LEMMA RegisterBuilt ==
  ASSUME NEW prev, NEW h, NEW coins, NEW R, NEW l, Built(prev, h, coins, R, l), ListOK(prev),
         NEW tx \in Tx, tx.type = "PROREG", CheckProRegTx(tx, prev, coins),
         tx.proTx \notin DOMAIN prev.mnMap, tx.proTx \notin R
  PROVE  LET r == Register(l, tx, h, coins)
         IN  \/ Built(prev, h, coins, R \cup {tx.proTx}, r)
             \/ r.status = "rejected" \/ Revocation(r)
<1>0. PICK bump \in BOOLEAN : bump = TRUE BY Zenon
<1> DEFINE c == tx.collateral
           q == l.mnUniquePropertyMap[c].proTx
           kept == IF HasUniqueProperty(l, c) THEN RemoveMN(l, q) ELSE l
           mn == NewMN(l, tx, h)
           clash == \E v \in {tx.addr, tx.keyIDOwner, tx.keyIDOperator} : HasUniqueProperty(kept, v)
<1>1. ListOK(l) /\ IsList(l) /\ l.status = "ok" BY ZenonT(30) DEF Built, ListOK
<1>2. c \in coins /\ c \in Collateral BY ZenonT(30), ChainAssumption DEF CheckProRegTx
<1>3. Register(l, tx, h, coins) = IF clash THEN Fail(kept, "rejected") ELSE AddMN(kept, tx.proTx, mn, bump)
  BY ZenonT(30), <1>0, <1>2 DEF Register, NewMN
<1>4. \/ /\ IsList(kept) /\ Revocation(kept)
      \/ /\ Built(prev, h, coins, R, kept) /\ ~HasUniqueProperty(kept, c)
         /\ kept.nTotalRegisteredCount = l.nTotalRegisteredCount
  <2>1. CASE ~HasUniqueProperty(l, c) BY ZenonT(30), <2>1
  <2>2. CASE HasUniqueProperty(l, c)
    <3> DEFINE k == RemoveMN(l, q)
    <3>1. q \in DOMAIN l.mnMap /\ Free(l.mnMap, c, q)
      BY ZenonT(30), <1>1, <2>2, OwnerOf DEF HasUniqueProperty
    <3> HIDE DEF q
    <3>2. /\ IsList(k)
          /\ \/ Revocation(k) /\ k.mnMap = l.mnMap
             \/ /\ Built(prev, h, coins, R, k)
                /\ k.mnMap = Restrict(l.mnMap, DOMAIN l.mnMap \ {q})
                /\ k.nTotalRegisteredCount = l.nTotalRegisteredCount
      BY <3>1, RemoveBuilt
    <3> HIDE DEF k
    <3>3. ASSUME Built(prev, h, coins, R, k), k.mnMap = Restrict(l.mnMap, DOMAIN l.mnMap \ {q})
          PROVE  ~HasUniqueProperty(k, c)
      <4>1. ListOK(k) BY ZenonT(30), <3>3 DEF Built
      <4>2. SUFFICES ASSUME c \in DOMAIN k.mnUniquePropertyMap PROVE FALSE
        BY ZenonT(30) DEF HasUniqueProperty
      <4>3. PICK x \in DOMAIN k.mnMap : c \in Properties(k.mnMap[x]) BY ZenonT(30), <4>1, <4>2, OwnerOf
      <4>4. x \in DOMAIN l.mnMap /\ x # q /\ k.mnMap[x] = l.mnMap[x] BY ZenonT(30), <3>3 DEF Restrict
      <4> QED BY ZenonT(30), <3>1, <4>3, <4>4 DEF Free
    <3> QED BY ZenonT(30), <2>2, <3>2, <3>3 DEF k
  <2> QED BY ZenonT(30), <2>1, <2>2
<1> HIDE DEF kept
<1>5. CASE IsList(kept) /\ Revocation(kept)
  <2>1. PICK x \in DOMAIN kept.mnMap : kept.mnMap[x].keyIDOperator = Null
    BY ZenonT(30), <1>5 DEF Revocation, Revoked
  <2>2. kept.status = "assert" BY ZenonT(30), <1>5 DEF Revocation
  <2> DEFINE f == Fail(kept, "rejected")
             a == AddMN(kept, tx.proTx, mn, bump)
  <2>3. f.status = "assert" /\ f.mnMap = kept.mnMap BY ZenonT(30), <1>5, <2>2, FailedFail
  <2>4. a.status = "assert" /\ \A y \in DOMAIN kept.mnMap : y \in DOMAIN a.mnMap /\ a.mnMap[y] = kept.mnMap[y]
    <3> HIDE DEF mn
    <3> QED BY <1>5, <2>2, FailedAdd
  <2> HIDE DEF f, a
  <2>5. Revocation(f) /\ Revocation(a) BY Zenon, <2>1, <2>3, <2>4 DEF Revocation, Revoked
  <2>6. Register(l, tx, h, coins) = f \/ Register(l, tx, h, coins) = a BY Zenon, <1>3 DEF f, a
  <2> QED BY ZenonT(30), <2>5, <2>6
<1>6. CASE /\ Built(prev, h, coins, R, kept) /\ ~HasUniqueProperty(kept, c)
           /\ kept.nTotalRegisteredCount = l.nTotalRegisteredCount
  <2>1. IsList(kept) /\ kept.status = "ok" BY ZenonT(30), <1>6 DEF Built, ListOK
  <2>2. CASE clash
    <3>1. Register(l, tx, h, coins) = Fail(kept, "rejected") BY Zenon, <1>3, <2>2
    <3> QED BY ZenonT(30), <2>1, <3>1, FailRejects
  <2>3. CASE ~clash
    <3>1. Register(l, tx, h, coins) = AddMN(kept, tx.proTx, mn, bump) BY Zenon, <1>3, <2>3
    <3>2. mn = NewMN(kept, tx, h) BY ZenonT(30), <1>6 DEF NewMN
    <3>3. \A v \in {tx.collateral, tx.addr, tx.keyIDOwner, tx.keyIDOperator} : ~HasUniqueProperty(kept, v)
      BY ZenonT(30), <1>6, <2>3
    <3> HIDE DEF mn
    <3>4. Built(prev, h, coins, R \cup {tx.proTx}, AddMN(kept, tx.proTx, mn, bump))
      <4>1. Bumps(bump) BY ZenonT(30), <1>0 DEF Bumps
      <4> QED BY <1>6, <3>2, <3>3, <4>1, AddBuilt
    <3> QED BY Zenon, <3>1, <3>4
  <2> QED BY ZenonT(30), <2>2, <2>3
<1> QED BY ZenonT(30), <1>4, <1>5, <1>6

\* The registrations among the first i transactions of a block.
Registrations(vtx, i) == {vtx[j].proTx : j \in {j \in 1 .. i : vtx[j].type = "PROREG"}}

\* A list that is being built, or that a transaction or a revoked masternode has stopped.
BuiltOrFailed(prev, h, coins, R, l) ==
  Built(prev, h, coins, R, l) \/ l.status = "rejected" \/ Revocation(l)

\* More registrations.
LEMMA BuiltMore ==
  ASSUME NEW prev, NEW h, NEW coins, NEW R, NEW Q, R \subseteq Q, NEW l, Built(prev, h, coins, R, l)
  PROVE  Built(prev, h, coins, Q, l)
<1>1. \A p \in DOMAIN l.mnMap : Entry(prev, h, coins, Q, p, l.mnMap[p]) BY ZenonT(30) DEF Built, Entry
<1> QED BY Zenon, <1>1 DEF Built

\* One transaction of a block that passed CheckSpecialTx.
LEMMA ProcessTxBuilt ==
  ASSUME NEW prev, NEW h \in Nat, NEW coins, NEW R, NEW l, BuiltOrFailed(prev, h, coins, R, l),
         ListOK(prev), NEW tx \in Tx, CheckSpecialTx(tx, prev, coins),
         tx.type = "PROREG" => tx.proTx \notin DOMAIN prev.mnMap /\ tx.proTx \notin R,
         NEW Q, R \subseteq Q, tx.type = "PROREG" => R \cup {tx.proTx} \subseteq Q
  PROVE  BuiltOrFailed(prev, h, coins, Q, ProcessTx(l, tx, h, coins))
<1> DEFINE r == ProcessTx(l, tx, h, coins)
<1>1. CASE ~Built(prev, h, coins, R, l)
  <2>1. l.status = "rejected" \/ Revocation(l) BY Zenon, <1>1 DEF BuiltOrFailed
  <2>2. l.status # "ok" BY ZenonT(30), <2>1 DEF Revocation
  <2>3. r = l BY Zenon, <2>2 DEF ProcessTx
  <2> QED BY Zenon, <2>1, <2>3 DEF BuiltOrFailed
<1>2. CASE Built(prev, h, coins, R, l)
  <2>1. l.status = "ok" BY ZenonT(30), <1>2 DEF Built, ListOK
  <2>2. SUFFICES \/ Built(prev, h, coins, R, r) \/ r.status = "rejected" \/ Revocation(r)
                 \/ tx.type = "PROREG" /\ Built(prev, h, coins, R \cup {tx.proTx}, r)
    BY Zenon, BuiltMore DEF BuiltOrFailed
  <2>3. tx.type \in {"PROREG", "PROUPSERV", "PROUPREG", "PROUPREV", "NORMAL"} BY ZenonT(30), ChainAssumption
  <2>4. CASE tx.type = "PROREG"
    <3>1. r = Register(l, tx, h, coins) /\ CheckProRegTx(tx, prev, coins)
      BY ZenonT(30), <2>1, <2>4 DEF ProcessTx, CheckSpecialTx
    <3> QED BY ZenonT(30), <1>2, <2>4, <3>1, RegisterBuilt
  <2>5. CASE tx.type = "PROUPSERV"
    <3>1. r = UpdateService(l, tx, h) /\ CheckProUpServTx(tx, prev)
      BY ZenonT(30), <2>1, <2>5 DEF ProcessTx, CheckSpecialTx
    <3> QED BY ZenonT(30), <1>2, <2>5, <3>1, UpdateServiceBuilt
  <2>6. CASE tx.type = "PROUPREG"
    <3>1. r = UpdateRegistrar(l, tx, h) /\ CheckProUpRegTx(tx, prev, coins)
      BY ZenonT(30), <2>1, <2>6 DEF ProcessTx, CheckSpecialTx
    <3> QED BY ZenonT(30), <1>2, <2>6, <3>1, UpdateRegistrarBuilt
  <2>7. CASE tx.type = "PROUPREV"
    <3>1. r = Revoke(l, tx, h) /\ CheckProUpRevTx(tx, prev)
      BY ZenonT(30), <2>1, <2>7 DEF ProcessTx, CheckSpecialTx
    <3> QED BY Zenon, <1>2, <3>1, RevokeBuilt
  <2>8. CASE tx.type = "NORMAL"
    <3>1. r = l BY ZenonT(30), <2>1, <2>8 DEF ProcessTx
    <3> QED BY Zenon, <1>2, <3>1
  <2> QED BY ZenonT(30), <2>3, <2>4, <2>5, <2>6, <2>7, <2>8
<1> QED BY Zenon, <1>1, <1>2

\* The transactions of a block.
LEMMA ProcessTxsBuilt ==
  ASSUME NEW prev, NEW h \in Nat, NEW coins, NEW l, Built(prev, h, coins, {}, l), ListOK(prev),
         NEW vtx, Len(vtx) \in Nat,
         \A i \in 1 .. Len(vtx) : vtx[i] \in Tx /\ CheckSpecialTx(vtx[i], prev, coins),
         \A i \in 1 .. Len(vtx) : vtx[i].type = "PROREG" =>
           /\ vtx[i].proTx \notin DOMAIN prev.mnMap
           /\ \A j \in 1 .. Len(vtx) : j < i /\ vtx[j].type = "PROREG" => vtx[j].proTx # vtx[i].proTx
  PROVE  BuiltOrFailed(prev, h, coins, Registrations(vtx, Len(vtx)), ProcessTxs(l, vtx, h, coins))
<1> DEFINE N == Len(vtx)
<1>1. PICK g : /\ g[0] = l /\ ProcessTxs(l, vtx, h, coins) = g[N]
               /\ \A n \in 1 .. N : g[n] = ProcessTx(g[n - 1], vtx[n], h, coins)
  BY ProcessTxsSteps
<1>2. N \in Nat BY Zenon
<1> HIDE DEF N
<1> DEFINE J(i) == BuiltOrFailed(prev, h, coins, Registrations(vtx, i), g[i])
           T == {i \in 0 .. N : J(i)}
<1>3. 0 \in T
  <2>1. Registrations(vtx, 0) = {} BY DEF Registrations
  <2>2. J(0) BY Zenon, <1>1, <2>1 DEF BuiltOrFailed
  <2> QED BY <1>2, <2>2
<1>4. ASSUME NEW i \in 1 .. N, i - 1 \in T PROVE i \in T
  <2> DEFINE R == Registrations(vtx, i - 1)
             Q == Registrations(vtx, i)
             tx == vtx[i]
             k == g[i - 1]
  <2>1. i \in 0 .. N /\ i \in Nat /\ 1 .. i = (1 .. (i - 1)) \cup {i} /\ \A j \in 1 .. (i - 1) : j \in 1 .. N /\ j < i
    BY <1>2
  <2>2. BuiltOrFailed(prev, h, coins, R, k) BY Zenon, <1>4
  <2>3. tx \in Tx /\ CheckSpecialTx(tx, prev, coins) BY Zenon DEF N
  <2>4. tx.type = "PROREG" => tx.proTx \notin DOMAIN prev.mnMap /\ tx.proTx \notin R
    BY ZenonT(30), <2>1 DEF Registrations, N
  <2>5. R \subseteq Q /\ (tx.type = "PROREG" => R \cup {tx.proTx} \subseteq Q)
    BY ZenonT(30), <2>1 DEF Registrations
  <2>6. g[i] = ProcessTx(k, tx, h, coins) BY Zenon, <1>1
  <2> HIDE DEF R, Q, tx, k
  <2>7. BuiltOrFailed(prev, h, coins, Q, g[i]) BY <2>2, <2>3, <2>4, <2>5, <2>6, ProcessTxBuilt
  <2> QED BY ZenonT(30), <2>1, <2>7 DEF Q
<1>5. N \in T
  <2> HIDE DEF T
  <2>1. \A i \in 0 .. N : i \in T BY ZenonT(30), <1>2, <1>3, <1>4, RangeInduction
  <2>2. N \in 0 .. N BY <1>2
  <2> QED BY Zenon, <2>1, <2>2
<1>6. J(N) BY Zenon, <1>5
<1> QED BY ZenonT(30), <1>1, <1>6 DEF N

\* The masternodes whose collateral a block spends are removed, up to a revoked one.
LEMMA RemoveAllSpentBuilt ==
  ASSUME NEW prev, NEW h, NEW coins, NEW R, NEW l, BuiltOrFailed(prev, h, coins, R, l),
         NEW S \in SUBSET Collateral, NEW inputs, Lists(inputs, S)
  PROVE  LET r == RemoveAllSpent(l, inputs)
         IN  /\ BuiltOrFailed(prev, h, coins, R, r)
             /\ r.status = "ok" => \A p \in DOMAIN r.mnMap : r.mnMap[p].collateral \notin S
<1> DEFINE N == Len(inputs)
           r == RemoveAllSpent(l, inputs)
<1>1. /\ N \in Nat /\ \A i \in 1 .. N : inputs[i] \in Collateral
      /\ \A x \in S : \E i \in 1 .. N : inputs[i] = x
  BY ZenonT(30) DEF Lists
<1>2. PICK g : /\ g[0] = l /\ r = g[N] /\ \A n \in 1 .. N : g[n] = RemoveSpent(g[n - 1], inputs[n])
  BY <1>1, RemoveAllSpentSteps
<1> HIDE DEF N, r
<1> DEFINE Clear(x, i) == x.status = "ok" =>
                            \A p \in DOMAIN x.mnMap : \A j \in 1 .. i : x.mnMap[p].collateral # inputs[j]
           J(i) == BuiltOrFailed(prev, h, coins, R, g[i]) /\ Clear(g[i], i)
           T == {i \in 0 .. N : J(i)}
<1>3. 0 \in T
  <2>1. J(0) BY <1>2
  <2> QED BY <1>1, <2>1
<1>4. ASSUME NEW i \in 1 .. N, i - 1 \in T PROVE i \in T
  <2> DEFINE k == g[i - 1]
             c == inputs[i]
             q == k.mnUniquePropertyMap[c].proTx
  <2>1. i \in 0 .. N /\ 1 .. i = (1 .. (i - 1)) \cup {i} /\ c \in Collateral BY <1>1
  <2>2. BuiltOrFailed(prev, h, coins, R, k) /\ Clear(k, i - 1) BY Zenon, <1>4
  <2>3. g[i] = RemoveSpent(k, c) BY Zenon, <1>2
  <2>4. CASE ~Built(prev, h, coins, R, k)
    <3>1. k.status # "ok" BY ZenonT(30), <2>2, <2>4 DEF BuiltOrFailed, Revocation
    <3>2. g[i] = k BY Zenon, <2>3, <3>1 DEF RemoveSpent
    <3>3. J(i) BY Zenon, <2>2, <3>1, <3>2
    <3> QED BY Zenon, <2>1, <3>3
  <2>5. CASE Built(prev, h, coins, R, k)
    <3>1. ListOK(k) /\ k.status = "ok" BY <2>5 DEF Built, ListOK
    <3>2. CASE ~HasUniqueProperty(k, c)
      <4>1. g[i] = k BY Zenon, <2>3, <3>2 DEF RemoveSpent
      <4>2. ASSUME NEW p \in DOMAIN k.mnMap PROVE k.mnMap[p].collateral # c
        <5>1. MNOK(k.mnMap[p]) BY Zenon, <3>1 DEF ListOK
        <5>2. c \notin Properties(k.mnMap[p]) BY ZenonT(30), <3>1, <3>2, InMap DEF HasUniqueProperty
        <5> QED BY ZenonT(30), <2>1, <5>1, <5>2, CollateralOf
      <4>3. Clear(k, i) BY ZenonT(30), <2>1, <2>2, <4>2
      <4>4. J(i) BY Zenon, <2>2, <4>1, <4>3
      <4> QED BY Zenon, <2>1, <4>4
    <3>3. CASE HasUniqueProperty(k, c)
      <4>1. g[i] = RemoveMN(k, q) BY ZenonT(30), <2>3, <3>1, <3>3 DEF RemoveSpent
      <4>2. q \in DOMAIN k.mnMap /\ Free(k.mnMap, c, q)
        BY ZenonT(30), <3>1, <3>3, OwnerOf DEF HasUniqueProperty
      <4> HIDE DEF q, k, c
      <4>3. \/ Revocation(g[i])
            \/ /\ Built(prev, h, coins, R, g[i])
               /\ g[i].mnMap = Restrict(k.mnMap, DOMAIN k.mnMap \ {q})
        BY <2>5, <4>1, <4>2, RemoveBuilt
      <4>4. CASE Revocation(g[i])
        <5>1. J(i) BY ZenonT(30), <4>4 DEF Revocation, BuiltOrFailed
        <5> QED BY Zenon, <2>1, <5>1
      <4>5. CASE /\ Built(prev, h, coins, R, g[i])
                 /\ g[i].mnMap = Restrict(k.mnMap, DOMAIN k.mnMap \ {q})
        <5>1. \A p \in DOMAIN g[i].mnMap : p \in DOMAIN k.mnMap /\ p # q /\ g[i].mnMap[p] = k.mnMap[p]
          BY ZenonT(30), <4>5 DEF Restrict
        <5>2. ASSUME NEW p \in DOMAIN g[i].mnMap PROVE g[i].mnMap[p].collateral # c
          <6>1. p \in DOMAIN k.mnMap /\ p # q /\ g[i].mnMap[p] = k.mnMap[p] BY ZenonT(30), <5>1
          <6>2. MNOK(k.mnMap[p]) BY ZenonT(30), <3>1, <6>1 DEF ListOK
          <6>3. c \notin Properties(k.mnMap[p]) BY ZenonT(30), <4>2, <6>1 DEF Free
          <6> QED BY ZenonT(30), <2>1, <6>1, <6>2, <6>3, CollateralOf
        <5>3. Clear(g[i], i)
          <6>1. \A p \in DOMAIN g[i].mnMap : \A j \in 1 .. (i - 1) : g[i].mnMap[p].collateral # inputs[j]
            BY ZenonT(30), <2>2, <3>1, <5>1
          <6> QED BY ZenonT(30), <2>1, <5>2, <6>1 DEF c
        <5>4. J(i) BY Zenon, <4>5, <5>3 DEF BuiltOrFailed
        <5> QED BY Zenon, <2>1, <5>4
      <4> QED BY ZenonT(30), <4>3, <4>4, <4>5
    <3> QED BY ZenonT(30), <3>2, <3>3
  <2> QED BY ZenonT(30), <2>4, <2>5
<1>5. N \in T
  <2> HIDE DEF T
  <2>1. \A i \in 0 .. N : i \in T BY ZenonT(30), <1>1, <1>3, <1>4, RangeInduction
  <2>2. N \in 0 .. N BY <1>1
  <2> QED BY Zenon, <2>1, <2>2
<1>6. J(N) BY Zenon, <1>5
<1>7. r.status = "ok" => \A p \in DOMAIN r.mnMap : r.mnMap[p].collateral \notin S
  BY ZenonT(30), <1>1, <1>2, <1>6
<1> QED BY Zenon, <1>2, <1>6, <1>7 DEF r

\* A block starts from the list before, in which it confirms old registrations.
LEMMA ConfirmBuilt ==
  ASSUME NEW prev, ListOK(prev), NEW h \in Nat, NEW coins,
         \A p \in DOMAIN prev.mnMap : prev.mnMap[p].collateral \in coins
  PROVE  Built(prev, h, coins, {}, ConfirmRegistrations([prev EXCEPT !.nHeight = h], h))
<1> DEFINE l == ConfirmRegistrations([prev EXCEPT !.nHeight = h], h)
           m == prev.mnMap
           due(p) == m[p].confirmed = Null /\ h - 1 - m[p].nRegisteredHeight >= MinConf
           n == [p \in DOMAIN m |-> IF due(p) THEN [m[p] EXCEPT !.confirmed = h - 1] ELSE m[p]]
<1>1. /\ IsList(prev) /\ prev.status = "ok" /\ Exact(prev.mnUniquePropertyMap, m)
      /\ \A q \in DOMAIN m : MNOK(m[q]) /\ m[q].internalId < prev.nTotalRegisteredCount
      /\ IsFiniteSet(DOMAIN m) /\ IdsDiffer(m) /\ prev.nTotalRegisteredCount \in Nat
  BY ZenonT(30) DEF ListOK
<1>2. /\ IsList(l) /\ l.status = "ok" /\ l.mnMap = n /\ l.nHeight = h
      /\ l.mnUniquePropertyMap = prev.mnUniquePropertyMap
      /\ l.nTotalRegisteredCount = prev.nTotalRegisteredCount
  BY Zenon, <1>1 DEF ConfirmRegistrations, IsList, ListFields
<1>3. ASSUME NEW p \in DOMAIN m
      PROVE  /\ IsMN(n[p]) /\ \A f \in MNFields \ {"confirmed"} : n[p][f] = m[p][f]
  <2>1. IsMN(m[p]) BY ZenonT(30), <1>1 DEF MNOK
  <2>2. n[p] = m[p] \/ n[p] = [m[p] EXCEPT !.confirmed = h - 1] BY ZenonT(30)
  <2> HIDE DEF n, m
  <2> QED BY ZenonT(30), <2>1, <2>2 DEF IsMN, MNFields
<1>4. DOMAIN n = DOMAIN m /\ n = [p \in DOMAIN n |-> n[p]] BY ZenonT(30)
<1> HIDE DEF l, n, m
<1>5. \A p \in DOMAIN m : \A f \in PropertyFields : n[p][f] = m[p][f]
  BY ZenonT(30), <1>3 DEF PropertyFields, MNFields
<1>6. Exact(l.mnUniquePropertyMap, n) BY <1>1, <1>2, <1>4, <1>5, ExactSame
<1>7. \A p \in DOMAIN m : Properties(n[p]) = Properties(m[p]) BY ZenonT(30), <1>5 DEF Properties
<1>8. \A p \in DOMAIN m : n[p].internalId = m[p].internalId BY ZenonT(30), <1>3 DEF MNFields
<1>9. IdsDiffer(n) BY <1>1, <1>4, <1>8 DEF IdsDiffer
<1>10. \A p \in DOMAIN n : MNOK(n[p])
  <2>1. TAKE p \in DOMAIN n
  <2>2. MNOK(m[p]) /\ IsMN(n[p]) BY ZenonT(30), <1>1, <1>3, <1>4
  <2>3. /\ n[p].collateral = m[p].collateral /\ n[p].addr = m[p].addr
        /\ n[p].keyIDOwner = m[p].keyIDOwner /\ n[p].keyIDOperator = m[p].keyIDOperator
    BY ZenonT(30), <1>4, <1>5 DEF PropertyFields
  <2> QED BY ZenonT(30), <2>2, <2>3 DEF MNOK
<1>11. ListOK(l) BY ZenonT(30), <1>1, <1>2, <1>4, <1>6, <1>8, <1>9, <1>10 DEF ListOK
<1>12. \A p \in DOMAIN n : Entry(prev, h, coins, {}, p, n[p])
  <2>1. TAKE p \in DOMAIN n
  <2>2. Kept(m[p], n[p], h) BY ZenonT(30), <1>3, <1>4 DEF Kept, MNFields
  <2>3. p \in DOMAIN m /\ m[p].collateral \in coins BY ZenonT(30), <1>4 DEF m
  <2>4. n[p].collateral = m[p].collateral BY ZenonT(30), <2>2 DEF Kept
  <2> QED BY ZenonT(30), <2>2, <2>3, <2>4 DEF Entry, m
<1>13. ASSUME NEW p \in DOMAIN n, NEW v \in Properties(n[p]) PROVE Unclaimed(prev, l, v, p)
  <2>1. p \in DOMAIN prev.mnMap /\ v \in Properties(prev.mnMap[p]) BY ZenonT(30), <1>4, <1>7, <1>13 DEF m
  <2>2. Free(prev.mnMap, v, p) BY Zenon, <2>1, ListOKFree
  <2> QED BY Zenon, <2>2 DEF Free, Unclaimed
<1>14. l.nTotalRegisteredCount >= prev.nTotalRegisteredCount BY <1>1, <1>2
<1>15. Built(prev, h, coins, {}, l) BY ZenonT(30), <1>2, <1>11, <1>12, <1>13, <1>14 DEF Built
<1> QED BY ZenonT(30), <1>15 DEF l

\* The payment of a masternode of the list before.
LEMMA PayBuilt ==
  ASSUME NEW prev, NEW h, NEW coins, NEW R, NEW l, BuiltOrFailed(prev, h, coins, R, l),
         NEW p \in DOMAIN prev.mnMap
  PROVE  LET r == PayMN(l, p, h)
         IN  /\ BuiltOrFailed(prev, h, coins, R, r)
             /\ r.status = "ok" => /\ l.status = "ok" /\ DOMAIN r.mnMap = DOMAIN l.mnMap
                                   /\ \A q \in DOMAIN l.mnMap : r.mnMap[q].collateral = l.mnMap[q].collateral
<1> DEFINE r == PayMN(l, p, h)
           new == [l.mnMap[p] EXCEPT !.nLastPaidHeight = h]
<1>1. CASE ~(l.status = "ok" /\ HasMN(l, p))
  <2>1. r = l BY ZenonT(30), <1>1 DEF PayMN
  <2> QED BY Zenon, <2>1
<1>2. CASE l.status = "ok" /\ HasMN(l, p)
  <2>1. r = UpdateMN(l, p, new) /\ p \in DOMAIN l.mnMap BY ZenonT(30), <1>2 DEF PayMN, HasMN
  <2>2. Built(prev, h, coins, R, l) BY ZenonT(30), <1>2 DEF BuiltOrFailed, Revocation
  <2>3. ListOK(l) BY ZenonT(30), <2>2 DEF Built
  <2> DEFINE a == l.mnMap[p]
  <2>4. MNOK(a) BY ZenonT(30), <2>1, <2>3 DEF ListOK
  <2>5. IsMN(a) BY ZenonT(30), <2>4 DEF MNOK
  <2> HIDE DEF a
  <2>6. /\ IsMN(new) /\ new.collateral = a.collateral /\ new.keyIDOwner = a.keyIDOwner
        /\ new.keyIDOperator = a.keyIDOperator /\ new.addr = a.addr /\ Kept(a, new, h)
    BY ZenonT(30), <2>5 DEF IsMN, MNFields, Kept, a
  <2> HIDE DEF new
  <2>7. MNOK(new) BY ZenonT(30), <2>4, <2>6 DEF MNOK
  <2>8. Properties(new) = Properties(a) BY ZenonT(30), <2>6 DEF Properties, PropertyFields
  <2>9. \A v \in Properties(new) : Free(l.mnMap, v, p) /\ Unclaimed(prev, l, v, p)
    BY ZenonT(30), <2>1, <2>2, <2>8, OwnProperties DEF a
  <2>10. Built(prev, h, coins, R, UpdateMN(l, p, new))
    BY ZenonT(30), <2>1, <2>2, <2>6, <2>7, <2>9, UpdateBuilt DEF a
  <2>11. UpdateMN(l, p, new).mnMap = [l.mnMap EXCEPT ![p] = new]
    <3>1. IsList(l) /\ Exact(l.mnUniquePropertyMap, l.mnMap) /\ new.collateral = l.mnMap[p].collateral
      BY ZenonT(30), <2>3, <2>6 DEF ListOK, a
    <3>2. \A v \in {new.addr, new.keyIDOwner, new.keyIDOperator} : Free(l.mnMap, v, p)
      <4>1. Free(l.mnMap, Null, p) BY ZenonT(30) DEF Free, Properties
      <4>2. \A v \in {new.addr, new.keyIDOwner, new.keyIDOperator} : v # Null => v \in Properties(new)
        BY ZenonT(30) DEF Properties, PropertyFields
      <4> QED BY ZenonT(30), <2>9, <4>1, <4>2
    <3> QED BY <2>1, <3>1, <3>2, UpdateMNFacts
  <2>12. r.mnMap = [l.mnMap EXCEPT ![p] = new] BY ZenonT(30), <2>1, <2>11
  <2> HIDE DEF r
  <2>13. /\ DOMAIN r.mnMap = DOMAIN l.mnMap
         /\ \A q \in DOMAIN l.mnMap : r.mnMap[q].collateral = l.mnMap[q].collateral
    BY ZenonT(30), <2>6, <2>12 DEF a
  <2>14. BuiltOrFailed(prev, h, coins, R, r) BY Zenon, <2>1, <2>10 DEF BuiltOrFailed
  <2> QED BY ZenonT(30), <1>2, <2>13, <2>14 DEF r
<1> QED BY ZenonT(30), <1>1, <1>2

\* BuildNewListFromBlock: the list of a block that passed the checks, or a transaction or a
\* revoked masternode stops it.
LEMMA BlockBuilt ==
  ASSUME NEW prev, ListOK(prev), NEW h \in Nat, NEW coins,
         \A p \in DOMAIN prev.mnMap : prev.mnMap[p].collateral \in coins,
         NEW vtx, Len(vtx) \in Nat, Spends(vtx) \in SUBSET Collateral,
         \A i \in 1 .. Len(vtx) : vtx[i] \in Tx /\ CheckSpecialTx(vtx[i], prev, coins),
         \A i \in 1 .. Len(vtx) : vtx[i].type = "PROREG" =>
           /\ vtx[i].proTx \notin DOMAIN prev.mnMap
           /\ \A j \in 1 .. Len(vtx) : j < i /\ vtx[j].type = "PROREG" => vtx[j].proTx # vtx[i].proTx
  PROVE  LET r == BuildNewListFromBlock(prev, vtx, h, coins)
         IN  /\ BuiltOrFailed(prev, h, coins, Registrations(vtx, Len(vtx)), r)
             /\ r.status = "ok" => \A p \in DOMAIN r.mnMap : r.mnMap[p].collateral \notin Spends(vtx)
<1> DEFINE l == ConfirmRegistrations([prev EXCEPT !.nHeight = h], h)
           R == Registrations(vtx, Len(vtx))
           S == Spends(vtx)
           a == ProcessTxs(l, vtx, h, coins)
           b == RemoveAllSpent(a, SomeOrder(S))
           p == CHOOSE x \in GetMNPayee(prev) : TRUE
           c == PayMN(b, p, h)
           r == BuildNewListFromBlock(prev, vtx, h, coins)
<1>1. Built(prev, h, coins, {}, l) BY Zenon, ConfirmBuilt
<1>2. r = IF GetMNPayee(prev) = {} THEN b ELSE c BY ZenonT(30) DEF BuildNewListFromBlock
<1> HIDE DEF l
<1>3. BuiltOrFailed(prev, h, coins, R, a) BY Zenon, <1>1, ProcessTxsBuilt
<1>4. Lists(SomeOrder(S), S)
  <2>1. IsFiniteSet(S) BY ZenonT(30), ChainAssumption, FS_Subset
  <2> QED BY Zenon, <2>1, SomeOrderLists
<1> HIDE DEF a, R, S
<1>5. /\ BuiltOrFailed(prev, h, coins, R, b)
      /\ b.status = "ok" => \A x \in DOMAIN b.mnMap : b.mnMap[x].collateral \notin S
  <2>1. S \in SUBSET Collateral BY ZenonT(30) DEF S
  <2> QED BY <1>3, <1>4, <2>1, RemoveAllSpentBuilt
<1> HIDE DEF b
<1>6. CASE GetMNPayee(prev) = {} BY ZenonT(30), <1>2, <1>5, <1>6 DEF R, S
<1>7. CASE GetMNPayee(prev) # {}
  <2>1. p \in DOMAIN prev.mnMap BY ZenonT(30), <1>7 DEF GetMNPayee, ValidMNs
  <2> HIDE DEF p
  <2>2. /\ BuiltOrFailed(prev, h, coins, R, c)
        /\ c.status = "ok" => /\ b.status = "ok" /\ DOMAIN c.mnMap = DOMAIN b.mnMap
                              /\ \A q \in DOMAIN b.mnMap : c.mnMap[q].collateral = b.mnMap[q].collateral
    BY <1>5, <2>1, PayBuilt
  <2> HIDE DEF c
  <2>3. c.status = "ok" => \A x \in DOMAIN c.mnMap : c.mnMap[x].collateral \notin S
    BY ZenonT(30), <1>5, <2>2
  <2>4. r = c BY Zenon, <1>2, <1>7
  <2> QED BY ZenonT(30), <2>2, <2>3, <2>4 DEF R, S
<1> QED BY ZenonT(30), <1>6, <1>7

-----------------------------------------------------------------------------
(* The chain. *)

\* The heights in a list are those of blocks up to H.
Heights(l, H) ==
  \A p \in DOMAIN l.mnMap :
    /\ l.mnMap[p].nRegisteredHeight \in 0 .. H /\ l.mnMap[p].nLastPaidHeight \in 0 .. H
    /\ l.mnMap[p].nPoSeRevivedHeight \in -1 .. H

\* The inductive invariant: the list of the tip is exact and its collaterals are unspent, what
\* is stored of it is the same, and only a revoked masternode has ended the chain.
ChainInv ==
  /\ nHeight \in Nat /\ unspent \in SUBSET Collateral
  /\ newList.status = "ok" =>
       ListOK(newList) /\ \A p \in DOMAIN newList.mnMap : newList.mnMap[p].collateral \in unspent
  /\ newList.status = "ok" /\ list.status = "ok" =>
       /\ ListOK(list) /\ list.mnMap = newList.mnMap /\ list.nHeight = newList.nHeight
       /\ DOMAIN list.mnMap \subseteq used /\ Heights(list, nHeight)
  /\ newList.status # "ok" => Revocation(newList)
  /\ list.status # "ok" => Revocation(list)

\* The empty list is exact.
LEMMA ChainInitInv == ChainInit => ChainInv
<1>1. ListOK(EmptyList) /\ DOMAIN EmptyList.mnMap = {} /\ EmptyList.status = "ok"
  <2> DEFINE e == EmptyList
  <2>1. /\ IsList(e) /\ e.status = "ok" /\ DOMAIN e.mnMap = {} /\ e.nTotalRegisteredCount \in Nat
        /\ e.mnMap = [p \in DOMAIN e.mnMap |-> e.mnMap[p]] /\ DOMAIN e.mnUniquePropertyMap = {}
        /\ e.mnUniquePropertyMap = [v \in DOMAIN e.mnUniquePropertyMap |-> e.mnUniquePropertyMap[v]]
    BY ZenonT(30) DEF EmptyList, Empty, IsList, ListFields
  <2> HIDE DEF e
  <2>2. Exact(e.mnUniquePropertyMap, e.mnMap) BY ZenonT(30), <2>1 DEF Exact
  <2>3. IdsDiffer(e.mnMap) /\ IsFiniteSet(DOMAIN e.mnMap) BY ZenonT(30), <2>1, FS_EmptySet DEF IdsDiffer
  <2> QED BY ZenonT(30), <2>1, <2>2, <2>3 DEF ListOK, e
<1>2. Activation - 1 \in Nat BY ParamsAssumption
<1> QED BY ZenonT(30), <1>1, <1>2 DEF ChainInit, ChainInv, Heights

\* What a block does: its list is built from the list before, or a revoked masternode stops it.
LEMMA BlockStep ==
  ASSUME ChainInv, NEW n \in 0 .. MaxBlockTxs, NEW vtx \in [1 .. n -> Tx], ConnectBlock(vtx)
  PROVE  \/ Revocation(newList')
         \/ /\ Built(list, nHeight + 1, unspent, Registrations(vtx, n), newList')
            /\ \A p \in DOMAIN newList'.mnMap : newList'.mnMap[p].collateral \in unspent \ Spends(vtx)
<1>1. n \in Nat /\ DOMAIN vtx = 1 .. n /\ Len(vtx) = n
  <2>1. n \in Nat /\ vtx = [i \in 1 .. n |-> vtx[i]] /\ DOMAIN vtx = 1 .. n BY ChainAssumption
  <2> QED BY ZenonT(30), <2>1, FunctionLen
<1>2. newList.status = "ok" /\ list.status = "ok" BY Zenon DEF ConnectBlock
<1>3. /\ ListOK(list) /\ DOMAIN list.mnMap \subseteq used /\ nHeight + 1 \in Nat
      /\ \A p \in DOMAIN list.mnMap : list.mnMap[p].collateral \in unspent
      /\ unspent \in SUBSET Collateral
  BY <1>2 DEF ChainInv
<1>4. \A i \in 1 .. n : vtx[i] \in Tx /\ CheckSpecialTx(vtx[i], list, unspent)
  BY ZenonT(30), <1>1 DEF ConnectBlock
<1>5. Spends(vtx) \in SUBSET Collateral BY <1>1, ChainAssumption DEF Spends
<1>6. ASSUME NEW i \in 1 .. n, vtx[i].type = "PROREG"
      PROVE  /\ vtx[i].proTx \notin DOMAIN list.mnMap
             /\ \A j \in 1 .. n : j < i /\ vtx[j].type = "PROREG" => vtx[j].proTx # vtx[i].proTx
  <2>1. CheckInputs(vtx) BY ZenonT(30) DEF ConnectBlock
  <2>2. vtx[i].proTx \notin used BY <1>1, <1>6, <2>1 DEF CheckInputs
  <2>3. ASSUME NEW j \in 1 .. n, j < i, vtx[j].type = "PROREG" PROVE vtx[j].proTx # vtx[i].proTx
    <3>1. vtx[j] # vtx[i] BY ZenonT(30), <1>1, <2>1, <2>3 DEF CheckInputs
    <3> QED BY <1>4, <1>6, <2>3, <3>1, ChainAssumption
  <2> QED BY ZenonT(30), <1>3, <2>2, <2>3
<1> DEFINE r == BuildNewListFromBlock(list, vtx, nHeight + 1, unspent)
<1>7. /\ BuiltOrFailed(list, nHeight + 1, unspent, Registrations(vtx, n), r)
      /\ r.status = "ok" => \A p \in DOMAIN r.mnMap : r.mnMap[p].collateral \notin Spends(vtx)
  <2>1. /\ Len(vtx) \in Nat
        /\ \A i \in 1 .. Len(vtx) : vtx[i] \in Tx /\ CheckSpecialTx(vtx[i], list, unspent)
        /\ \A i \in 1 .. Len(vtx) : vtx[i].type = "PROREG" =>
             /\ vtx[i].proTx \notin DOMAIN list.mnMap
             /\ \A j \in 1 .. Len(vtx) : j < i /\ vtx[j].type = "PROREG" => vtx[j].proTx # vtx[i].proTx
    BY ZenonT(30), <1>1, <1>4, <1>6
  <2>2. /\ BuiltOrFailed(list, nHeight + 1, unspent, Registrations(vtx, Len(vtx)), r)
        /\ r.status = "ok" => \A p \in DOMAIN r.mnMap : r.mnMap[p].collateral \notin Spends(vtx)
    BY ZenonT(30), <1>3, <1>5, <2>1, BlockBuilt
  <2> QED BY ZenonT(30), <1>1, <2>2
<1>8. newList' = r /\ newList'.status # "rejected" BY ZenonT(30) DEF ConnectBlock
<1> HIDE DEF r
<1>9. CASE Built(list, nHeight + 1, unspent, Registrations(vtx, n), newList')
  <2>1. newList'.status = "ok" /\ \A p \in DOMAIN newList'.mnMap : newList'.mnMap[p].collateral \in unspent
    BY ZenonT(30), <1>9 DEF Built, ListOK, Entry
  <2> QED BY ZenonT(30), <1>7, <1>8, <1>9, <2>1
<1> QED BY ZenonT(30), <1>7, <1>8, <1>9 DEF BuiltOrFailed

\* The heights of a block's list.
LEMMA BuiltHeights ==
  ASSUME NEW prev, NEW H \in Nat, Heights(prev, H), NEW coins, NEW R, NEW l,
         Built(prev, H + 1, coins, R, l)
  PROVE  Heights(l, H + 1)
<1>1. ASSUME NEW p \in DOMAIN l.mnMap
      PROVE  /\ l.mnMap[p].nRegisteredHeight \in 0 .. H + 1 /\ l.mnMap[p].nLastPaidHeight \in 0 .. H + 1
             /\ l.mnMap[p].nPoSeRevivedHeight \in -1 .. H + 1
  <2> DEFINE mn == l.mnMap[p]
  <2>1. Entry(prev, H + 1, coins, R, p, mn) BY ZenonT(30) DEF Built
  <2> HIDE DEF mn
  <2>2. CASE p \in DOMAIN prev.mnMap
    <3>1. Kept(prev.mnMap[p], mn, H + 1) BY ZenonT(30), <2>1, <2>2 DEF Entry
    <3>2. /\ prev.mnMap[p].nRegisteredHeight \in 0 .. H /\ prev.mnMap[p].nLastPaidHeight \in 0 .. H
          /\ prev.mnMap[p].nPoSeRevivedHeight \in -1 .. H
      BY Zenon, <2>2 DEF Heights
    <3> QED BY <3>1, <3>2 DEF Kept, mn
  <2>3. CASE p \notin DOMAIN prev.mnMap
    <3>1. Fresh(mn, prev.nTotalRegisteredCount, H + 1) BY ZenonT(30), <2>1, <2>3 DEF Entry
    <3> QED BY <3>1 DEF Fresh, mn
  <2> QED BY ZenonT(30), <2>2, <2>3
<1> QED BY Zenon, <1>1 DEF Heights

\* What is stored of a block's list.
LEMMA StoreStep ==
  ASSUME ChainInv, NEW n \in 0 .. MaxBlockTxs, NEW vtx \in [1 .. n -> Tx], ConnectBlock(vtx),
         Built(list, nHeight + 1, unspent, Registrations(vtx, n), newList')
  PROVE  \/ Revocation(list')
         \/ ListOK(list') /\ list'.mnMap = newList'.mnMap /\ list'.nHeight = newList'.nHeight
<1> DEFINE r == ApplyDiff(list, nHeight + 1, BuildDiff(list, newList'))
<1>1. newList.status = "ok" /\ list.status = "ok" BY ZenonT(30) DEF ConnectBlock
<1>2. ListOK(list) BY Zenon, <1>1 DEF ChainInv
<1>3. ListOK(newList') /\ newList'.nHeight = nHeight + 1 BY ZenonT(30) DEF Built
<1>4. newList'.status = "ok" BY ZenonT(30), <1>3 DEF ListOK
<1>5. list' = newList' \/ list' = r BY ZenonT(30), <1>4 DEF ConnectBlock, StoredList
<1>6. Follows(list, newList') BY Zenon, BuiltFollows
<1>7. \/ ListOK(r) /\ r.nHeight = nHeight + 1 /\ r.mnMap = newList'.mnMap
      \/ r.status = "assert" /\ Revoked(r) # {}
  BY ZenonT(30), <1>2, <1>3, <1>6, DiffReproduces
<1> HIDE DEF r
<1> QED BY ZenonT(30), <1>3, <1>5, <1>7 DEF Revocation

\* Every block keeps the invariant.
LEMMA ChainStepInv == ASSUME ChainInv, [ChainNext]_chainVars PROVE ChainInv'
<1>1. CASE UNCHANGED chainVars
  <2>1. /\ nHeight' = nHeight /\ newList' = newList /\ list' = list
        /\ unspent' = unspent /\ used' = used
    BY ZenonT(30), <1>1 DEF chainVars
  <2> QED BY Zenon, <2>1 DEF ChainInv
<1>2. CASE ChainNext
  <2>1. PICK n \in 0 .. MaxBlockTxs : \E vtx \in [1 .. n -> Tx] : ConnectBlock(vtx)
    BY ZenonT(30), <1>2 DEF ChainNext
  <2>2. PICK vtx \in [1 .. n -> Tx] : ConnectBlock(vtx) BY ZenonT(30), <2>1
  <2> DEFINE R == Registrations(vtx, n)
  <2>3. newList.status = "ok" /\ list.status = "ok" BY ZenonT(30), <2>2 DEF ConnectBlock
  <2>4. nHeight \in Nat /\ nHeight' = nHeight + 1 /\ unspent' = unspent \ Spends(vtx)
    BY ZenonT(30), <2>2 DEF ConnectBlock, ChainInv
  <2>5. nHeight' \in Nat /\ unspent' \in SUBSET Collateral BY <2>4 DEF ChainInv
  <2>6. CASE Revocation(newList')
    <3>1. newList'.status # "ok" BY ZenonT(30), <2>6 DEF Revocation
    <3>2. list' = list BY ZenonT(30), <2>2, <3>1 DEF ConnectBlock
    <3>3. list'.status = "ok" BY ZenonT(30), <2>3, <3>2
    <3> QED BY ZenonT(30), <2>5, <2>6, <3>1, <3>3 DEF ChainInv, Revocation, Revoked
  <2>7. CASE /\ Built(list, nHeight + 1, unspent, R, newList')
             /\ \A p \in DOMAIN newList'.mnMap : newList'.mnMap[p].collateral \in unspent \ Spends(vtx)
    <3>1. ListOK(newList') BY ZenonT(30), <2>7 DEF Built
    <3>2. newList'.status = "ok" BY ZenonT(30), <3>1 DEF ListOK
    <3>3. \/ Revocation(list')
          \/ ListOK(list') /\ list'.mnMap = newList'.mnMap /\ list'.nHeight = newList'.nHeight
      BY ZenonT(30), <2>2, <2>7, StoreStep
    <3>4. Heights(list, nHeight) /\ DOMAIN list.mnMap \subseteq used BY Zenon, <2>3 DEF ChainInv
    <3>5. Heights(newList', nHeight') BY ZenonT(30), <2>4, <2>7, <3>4, BuiltHeights
    <3>6. DOMAIN newList'.mnMap \subseteq used'
      <4>1. ASSUME NEW p \in DOMAIN newList'.mnMap PROVE p \in DOMAIN list.mnMap \/ p \in R
        <5>1. Entry(list, nHeight + 1, unspent, R, p, newList'.mnMap[p]) BY ZenonT(30), <2>7 DEF Built
        <5> QED BY ZenonT(30), <5>1 DEF Entry
      <4>2. used' = used \cup R BY ZenonT(30), <2>2 DEF ConnectBlock, Registrations
      <4> QED BY <3>4, <4>1, <4>2
    <3>7. list'.mnMap = newList'.mnMap => Heights(list', nHeight') BY ZenonT(30), <3>5 DEF Heights
    <3>8. \A p \in DOMAIN newList'.mnMap : newList'.mnMap[p].collateral \in unspent'
      BY ZenonT(30), <2>4, <2>7
    <3>9. Revocation(list') => list'.status # "ok" BY ZenonT(30) DEF Revocation
    <3>10. ListOK(list') => list'.status = "ok" BY ZenonT(30) DEF ListOK
    <3>11. list'.mnMap = newList'.mnMap => DOMAIN list'.mnMap \subseteq used' BY ZenonT(30), <3>6
    <3> HIDE DEF R
    <3> QED BY ZenonT(30), <2>5, <3>1, <3>2, <3>3, <3>7, <3>8, <3>9, <3>10, <3>11 DEF ChainInv
  <2> QED BY ZenonT(30), <2>2, <2>6, <2>7, BlockStep
<1> QED BY ZenonT(30), <1>1, <1>2

\* The place of a masternode in the payment queue is the height of a block before.
LEMMA QueuePlace ==
  ASSUME NEW l, NEW H \in Nat, Heights(l, H), NEW p \in DOMAIN l.mnMap
  PROVE  CompareByLastPaidGetHeight(l.mnMap[p]) \in 0 .. H
<1> DEFINE mn == l.mnMap[p]
<1>1. mn.nRegisteredHeight \in 0 .. H /\ mn.nLastPaidHeight \in 0 .. H /\ mn.nPoSeRevivedHeight \in -1 .. H
  BY Zenon DEF Heights
<1> HIDE DEF mn
<1>2. CompareByLastPaidGetHeight(mn) \in 0 .. H BY <1>1 DEF CompareByLastPaidGetHeight
<1> QED BY ZenonT(30), <1>2 DEF mn

\* Nobody gets ahead of a masternode that a block neither pays nor revives: who is paid, revived
\* or registered goes to the end, and a ban ends only with a revival.
LEMMA QueueKept ==
  ASSUME NEW prev, NEW H \in Nat, Heights(prev, H), NEW coins, NEW R, NEW l,
         Built(prev, H + 1, coins, R, l), NEW x, x.mnMap = l.mnMap,
         NEW p \in ValidMNs(prev), p \in ValidMNs(x),
         x.mnMap[p].nLastPaidHeight # H + 1, x.mnMap[p].nPoSeRevivedHeight # H + 1
  PROVE  Ahead(x, p) \subseteq Ahead(prev, p)
<1> DEFINE at(y, q) == CompareByLastPaidGetHeight(y.mnMap[q])
<1>1. p \in DOMAIN prev.mnMap /\ p \in DOMAIN x.mnMap BY ZenonT(30) DEF ValidMNs
<1>2. \A q \in DOMAIN x.mnMap : Entry(prev, H + 1, coins, R, q, x.mnMap[q]) BY Zenon DEF Built
<1>3. Kept(prev.mnMap[p], x.mnMap[p], H + 1) BY ZenonT(30), <1>1, <1>2 DEF Entry
<1>4. at(x, p) = at(prev, p)
  <2>1. /\ x.mnMap[p].nRegisteredHeight = prev.mnMap[p].nRegisteredHeight
        /\ x.mnMap[p].nLastPaidHeight = prev.mnMap[p].nLastPaidHeight
        /\ x.mnMap[p].nPoSeRevivedHeight = prev.mnMap[p].nPoSeRevivedHeight
    BY ZenonT(30), <1>3 DEF Kept
  <2> QED BY Zenon, <2>1 DEF CompareByLastPaidGetHeight
<1>5. at(prev, p) \in 0 .. H BY ZenonT(30), <1>1, QueuePlace
<1>6. SUFFICES ASSUME NEW q \in Ahead(x, p) PROVE q \in Ahead(prev, p) BY ZenonT(30)
<1>7. /\ q \in DOMAIN x.mnMap /\ q # p /\ x.mnMap[q].nPoSeBanHeight = -1 /\ CompareByLastPaid(x, q, p)
  BY ZenonT(30) DEF Ahead, ValidMNs, IsMNValid
<1>8. at(x, q) < at(x, p) \/ at(x, q) = at(x, p) BY ZenonT(30), <1>7 DEF CompareByLastPaid
<1>9. at(x, q) # H + 1 BY <1>4, <1>5, <1>8
<1> DEFINE mn == x.mnMap[q]
<1>10. q \in DOMAIN prev.mnMap
  <2>1. SUFFICES ASSUME q \notin DOMAIN prev.mnMap PROVE FALSE BY ZenonT(30)
  <2>2. Fresh(mn, prev.nTotalRegisteredCount, H + 1) BY ZenonT(30), <1>2, <1>7, <2>1 DEF Entry
  <2>3. at(x, q) = H + 1 BY ZenonT(30), <2>2 DEF Fresh, CompareByLastPaidGetHeight
  <2> QED BY ZenonT(30), <1>9, <2>3
<1> DEFINE old == prev.mnMap[q]
<1>11. Kept(old, mn, H + 1) BY ZenonT(30), <1>2, <1>7, <1>10 DEF Entry
<1>12. /\ old.nRegisteredHeight \in 0 .. H /\ old.nLastPaidHeight \in 0 .. H
       /\ old.nPoSeRevivedHeight \in -1 .. H
  BY Zenon, <1>10 DEF Heights
<1>13. at(x, q) = CompareByLastPaidGetHeight(mn) BY ZenonT(30)
<1> HIDE DEF mn, old
<1>14. mn.nLastPaidHeight # H + 1 /\ mn.nPoSeRevivedHeight # H + 1
  BY <1>9, <1>11, <1>12, <1>13 DEF Kept, CompareByLastPaidGetHeight
<1>15. /\ mn.nRegisteredHeight = old.nRegisteredHeight /\ mn.nLastPaidHeight = old.nLastPaidHeight
       /\ mn.nPoSeRevivedHeight = old.nPoSeRevivedHeight
       /\ mn.nPoSeBanHeight = -1 => old.nPoSeBanHeight = -1
  BY ZenonT(30), <1>11, <1>14 DEF Kept
<1>16. at(x, q) = at(prev, q) BY ZenonT(30), <1>15 DEF CompareByLastPaidGetHeight, mn, old
<1>17. q \in ValidMNs(prev) BY ZenonT(30), <1>7, <1>10, <1>15 DEF ValidMNs, IsMNValid, mn, old
<1> HIDE DEF at
<1>18. CompareByLastPaid(prev, q, p) BY ZenonT(30), <1>4, <1>7, <1>16 DEF CompareByLastPaid, at
<1> QED BY ZenonT(30), <1>7, <1>17, <1>18 DEF Ahead

\* What a block does to the payment queue.
LEMMA QueueStep ==
  ASSUME ChainInv, ChainNext
  PROVE  list'.status = "ok" =>
           \A p \in ValidMNs(list) \cap ValidMNs(list') :
             \/ nHeight' \in {list'.mnMap[p].nLastPaidHeight, list'.mnMap[p].nPoSeRevivedHeight}
             \/ Ahead(list', p) \subseteq Ahead(list, p)
<1>1. PICK n \in 0 .. MaxBlockTxs : \E vtx \in [1 .. n -> Tx] : ConnectBlock(vtx)
  BY ZenonT(30) DEF ChainNext
<1>2. PICK vtx \in [1 .. n -> Tx] : ConnectBlock(vtx) BY ZenonT(30), <1>1
<1>3. SUFFICES ASSUME list'.status = "ok", NEW p \in ValidMNs(list) \cap ValidMNs(list'),
                      nHeight' # list'.mnMap[p].nLastPaidHeight,
                      nHeight' # list'.mnMap[p].nPoSeRevivedHeight
               PROVE  Ahead(list', p) \subseteq Ahead(list, p)
  BY ZenonT(30)
<1>4. newList.status = "ok" /\ list.status = "ok" /\ nHeight' = nHeight + 1
  BY ZenonT(30), <1>2 DEF ConnectBlock
<1>5. nHeight \in Nat /\ Heights(list, nHeight) BY ZenonT(30), <1>4 DEF ChainInv
<1>6. CASE Revocation(newList')
  <2>1. list' = list BY ZenonT(30), <1>2, <1>6 DEF ConnectBlock, Revocation
  <2> QED BY ZenonT(30), <2>1
<1>7. CASE Built(list, nHeight + 1, unspent, Registrations(vtx, n), newList')
  <2>1. list'.mnMap = newList'.mnMap
    <3>1. ~Revocation(list') BY ZenonT(30), <1>3 DEF Revocation
    <3> QED BY ZenonT(30), <1>2, <1>7, <3>1, StoreStep
  <2>2. p \in ValidMNs(list) /\ p \in ValidMNs(list') BY ZenonT(30)
  <2>3. list'.mnMap[p].nLastPaidHeight # nHeight + 1 /\ list'.mnMap[p].nPoSeRevivedHeight # nHeight + 1
    BY ZenonT(30), <1>3, <1>4
  <2> QED BY ZenonT(30), <1>5, <1>7, <2>1, <2>2, <2>3, QueueKept
<1> QED BY ZenonT(30), <1>2, <1>6, <1>7, BlockStep

-----------------------------------------------------------------------------
(* Theorems *)

\* The inductive invariant of the chain.
LEMMA ChainInvariant == ChainSpec => []ChainInv
BY ChainInitInv, ChainStepInv, PTL DEF ChainSpec

\* mnUniquePropertyMap is exact after every block BuildNewListFromBlock completes, and the
\* collaterals of the masternodes are unspent.
THEOREM UniquePropertiesAreExact == ChainSpec => []UniquePropertiesExact
<1>1. ChainInv => UniquePropertiesExact
  <2>1. SUFFICES ASSUME ChainInv, newList.status = "ok"
                 PROVE  /\ DOMAIN newList.mnUniquePropertyMap =
                             UNION {Properties(newList.mnMap[p]) : p \in DOMAIN newList.mnMap}
                        /\ \A p \in DOMAIN newList.mnMap :
                             LET mn == newList.mnMap[p]
                             IN  /\ mn.collateral \in unspent
                                 /\ \A v \in Properties(mn) : newList.mnUniquePropertyMap[v] =
                                      [proTx |-> p, count |-> Cardinality({f \in PropertyFields : mn[f] = v})]
    BY ZenonT(30) DEF UniquePropertiesExact
  <2>2. /\ Exact(newList.mnUniquePropertyMap, newList.mnMap)
        /\ \A p \in DOMAIN newList.mnMap : newList.mnMap[p].collateral \in unspent
    BY ZenonT(30), <2>1 DEF ChainInv, ListOK
  <2>3. \A mn, v : Cardinality({f \in PropertyFields : mn[f] = v}) = Size(Uses(mn, v))
    <3>1. \A mn, v : {f \in PropertyFields : mn[f] = v} \subseteq PropertyFields BY ZenonT(30)
    <3> QED BY ZenonT(30), <3>1, SizeCardinality DEF Uses
  <2>4. ASSUME NEW p \in DOMAIN newList.mnMap, NEW v \in Properties(newList.mnMap[p])
        PROVE  newList.mnUniquePropertyMap[v] =
                 [proTx |-> p, count |-> Cardinality({f \in PropertyFields : newList.mnMap[p][f] = v})]
    <3>1. newList.mnUniquePropertyMap[v] = [proTx |-> p, count |-> Size(Uses(newList.mnMap[p], v))]
      BY ZenonT(30), <2>2 DEF Exact
    <3>2. Cardinality({f \in PropertyFields : newList.mnMap[p][f] = v}) = Size(Uses(newList.mnMap[p], v))
      BY ZenonT(30), <2>3
    <3> QED BY ZenonT(30), <3>1, <3>2
  <2>5. DOMAIN newList.mnUniquePropertyMap = UNION {Properties(newList.mnMap[p]) : p \in DOMAIN newList.mnMap}
    BY ZenonT(30), <2>2 DEF Exact
  <2> QED BY ZenonT(30), <2>2, <2>4, <2>5
<1> QED BY <1>1, ChainInvariant, PTL

\* Neither BuildNewListFromBlock nor ApplyDiff throws, and an assertion fails only for a list
\* that holds a revoked masternode.
THEOREM OnlyRevokedFails == ChainSpec => []ListFailsOnlyOnRevoked
<1>1. ChainInv => ListFailsOnlyOnRevoked BY ZenonT(30) DEF ChainInv, ListFailsOnlyOnRevoked, Revocation
<1> QED BY <1>1, ChainInvariant, PTL

\* The diff ProcessBlock stores gives the list back, and a snapshot without a revoked
\* masternode reads back as it was written.
THEOREM StoredListsComeBack == ChainSpec => []StoredListReproduces
<1>1. ChainInv => StoredListReproduces
  <2>1. SUFFICES ASSUME ChainInv, newList.status = "ok", list.status = "ok"
                 PROVE  SameMNs(list, newList) /\ (Revoked(newList) = {} => Unserialize(newList) = newList)
    BY ZenonT(30) DEF StoredListReproduces
  <2>2. /\ ListOK(newList) /\ ListOK(list) /\ list.mnMap = newList.mnMap
        /\ list.nHeight = newList.nHeight
    BY ZenonT(30), <2>1 DEF ChainInv
  <2>3. /\ Exact(newList.mnUniquePropertyMap, newList.mnMap)
        /\ Exact(list.mnUniquePropertyMap, newList.mnMap)
    BY ZenonT(30), <2>2 DEF ListOK
  <2>4. list.mnUniquePropertyMap = newList.mnUniquePropertyMap BY ZenonT(30), <2>3, ExactUnique
  <2> QED BY ZenonT(30), <2>2, <2>4, UnserializeSame DEF SameMNs
<1> QED BY <1>1, ChainInvariant, PTL

\* No block lets a masternode get ahead of one that stays valid and that it neither pays nor
\* revives.
THEOREM PaymentQueueIsFair == ChainSpec => PaymentQueueFair
<1>1. ChainInv /\ [ChainNext]_chainVars =>
        [list'.status = "ok" =>
           \A p \in ValidMNs(list) \cap ValidMNs(list') :
             \/ nHeight' \in {list'.mnMap[p].nLastPaidHeight, list'.mnMap[p].nPoSeRevivedHeight}
             \/ Ahead(list', p) \subseteq Ahead(list, p)]_chainVars
  BY ZenonT(30), QueueStep
<1> QED BY <1>1, ChainInvariant, PTL DEF ChainSpec, PaymentQueueFair

==============================================================================
