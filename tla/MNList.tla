-------------------------------- MODULE MNList --------------------------------
(***************************************************************************)
(* CDeterministicMNList (evo/deterministicmns.h, .cpp): the masternodes    *)
(* registered by a chain, the map of their unique properties, the diff     *)
(* between the lists of two blocks, and how a block makes the next list.   *)
(*                                                                         *)
(* A masternode is one record: its internal id and collateral, and the     *)
(* fields of CDeterministicMNState the properties tell apart.  The voting  *)
(* key, the payout scripts, the rewards and the revocation reason change   *)
(* nothing else and are left out; so is nPoSePenalty, which no code        *)
(* raises.  A list carries a status: "ok", or how the call that made it    *)
(* ended ("rejected", "throw" or "assert").                                *)
(***************************************************************************)
EXTENDS Integers, Sequences, FiniteSets, Functions

CONSTANTS
  Null,        \* a null key (CKeyID()) and a null address (CService())
  MinConf,     \* MasternodeCollateralMinConf()
  HashOrder    \* the proTxHashes in the order of operator<

Empty == [x \in {} |-> x]

EmptyList == [nHeight |-> -1, nTotalRegisteredCount |-> 0, mnMap |-> Empty,
              mnUniquePropertyMap |-> Empty, status |-> "ok"]

\* The map f with v at x, as immer::map's set.
Set(f, x, v) == [y \in DOMAIN f \cup {x} |-> IF y = x THEN v ELSE f[y]]

Fail(l, how) == IF l.status = "ok" THEN [l EXCEPT !.status = how] ELSE l

\* The elements of a finite set in an order of the map or vector they are kept in.
SomeOrder(S) == CHOOSE s \in [1 .. Cardinality(S) -> S] : Range(s) = S

\* A finite set of numbers in ascending order.
Ascending(S) == [i \in 1 .. Cardinality(S) |-> CHOOSE n \in S : Cardinality({m \in S : m < n}) = i - 1]

-----------------------------------------------------------------------------
(* Lookups *)

HasMN(l, p) == p \in DOMAIN l.mnMap

HasUniqueProperty(l, v) == v \in DOMAIN l.mnUniquePropertyMap

UsedByOther(l, v, p) == HasUniqueProperty(l, v) /\ l.mnUniquePropertyMap[v].proTx # p

InternalIds(l) == {l.mnMap[p].internalId : p \in DOMAIN l.mnMap}

GetMNByInternalId(l, id) == CHOOSE p \in DOMAIN l.mnMap : l.mnMap[p].internalId = id

IsMNValid(l, p) == l.mnMap[p].nPoSeBanHeight = -1

ValidMNs(l) == {p \in DOMAIN l.mnMap : IsMNValid(l, p)}

\* Mutant: a revived masternode keeps the place it had.
LastPaidIgnoresRevival(mn) ==
  IF mn.nLastPaidHeight = 0 THEN mn.nRegisteredHeight ELSE mn.nLastPaidHeight

CompareByLastPaidGetHeight(mn) ==
  IF mn.nPoSeRevivedHeight # -1 /\ mn.nPoSeRevivedHeight > mn.nLastPaidHeight
    THEN mn.nPoSeRevivedHeight
  ELSE IF mn.nLastPaidHeight = 0 THEN mn.nRegisteredHeight ELSE mn.nLastPaidHeight

CompareByLastPaid(l, p, q) ==
  LET ph == CompareByLastPaidGetHeight(l.mnMap[p])
      qh == CompareByLastPaidGetHeight(l.mnMap[q])
      Place(r) == CHOOSE i \in DOMAIN HashOrder : HashOrder[i] = r
  IN  ph < qh \/ (ph = qh /\ Place(p) < Place(q))

GetMNPayee(l) ==
  {p \in ValidMNs(l) : \A q \in ValidMNs(l) \ {p} : CompareByLastPaid(l, p, q)}

-----------------------------------------------------------------------------
(* The unique properties *)

AddUniqueProperty(l, p, v) ==
  IF v = Null \/ UsedByOther(l, v, p) THEN Fail(l, "assert")
  ELSE LET n == IF HasUniqueProperty(l, v) THEN l.mnUniquePropertyMap[v].count ELSE 0
       IN  [l EXCEPT !.mnUniquePropertyMap = Set(@, v, [proTx |-> p, count |-> n + 1])]

DeleteUniqueProperty(l, p, v) ==
  IF v = Null \/ ~HasUniqueProperty(l, v) \/ UsedByOther(l, v, p) THEN Fail(l, "assert")
  ELSE IF l.mnUniquePropertyMap[v].count = 1
    THEN [l EXCEPT !.mnUniquePropertyMap = Restrict(@, DOMAIN @ \ {v})]
    ELSE [l EXCEPT !.mnUniquePropertyMap[v].count = @ - 1]

UpdateUniqueProperty(l, p, old, new) ==
  LET deleted == IF old = Null THEN l ELSE DeleteUniqueProperty(l, p, old)
  IN  IF old = new THEN l
      ELSE IF new = Null THEN deleted ELSE AddUniqueProperty(deleted, p, new)

-----------------------------------------------------------------------------
(* AddMN, UpdateMN, RemoveMN *)

AddProperties(l, p, mn) ==
  LET collateral == AddUniqueProperty(l, p, mn.collateral)
      addr == IF mn.addr = Null THEN collateral ELSE AddUniqueProperty(collateral, p, mn.addr)
  IN  AddUniqueProperty(AddUniqueProperty(addr, p, mn.keyIDOwner), p, mn.keyIDOperator)

DeleteProperties(l, p, mn) ==
  LET collateral == DeleteUniqueProperty(l, p, mn.collateral)
      addr == IF mn.addr = Null THEN collateral ELSE DeleteUniqueProperty(collateral, p, mn.addr)
  IN  DeleteUniqueProperty(DeleteUniqueProperty(addr, p, mn.keyIDOwner), p, mn.keyIDOperator)

AddMN(l, p, mn, fBumpTotalCount) ==
  IF \/ HasMN(l, p)
     \/ mn.internalId \in InternalIds(l)
     \/ \E v \in {mn.addr, mn.keyIDOwner, mn.keyIDOperator} : HasUniqueProperty(l, v)
  THEN Fail(l, "throw")
  ELSE AddProperties(
         [l EXCEPT !.mnMap = Set(@, p, mn),
                   !.nTotalRegisteredCount =
                      IF fBumpTotalCount /\ mn.internalId >= @ THEN mn.internalId + 1 ELSE @], p, mn)

UpdateMN(l, p, new) ==
  LET old == l.mnMap[p]
      set == [l EXCEPT !.mnMap[p] = new]
  IN  IF ~HasMN(l, p) \/ UsedByOther(l, old.addr, p) THEN Fail(l, "throw")
      ELSE UpdateUniqueProperty(
             UpdateUniqueProperty(
               UpdateUniqueProperty(set, p, old.addr, new.addr),
               p, old.keyIDOwner, new.keyIDOwner),
             p, old.keyIDOperator, new.keyIDOperator)

\* Mutant: the address stays in the map.
RemoveMNKeepsAddress(l, p) ==
  LET del == DeleteProperties(l, p, [l.mnMap[p] EXCEPT !.addr = Null])
  IN  IF ~HasMN(l, p) THEN Fail(l, "throw")
      ELSE IF del.status # "ok" THEN del
      ELSE [del EXCEPT !.mnMap = Restrict(@, DOMAIN @ \ {p})]

RemoveMN(l, p) ==
  LET del == DeleteProperties(l, p, l.mnMap[p])
  IN  IF ~HasMN(l, p) THEN Fail(l, "throw")
      ELSE IF del.status # "ok" THEN del
      ELSE [del EXCEPT !.mnMap = Restrict(@, DOMAIN @ \ {p})]

-----------------------------------------------------------------------------
(* BuildDiff and ApplyDiff.  A state diff holds the fields that differ. *)

\* Mutant: a field is missing from DMN_STATE_DIFF_ALL_FIELDS.
StateDiffLosesField(a, b) == Restrict(b, {f \in DOMAIN a \ {"nPoSeRevivedHeight"} : a[f] # b[f]})

StateDiff(a, b) == Restrict(b, {f \in DOMAIN a : a[f] # b[f]})

\* The masternodes of a map in the order of their internal ids.
InIdOrder(mns) ==
  LET ids == Ascending({mns[p].internalId : p \in DOMAIN mns})
  IN  [i \in DOMAIN ids |-> CHOOSE p \in DOMAIN mns : mns[p].internalId = ids[i]]

BuildDiff(from, to) ==
  LET stay == DOMAIN from.mnMap \cap DOMAIN to.mnMap
      changed == {p \in stay : from.mnMap[p] # to.mnMap[p]}
      added == Restrict(to.mnMap, DOMAIN to.mnMap \ stay)
      id(p) == to.mnMap[p].internalId
  IN  [addedMNs |-> InIdOrder(added),
       addedMN |-> added,
       updatedMNs |-> [i \in {id(p) : p \in changed} |->
                         LET p == CHOOSE q \in changed : id(q) = i
                         IN  StateDiff(from.mnMap[p], to.mnMap[p])],
       removedMns |-> {from.mnMap[p].internalId : p \in DOMAIN from.mnMap \ stay}]

ApplyRemoved(l, id) ==
  IF id \in InternalIds(l) THEN RemoveMN(l, GetMNByInternalId(l, id)) ELSE Fail(l, "throw")

ApplyUpdated(l, id, stateDiff) ==
  LET p == GetMNByInternalId(l, id)
      mn == l.mnMap[p]
      new == [f \in DOMAIN mn |-> IF f \in DOMAIN stateDiff THEN stateDiff[f] ELSE mn[f]]
  IN  IF id \in InternalIds(l) THEN UpdateMN(l, p, new) ELSE Fail(l, "assert")

RemoveAll(l, ids) ==
  LET removed[n \in 0 .. Len(ids)] == IF n = 0 THEN l ELSE ApplyRemoved(removed[n - 1], ids[n])
  IN  removed[Len(ids)]

AddAll(l, order, mns, fBumpTotalCount) ==
  LET added[n \in 0 .. Len(order)] ==
        IF n = 0 THEN l ELSE AddMN(added[n - 1], order[n], mns[order[n]], fBumpTotalCount)
  IN  added[Len(order)]

UpdateAll(l, ids, stateDiffs) ==
  LET updated[n \in 0 .. Len(ids)] ==
        IF n = 0 THEN l ELSE ApplyUpdated(updated[n - 1], ids[n], stateDiffs[ids[n]])
  IN  updated[Len(ids)]

\* Mutant: the additions come before the removals.
ApplyDiffAddsFirst(l, nHeight, diff) ==
  LET added == AddAll([l EXCEPT !.nHeight = nHeight], diff.addedMNs, diff.addedMN, TRUE)
      removed == RemoveAll(added, Ascending(diff.removedMns))
  IN  UpdateAll(removed, Ascending(DOMAIN diff.updatedMNs), diff.updatedMNs)

ApplyDiff(l, nHeight, diff) ==
  LET removed == RemoveAll([l EXCEPT !.nHeight = nHeight], Ascending(diff.removedMns))
      added == AddAll(removed, diff.addedMNs, diff.addedMN, TRUE)
  IN  UpdateAll(added, Ascending(DOMAIN diff.updatedMNs), diff.updatedMNs)

\* A list read back from disk: the masternodes are added again, the count is read.
Unserialize(l) ==
  AddAll([EmptyList EXCEPT !.nHeight = l.nHeight, !.nTotalRegisteredCount = l.nTotalRegisteredCount],
         SomeOrder(DOMAIN l.mnMap), l.mnMap, FALSE)

-----------------------------------------------------------------------------
(* CheckSpecialTx of a block's transactions against prev, the list of the  *)
(* block before, and unspent, the collaterals in pcoinsTip.  Signatures    *)
(* are valid for any key but a null one.  Every transaction names the      *)
(* collaterals it spends.                                                  *)

CheckProRegTx(tx, prev, unspent) ==
  /\ tx.keyIDOwner # Null /\ tx.keyIDOperator # Null
  /\ tx.collateral \in unspent
  /\ HasUniqueProperty(prev, tx.addr) =>
       prev.mnMap[prev.mnUniquePropertyMap[tx.addr].proTx].collateral = tx.collateral
  /\ ~HasUniqueProperty(prev, tx.keyIDOwner) /\ ~HasUniqueProperty(prev, tx.keyIDOperator)

CheckProUpServTx(tx, prev) ==
  /\ HasMN(prev, tx.proTx) /\ ~UsedByOther(prev, tx.addr, tx.proTx)
  /\ prev.mnMap[tx.proTx].keyIDOperator # Null

CheckProUpRegTx(tx, prev, unspent) ==
  /\ tx.keyIDOperator # Null
  /\ HasMN(prev, tx.proTx) /\ prev.mnMap[tx.proTx].collateral \in unspent
  /\ ~UsedByOther(prev, tx.keyIDOperator, tx.proTx)

CheckProUpRevTx(tx, prev) ==
  HasMN(prev, tx.proTx) /\ prev.mnMap[tx.proTx].keyIDOperator # Null

CheckSpecialTx(tx, prev, unspent) ==
  CASE tx.type = "PROREG"    -> CheckProRegTx(tx, prev, unspent)
    [] tx.type = "PROUPSERV" -> CheckProUpServTx(tx, prev)
    [] tx.type = "PROUPREG"  -> CheckProUpRegTx(tx, prev, unspent)
    [] tx.type = "PROUPREV"  -> CheckProUpRevTx(tx, prev)
    [] tx.type = "NORMAL"    -> TRUE

-----------------------------------------------------------------------------
(* BuildNewListFromBlock *)

ConfirmRegistrations(l, nHeight) ==
  [l EXCEPT !.mnMap = [p \in DOMAIN @ |->
     IF @[p].confirmed = Null /\ nHeight - 1 - @[p].nRegisteredHeight >= MinConf
       THEN [@[p] EXCEPT !.confirmed = nHeight - 1] ELSE @[p]]]

ResetOperatorFields(mn) == [mn EXCEPT !.keyIDOperator = Null, !.addr = Null]

BanIfNotBanned(mn, nHeight) ==
  [mn EXCEPT !.nPoSeBanHeight = IF @ = -1 THEN nHeight ELSE @]

Register(l, tx, nHeight, unspent) ==
  LET kept == IF HasUniqueProperty(l, tx.collateral)
                THEN RemoveMN(l, l.mnUniquePropertyMap[tx.collateral].proTx) ELSE l
      mn == [internalId |-> l.nTotalRegisteredCount, collateral |-> tx.collateral, addr |-> tx.addr,
             keyIDOwner |-> tx.keyIDOwner, keyIDOperator |-> tx.keyIDOperator,
             nRegisteredHeight |-> nHeight, nLastPaidHeight |-> 0, nPoSeRevivedHeight |-> -1,
             nPoSeBanHeight |-> IF tx.addr = Null THEN nHeight ELSE -1, confirmed |-> Null]
  IN  IF tx.collateral \notin unspent THEN Fail(l, "rejected")
      ELSE IF \E v \in {tx.addr, tx.keyIDOwner, tx.keyIDOperator} : HasUniqueProperty(kept, v)
        THEN Fail(kept, "rejected")
        ELSE AddMN(kept, tx.proTx, mn, TRUE)

UpdateService(l, tx, nHeight) ==
  LET mn == [l.mnMap[tx.proTx] EXCEPT !.addr = tx.addr]
      revived == [mn EXCEPT !.nPoSeBanHeight = -1, !.nPoSeRevivedHeight = nHeight]
  IN  IF UsedByOther(l, tx.addr, tx.proTx) \/ ~HasMN(l, tx.proTx) THEN Fail(l, "rejected")
      ELSE UpdateMN(l, tx.proTx,
             IF mn.nPoSeBanHeight # -1 /\ mn.keyIDOperator # Null THEN revived ELSE mn)

UpdateRegistrar(l, tx, nHeight) ==
  LET mn == l.mnMap[tx.proTx]
      kept == IF mn.keyIDOperator = tx.keyIDOperator THEN mn
              ELSE BanIfNotBanned(ResetOperatorFields(mn), nHeight)
  IN  IF ~HasMN(l, tx.proTx) \/ UsedByOther(l, tx.keyIDOperator, tx.proTx) THEN Fail(l, "rejected")
      ELSE UpdateMN(l, tx.proTx, [kept EXCEPT !.keyIDOperator = tx.keyIDOperator])

Revoke(l, tx, nHeight) ==
  IF ~HasMN(l, tx.proTx) THEN Fail(l, "rejected")
  ELSE UpdateMN(l, tx.proTx, BanIfNotBanned(ResetOperatorFields(l.mnMap[tx.proTx]), nHeight))

ProcessTx(l, tx, nHeight, unspent) ==
  IF l.status # "ok" THEN l
  ELSE CASE tx.type = "PROREG"    -> Register(l, tx, nHeight, unspent)
         [] tx.type = "PROUPSERV" -> UpdateService(l, tx, nHeight)
         [] tx.type = "PROUPREG"  -> UpdateRegistrar(l, tx, nHeight)
         [] tx.type = "PROUPREV"  -> Revoke(l, tx, nHeight)
         [] tx.type = "NORMAL"    -> l

RemoveSpent(l, c) ==
  IF l.status = "ok" /\ HasUniqueProperty(l, c)
    THEN RemoveMN(l, l.mnUniquePropertyMap[c].proTx) ELSE l

PayMN(l, payee, nHeight) ==
  IF l.status = "ok" /\ HasMN(l, payee)
    THEN UpdateMN(l, payee, [l.mnMap[payee] EXCEPT !.nLastPaidHeight = nHeight]) ELSE l

ProcessTxs(l, vtx, nHeight, unspent) ==
  LET processed[n \in 0 .. Len(vtx)] ==
        IF n = 0 THEN l ELSE ProcessTx(processed[n - 1], vtx[n], nHeight, unspent)
  IN  processed[Len(vtx)]

Spends(vtx) == UNION {vtx[i].spends : i \in DOMAIN vtx}

\* The inputs of a block in some order: they are all different.
RemoveAllSpent(l, inputs) ==
  LET left[n \in 0 .. Len(inputs)] == IF n = 0 THEN l ELSE RemoveSpent(left[n - 1], inputs[n])
  IN  left[Len(inputs)]

BuildNewListFromBlock(old, vtx, nHeight, unspent) ==
  LET confirmed == ConfirmRegistrations([old EXCEPT !.nHeight = nHeight], nHeight)
      processed == ProcessTxs(confirmed, vtx, nHeight, unspent)
      spent == RemoveAllSpent(processed, SomeOrder(Spends(vtx)))
      payee == GetMNPayee(old)
  IN  IF payee = {} THEN spent ELSE PayMN(spent, CHOOSE p \in payee : TRUE, nHeight)
==============================================================================
