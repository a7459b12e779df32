------------------------------- MODULE MNChain -------------------------------
(***************************************************************************)
(* The masternode list along one chain: ProcessSpecialTxsInBlock for every *)
(* block from the activation of the deterministic list on.  The list a     *)
(* block starts from is the one GetListForBlock gives: the snapshot where  *)
(* ProcessBlock wrote one, the older list with the stored diff elsewhere.  *)
(***************************************************************************)
EXTENDS MNList, MNParams

CONSTANTS
  Tx,                    \* the transactions blocks are made of
  Collateral,            \* the outputs worth a collateral
  MaxHeight, MaxBlockTxs, MaxTxs   \* bounds

\* A collateral is an output: neither a null value nor an address or a key, from which the
\* serialisation under the hash of a unique property tells it apart.  A registration is known
\* by its hash.
ASSUME ChainAssumption ==
  /\ \A n \in {MaxHeight, MaxBlockTxs, MaxTxs} : n \in Nat
  /\ IsFiniteSet(Collateral) /\ Null \notin Collateral
  /\ \A tx \in Tx :
       /\ tx.type \in {"PROREG", "PROUPSERV", "PROUPREG", "PROUPREV", "NORMAL"}
       /\ tx.spends \subseteq Collateral
       /\ tx.type = "PROREG" => /\ tx.collateral \in Collateral
                                /\ {tx.addr, tx.keyIDOwner, tx.keyIDOperator} \cap Collateral = {}
                                /\ \A u \in Tx : u.type = "PROREG" /\ u.proTx = tx.proTx => u = tx
       /\ tx.type = "PROUPSERV" => tx.addr \notin Collateral
       /\ tx.type = "PROUPREG" => tx.keyIDOperator \notin Collateral

VARIABLES
  nHeight,   \* of the tip
  newList,   \* what BuildNewListFromBlock returned for the tip
  list,      \* what GetListForBlock returns for the tip
  unspent,   \* the collaterals in pcoinsTip
  used,      \* the registrations in the chain
  txs        \* the number of transactions in the chain

chainVars == <<nHeight, newList, list, unspent, used, txs>>

ChainInit ==
  /\ nHeight = Activation - 1
  /\ newList = EmptyList /\ list = EmptyList
  /\ unspent = Collateral /\ used = {} /\ txs = 0

\* The inputs exist and are spent once, and a registration is in the chain once.
CheckInputs(vtx) ==
  /\ Spends(vtx) \subseteq unspent
  /\ \A i, j \in DOMAIN vtx : i < j =>
       /\ vtx[i].spends \cap vtx[j].spends = {}
       /\ vtx[i].type = "PROREG" => vtx[i] # vtx[j]
  /\ \A i \in DOMAIN vtx : vtx[i].type = "PROREG" => vtx[i].proTx \notin used

\* The list a later GetListForBlock finds for a block at height h.
StoredList(new, h) ==
  IF WritesSnapshot(h, list.nHeight) THEN new
  ELSE ApplyDiff(list, h, BuildDiff(list, new))

ConnectBlock(vtx) ==
  /\ nHeight < MaxHeight /\ txs + Len(vtx) <= MaxTxs
  /\ newList.status = "ok" /\ list.status = "ok"
  /\ CheckInputs(vtx)
  /\ \A i \in DOMAIN vtx : CheckSpecialTx(vtx[i], list, unspent)
  /\ newList' = BuildNewListFromBlock(list, vtx, nHeight + 1, unspent)
  /\ newList'.status # "rejected"
  /\ nHeight' = nHeight + 1
  /\ list' = IF newList'.status = "ok" THEN StoredList(newList', nHeight + 1) ELSE list
  /\ unspent' = unspent \ Spends(vtx)
  /\ used' = used \cup {vtx[i].proTx : i \in {j \in DOMAIN vtx : vtx[j].type = "PROREG"}}
  /\ txs' = txs + Len(vtx)

ChainNext == \E n \in 0..MaxBlockTxs : \E vtx \in [1..n -> Tx] : ConnectBlock(vtx)

ChainSpec == ChainInit /\ [][ChainNext]_chainVars

-----------------------------------------------------------------------------
(* Properties *)

Revoked(l) == {p \in DOMAIN l.mnMap : l.mnMap[p].keyIDOperator = Null}

SameMNs(a, b) ==
  a.nHeight = b.nHeight /\ a.mnMap = b.mnMap /\ a.mnUniquePropertyMap = b.mnUniquePropertyMap

\* A block's list comes back from what is stored of it: the diff applied to the
\* list before gives the masternodes and the unique properties the block made,
\* and a snapshot reads back as it was written unless it holds a revoked masternode.
StoredListReproduces ==
  newList.status = "ok" /\ list.status = "ok" =>
    /\ SameMNs(list, newList)
    /\ Revoked(newList) = {} => Unserialize(newList) = newList

PropertyFields == {"collateral", "addr", "keyIDOwner", "keyIDOperator"}

Properties(mn) == {mn[f] : f \in PropertyFields} \ {Null}

\* mnUniquePropertyMap holds exactly the collateral, address and keys in use, each
\* with its one masternode and the number of times that masternode uses it, and
\* every masternode's collateral is unspent.
UniquePropertiesExact ==
  newList.status = "ok" =>
    /\ DOMAIN newList.mnUniquePropertyMap =
         UNION {Properties(newList.mnMap[p]) : p \in DOMAIN newList.mnMap}
    /\ \A p \in DOMAIN newList.mnMap :
         LET mn == newList.mnMap[p]
         IN  /\ mn.collateral \in unspent
             /\ \A v \in Properties(mn) : newList.mnUniquePropertyMap[v] =
                  [proTx |-> p, count |-> Cardinality({f \in PropertyFields : mn[f] = v})]

\* A block the checks let through never meets an exception of the list, neither
\* when its list is built nor when its diff is applied; an assertion fails only
\* for a list that holds a masternode whose operator key was revoked.
ListFailsOnlyOnRevoked ==
  \A l \in {newList, list} : l.status # "ok" => l.status = "assert" /\ Revoked(l) # {}

\* No registered masternode runs into an assertion of the list.
ListAssertionsHold == newList.status # "assert" /\ list.status # "assert"

Ahead(l, p) == {q \in ValidMNs(l) \ {p} : CompareByLastPaid(l, q, p)}

\* The payment queue: while a masternode stays valid and unpaid, nobody gets
\* ahead of it, so it is paid after at most as many blocks as were ahead of it.
\* A block that bans it and revives it again sends it to the end.
PaymentQueueFair ==
  [][list'.status = "ok" =>
       \A p \in ValidMNs(list) \cap ValidMNs(list') :
         \/ nHeight' \in {list'.mnMap[p].nLastPaidHeight, list'.mnMap[p].nPoSeRevivedHeight}
         \/ Ahead(list', p) \subseteq Ahead(list, p)]_chainVars
==============================================================================
