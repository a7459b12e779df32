----------------------------- MODULE MCMasternodes -----------------------------
(***************************************************************************)
(* The masternode data: what the lists of a chain hold, how the manager     *)
(* finds the list of a block, and the transactions of the database both    *)
(* are stored in.  Each behaviour exercises one of the three.              *)
(***************************************************************************)
EXTENDS MNChain, MNManager, EvoDB, TLC

CONSTANTS p1, p2, p3, p4, c1, c2, c3, a1, a2, a3, k1, k2, k3, k4, k5, k6,
          b1, b2, d2, e1, e2, v1, v2,
          MaxFlushed, MaxChanges

Reg(p, c, a, owner, operator) ==
  [type |-> "PROREG", proTx |-> p, collateral |-> c, addr |-> a, keyIDOwner |-> owner,
   keyIDOperator |-> operator, spends |-> {}]
UpServ(p, a) == [type |-> "PROUPSERV", proTx |-> p, addr |-> a, spends |-> {}]
UpReg(p, k) == [type |-> "PROUPREG", proTx |-> p, keyIDOperator |-> k, spends |-> {}]
UpRev(p) == [type |-> "PROUPREV", proTx |-> p, spends |-> {}]
Spend(c) == [type |-> "NORMAL", spends |-> {c}]

TxDef ==
  {Reg(p1, c1, a1, k1, k2), Reg(p2, c2, Null, k3, k3), Reg(p3, c1, a1, k4, k5), Reg(p4, c3, a2, k5, k6)}
  \cup {UpServ(p, a) : p \in {p1, p2, p3}, a \in {a1, a2, a3} }
  \cup {UpReg(p, k) : p \in {p1, p2}, k \in {k2, k3}}
  \cup {UpReg(p3, k2), UpRev(p1), UpRev(p2), Spend(c1), Spend(c3)}
HashOrderDef == <<p3, p1, p4, p2>>

PathDef == (b1 :> <<b1>>) @@ (b2 :> <<b1, b2>>) @@ (d2 :> <<b1, d2>>)

\* Keys and values of different sizes.
KeySizeDef == e1 :> 1 @@ e2 :> 2
ValueSizeDef == v1 :> 1 @@ v2 :> 3

VARIABLE focus    \* the part this behaviour exercises

masternodeVars == <<chainVars, managerVars, vars, focus>>

\* The database starts with any content where it is the part at work, and empty
\* where it is not.
MasternodesInit ==
  /\ ChainInit /\ ManagerInit /\ Init
  /\ focus \in {"chain", "manager", "evodb"}
  /\ focus # "evodb" => db = [k \in Key |-> NoValue]

Diffs(d) == Cardinality({b \in Block : d.diff[b] # None})

\* Bound: the number of diffs that flushes have left on disk and in the batch.
FewFlushed == Diffs(disk.evoDb) + Diffs(evoBatch) <= MaxFlushed

\* Bound: the changes the transactions and the batch hold between them.
FewChanges ==
  Cardinality(Keys(cur)) + Cardinality(Keys(root)) + Cardinality(Keys(rootBatch)) <= MaxChanges

MasternodesNext ==
  \/ focus = "chain" /\ ChainNext /\ UNCHANGED <<managerVars, vars, focus>>
  \/ focus = "manager" /\ ManagerNext /\ FewFlushed' /\ UNCHANGED <<chainVars, vars, focus>>
  \/ focus = "evodb" /\ Next /\ FewChanges' /\ UNCHANGED <<chainVars, managerVars, focus>>

MasternodesSpec == MasternodesInit /\ [][MasternodesNext]_masternodeVars
==============================================================================
