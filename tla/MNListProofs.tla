---------------------------- MODULE MNListProofs ----------------------------
(***************************************************************************)
(* Lemmas about the deterministic masternode list, for every set of        *)
(* transactions and collaterals: what AddMN, UpdateMN and RemoveMN do to   *)
(* the map of unique properties, the order of the internal ids, the loops  *)
(* over masternodes and transactions, and that the diff of two lists       *)
(* applied to the first gives the second.                                  *)
(***************************************************************************)
EXTENDS MNChain, TLAPS

-----------------------------------------------------------------------------
(* The map of unique properties and the masternodes it counts. *)

\* The fields in which a masternode holds the value v.
Uses(mn, v) == {f \in PropertyFields : mn[f] = v}

\* The number of fields in a set of property fields.
One(f, S) == IF f \in S THEN 1 ELSE 0
Size(S) ==
  One("collateral", S) + One("addr", S) + One("keyIDOwner", S) + One("keyIDOperator", S)

\* M holds the properties of the masternodes of m, each with its owner and its uses.
Exact(M, m) ==
  /\ M = [v \in DOMAIN M |-> M[v]]
  /\ DOMAIN M = UNION {Properties(m[p]) : p \in DOMAIN m}
  /\ \A p \in DOMAIN m : \A v \in Properties(m[p]) :
       M[v] = [proTx |-> p, count |-> Size(Uses(m[p], v))]

\* The masternodes of m and of n differ at most in one field of one of them.
Change(m, n, q, f) ==
  /\ DOMAIN n = DOMAIN m /\ q \in DOMAIN m /\ f \in PropertyFields
  /\ \A p \in DOMAIN m : \A g \in PropertyFields : p # q \/ g # f => n[p][g] = m[p][g]

\* No masternode but p has the property v.
Free(m, v, p) == \A q \in DOMAIN m : v \in Properties(m[q]) => q = p

\* What AddUniqueProperty and DeleteUniqueProperty make of the map.
AddTo(M, p, v) ==
  Set(M, v, [proTx |-> p, count |-> (IF v \in DOMAIN M THEN M[v].count ELSE 0) + 1])

DeleteFrom(M, v) ==
  IF M[v].count = 1 THEN Restrict(M, DOMAIN M \ {v}) ELSE [M EXCEPT ![v].count = @ - 1]

\* A masternode uses a value as often as it has fields that hold it.
LEMMA UsesCount ==
  ASSUME NEW mn, NEW v
  PROVE  Size(Uses(mn, v)) \in Nat /\ (Size(Uses(mn, v)) = 0 <=> Uses(mn, v) = {})
<1> DEFINE U == Uses(mn, v)
<1>1. U \subseteq {"collateral", "addr", "keyIDOwner", "keyIDOperator"} BY Zenon DEF Uses, PropertyFields
<1> HIDE DEF U
<1>2. Size(U) \in Nat /\ (Size(U) = 0 <=> U = {}) BY <1>1 DEF Size, One
<1> QED BY Zenon, <1>2 DEF U

\* An element more.
LEMMA SizeAdd ==
  ASSUME NEW S, NEW f \in PropertyFields, f \notin S PROVE Size(S \cup {f}) = Size(S) + 1
<1>1. f \in {"collateral", "addr", "keyIDOwner", "keyIDOperator"} BY Zenon DEF PropertyFields
<1> QED BY <1>1 DEF Size, One

\* A field that takes a value adds one use of it and drops one of the value it had.
LEMMA UsesChange ==
  ASSUME NEW a, NEW b, NEW f \in PropertyFields, a[f] # b[f],
         \A g \in PropertyFields : g # f => b[g] = a[g]
  PROVE  /\ Size(Uses(b, b[f])) = Size(Uses(a, b[f])) + 1
         /\ Size(Uses(b, a[f])) = Size(Uses(a, a[f])) - 1
         /\ \A v : v \notin {a[f], b[f]} => Uses(b, v) = Uses(a, v)
<1>1. Uses(b, b[f]) = Uses(a, b[f]) \cup {f} /\ f \notin Uses(a, b[f]) BY Zenon DEF Uses
<1>2. Uses(a, a[f]) = Uses(b, a[f]) \cup {f} /\ f \notin Uses(b, a[f]) BY Zenon DEF Uses
<1>3. \A v : v \notin {a[f], b[f]} => Uses(b, v) = Uses(a, v) BY Zenon DEF Uses
<1>4. Size(Uses(b, b[f])) = Size(Uses(a, b[f])) + 1 BY Zenon, <1>1, SizeAdd
<1>5. Size(Uses(a, a[f])) = Size(Uses(b, a[f])) + 1 BY Zenon, <1>2, SizeAdd
<1>6. Size(Uses(b, a[f])) \in Nat BY Zenon, UsesCount
<1> QED BY <1>3, <1>4, <1>5, <1>6

\* A value is a property where it is used and not null.
LEMMA PropertyUsed ==
  ASSUME NEW mn, NEW v PROVE v \in Properties(mn) <=> v # Null /\ Uses(mn, v) # {}
BY Zenon DEF Properties, Uses

\* An exact map tells who uses a property, and that nobody else does.
LEMMA ExactUsed ==
  ASSUME NEW M, NEW m, Exact(M, m), NEW v
  PROVE  /\ v \in DOMAIN M <=> \E p \in DOMAIN m : v \in Properties(m[p])
         /\ v \in DOMAIN M => M[v].proTx \in DOMAIN m /\ v \in Properties(m[M[v].proTx])
         /\ \A p : (v \in DOMAIN M /\ M[v].proTx # p) <=> ~Free(m, v, p)
         /\ \A p, q \in DOMAIN m : v \in Properties(m[p]) /\ v \in Properties(m[q]) => p = q
         /\ Null \notin DOMAIN M
<1>1. v \in DOMAIN M <=> \E p \in DOMAIN m : v \in Properties(m[p]) BY Zenon DEF Exact
<1>2. \A p \in DOMAIN m : v \in Properties(m[p]) => M[v].proTx = p
  <2>1. SUFFICES ASSUME NEW p \in DOMAIN m, v \in Properties(m[p]) PROVE M[v].proTx = p BY Zenon
  <2>2. M[v] = [proTx |-> p, count |-> Size(Uses(m[p], v))] BY Zenon, <2>1 DEF Exact
  <2> QED BY <2>2
<1>3. Null \notin DOMAIN M BY Zenon DEF Exact, Properties
<1> QED BY Zenon, <1>1, <1>2, <1>3 DEF Free

\* The map depends on the fields of the properties alone.
LEMMA ExactSame ==
  ASSUME NEW M, NEW m, NEW n, Exact(M, m), DOMAIN n = DOMAIN m,
         \A p \in DOMAIN m : \A g \in PropertyFields : n[p][g] = m[p][g]
  PROVE  Exact(M, n)
<1>1. \A p \in DOMAIN m : \A v : Uses(n[p], v) = Uses(m[p], v) BY Zenon DEF Uses
<1>2. \A p \in DOMAIN m : Properties(n[p]) = Properties(m[p]) BY Zenon DEF Properties
<1> QED BY <1>1, <1>2 DEF Exact

\* Whether a map is exact, value by value.
LEMMA ExactByValue ==
  ASSUME NEW M, NEW m, M = [v \in DOMAIN M |-> M[v]],
         \A v : v \in DOMAIN M => \E p \in DOMAIN m : v \in Properties(m[p]),
         \A p \in DOMAIN m : \A v \in Properties(m[p]) :
           v \in DOMAIN M /\ M[v] = [proTx |-> p, count |-> Size(Uses(m[p], v))]
  PROVE  Exact(M, m)
<1>1. \A v : v \in DOMAIN M <=> \E p \in DOMAIN m : v \in Properties(m[p]) BY Zenon
<1>2. DOMAIN M = UNION {Properties(m[p]) : p \in DOMAIN m} BY <1>1
<1> QED BY Zenon, <1>2 DEF Exact

\* AddUniqueProperty keeps the map exact when a null field takes a value nobody else has.
LEMMA AddField ==
  ASSUME NEW M, NEW m, NEW n, NEW q, NEW f, Exact(M, m), Change(m, n, q, f),
         m[q][f] = Null, n[q][f] # Null, Free(m, n[q][f], q)
  PROVE  Exact(AddTo(M, q, n[q][f]), n)
<1> DEFINE w == n[q][f]
           A == AddTo(M, q, w)
           entry(p, v) == [proTx |-> p, count |-> Size(Uses(n[p], v))]
<1>1. /\ DOMAIN n = DOMAIN m /\ q \in DOMAIN m /\ f \in PropertyFields
      /\ \A p \in DOMAIN m : p # q => \A g \in PropertyFields : n[p][g] = m[p][g]
      /\ \A g \in PropertyFields : g # f => n[q][g] = m[q][g]
  BY Zenon DEF Change
<1>2. /\ A = [v \in DOMAIN A |-> A[v]] /\ DOMAIN A = DOMAIN M \cup {w}
      /\ A[w] = [proTx |-> q, count |-> (IF w \in DOMAIN M THEN M[w].count ELSE 0) + 1]
      /\ \A v \in DOMAIN M : v # w => A[v] = M[v]
  BY Zenon DEF AddTo, Set
<1>3. \A p \in DOMAIN m : p # q => Uses(n[p], w) = Uses(m[p], w) /\ \A v : Uses(n[p], v) = Uses(m[p], v)
  BY ZenonT(30), <1>1 DEF Uses
<1>4. Size(Uses(n[q], w)) = Size(Uses(m[q], w)) + 1 BY ZenonT(30), <1>1, UsesChange
<1>5. \A v : v \notin {Null, w} => Uses(n[q], v) = Uses(m[q], v)
  <2>1. m[q][f] # n[q][f] BY Zenon
  <2>2. \A v : v \notin {m[q][f], n[q][f]} => Uses(n[q], v) = Uses(m[q], v) BY Zenon, <1>1, <2>1, UsesChange
  <2> QED BY Zenon, <2>2
<1>6. w \in Properties(n[q])
  <2>1. f \in Uses(n[q], w) BY Zenon, <1>1 DEF Uses
  <2> QED BY Zenon, <2>1, PropertyUsed
<1>7. \A p \in DOMAIN m : \A v : v # w => (v \in Properties(n[p]) <=> v \in Properties(m[p]))
  <2>1. ASSUME NEW p \in DOMAIN m, NEW v, v # w, v # Null PROVE Uses(n[p], v) = Uses(m[p], v)
    BY Zenon, <1>3, <1>5, <2>1
  <2> HIDE DEF w
  <2> QED BY <2>1, PropertyUsed
<1>8. A[w] = entry(q, w)
  <2>1. w \in DOMAIN M => M[w] = [proTx |-> q, count |-> Size(Uses(m[q], w))]
    <3>1. w \in DOMAIN M => w \in Properties(m[q]) BY ExactUsed DEF Free
    <3> QED BY Zenon, <1>1, <3>1 DEF Exact
  <2>2. w \notin DOMAIN M => Size(Uses(m[q], w)) = 0
    <3>1. w \notin DOMAIN M => w \notin Properties(m[q]) BY Zenon, <1>1, ExactUsed
    <3> QED BY Zenon, <3>1, PropertyUsed, UsesCount
  <2> HIDE DEF w
  <2> QED BY <1>2, <1>4, <2>1, <2>2
<1>9. ASSUME NEW p \in DOMAIN m, NEW v \in Properties(n[p])
      PROVE  v \in DOMAIN A /\ A[v] = entry(p, v)
  <2>1. CASE v = w
    <3>1. p = q
      <4>1. p # q => w \in Properties(m[p]) BY Zenon, <1>3, <1>9, <2>1, PropertyUsed
      <4> QED BY Zenon, <4>1 DEF Free
    <3> QED BY Zenon, <1>2, <1>8, <2>1, <3>1
  <2>2. CASE v # w
    <3>1. v \in Properties(m[p]) /\ v # Null BY Zenon, <1>7, <1>9, <2>2, PropertyUsed
    <3>2. v \in DOMAIN M /\ M[v] = [proTx |-> p, count |-> Size(Uses(m[p], v))]
      BY Zenon, <3>1, ExactUsed DEF Exact
    <3>3. Uses(n[p], v) = Uses(m[p], v) BY Zenon, <1>3, <1>5, <2>2, <3>1
    <3> QED BY Zenon, <1>2, <2>2, <3>2, <3>3
  <2> QED BY Zenon, <2>1, <2>2
<1>10. ASSUME NEW v \in DOMAIN A PROVE \E p \in DOMAIN m : v \in Properties(n[p])
  <2>1. v # w => \E p \in DOMAIN m : v \in Properties(m[p]) BY Zenon, <1>2, <1>10, ExactUsed
  <2> QED BY Zenon, <1>1, <1>6, <1>7, <2>1
<1> HIDE DEF A
<1> HIDE DEF w
<1>11. \A p \in DOMAIN n : \A v \in Properties(n[p]) : v \in DOMAIN A /\ A[v] = entry(p, v)
  BY Zenon, <1>1, <1>9
<1>12. \A v : v \in DOMAIN A => \E p \in DOMAIN n : v \in Properties(n[p]) BY Zenon, <1>1, <1>10
<1>13. Exact(A, n) BY <1>2, <1>11, <1>12, ExactByValue
<1> QED BY Zenon, <1>13 DEF A, w

\* DeleteUniqueProperty finds the value of a field and keeps the map exact when the field
\* becomes null.
LEMMA DeleteField ==
  ASSUME NEW M, NEW m, NEW n, NEW q, NEW f, Exact(M, m), Change(m, n, q, f),
         m[q][f] # Null, n[q][f] = Null
  PROVE  /\ m[q][f] \in DOMAIN M /\ M[m[q][f]].proTx = q
         /\ Exact(DeleteFrom(M, m[q][f]), n)
<1> DEFINE w == m[q][f]
           D == DeleteFrom(M, w)
           entry(p, v) == [proTx |-> p, count |-> Size(Uses(n[p], v))]
<1>1. /\ DOMAIN n = DOMAIN m /\ q \in DOMAIN m /\ f \in PropertyFields
      /\ \A p \in DOMAIN m : p # q => \A g \in PropertyFields : n[p][g] = m[p][g]
      /\ \A g \in PropertyFields : g # f => n[q][g] = m[q][g]
  BY Zenon DEF Change
<1>2. w \in Properties(m[q])
  <2>1. f \in Uses(m[q], w) BY Zenon, <1>1 DEF Uses
  <2> QED BY Zenon, <2>1, PropertyUsed
<1>3. w \in DOMAIN M /\ M[w] = [proTx |-> q, count |-> Size(Uses(m[q], w))]
  <2>1. w \in DOMAIN M BY Zenon, <1>1, <1>2, ExactUsed
  <2> QED BY Zenon, <1>1, <1>2, <2>1 DEF Exact
<1>4. Size(Uses(n[q], w)) = M[w].count - 1 /\ M[w].proTx = q /\ M[w].count \in Int
  <2>1. Size(Uses(n[q], w)) = Size(Uses(m[q], w)) - 1 BY Zenon, <1>1, UsesChange
  <2>2. Size(Uses(m[q], w)) \in Nat BY Zenon, UsesCount
  <2> HIDE DEF w
  <2> QED BY <1>3, <2>1, <2>2
<1>5. \A p \in DOMAIN m : p # q => \A v : Uses(n[p], v) = Uses(m[p], v) BY Zenon, <1>1 DEF Uses
<1>6. \A v : v \notin {w, Null} => Uses(n[q], v) = Uses(m[q], v)
  <2>1. m[q][f] # n[q][f] BY Zenon
  <2>2. \A v : v \notin {m[q][f], n[q][f]} => Uses(n[q], v) = Uses(m[q], v) BY Zenon, <1>1, <2>1, UsesChange
  <2> QED BY Zenon, <2>2
<1>7. \A p \in DOMAIN m : \A v : v # w => (v \in Properties(n[p]) <=> v \in Properties(m[p]))
  <2>1. ASSUME NEW p \in DOMAIN m, NEW v, v # w, v # Null PROVE Uses(n[p], v) = Uses(m[p], v)
    BY Zenon, <1>5, <1>6, <2>1
  <2> HIDE DEF w
  <2> QED BY <2>1, PropertyUsed
<1>8. \A p \in DOMAIN m : w \in Properties(n[p]) => p = q
  <2>1. \A p \in DOMAIN m : p # q /\ w \in Properties(n[p]) => w \in Properties(m[p])
    BY <1>5, PropertyUsed
  <2>2. \A p \in DOMAIN m : w \in Properties(m[p]) => p = q BY ZenonT(30), <1>1, <1>2, ExactUsed
  <2> QED BY Zenon, <2>1, <2>2
<1>9. w \in Properties(n[q]) <=> M[w].count # 1
  <2>1. w \in Properties(n[q]) <=> Size(Uses(n[q], w)) # 0 BY Zenon, PropertyUsed, UsesCount
  <2> HIDE DEF w
  <2> QED BY <1>4, <2>1
<1>10. /\ D = [v \in DOMAIN D |-> D[v]]
       /\ DOMAIN D = IF M[w].count = 1 THEN DOMAIN M \ {w} ELSE DOMAIN M
       /\ \A v \in DOMAIN M : v # w => D[v] = M[v]
       /\ M[w].count # 1 => D[w] = entry(q, w)
  <2>1. M = [v \in DOMAIN M |-> M[v]] BY Zenon DEF Exact
  <2>2. CASE M[w].count = 1 BY Zenon, <2>2 DEF DeleteFrom, Restrict
  <2>3. CASE M[w].count # 1
    <3>1. D = [M EXCEPT ![w].count = @ - 1] BY Zenon, <2>3 DEF DeleteFrom
    <3>2. D[w] = [M[w] EXCEPT !.count = @ - 1] BY Zenon, <1>3, <2>1, <3>1
    <3>3. [M[w] EXCEPT !.count = @ - 1] = entry(q, w)
      <4> DEFINE c == Size(Uses(m[q], w))
                 d == Size(Uses(n[q], w))
      <4>1. d = c - 1 BY <1>3, <1>4
      <4>2. M[w] = [proTx |-> q, count |-> c] BY Zenon, <1>3
      <4> HIDE DEF w, c, d
      <4> QED BY <4>1, <4>2 DEF d
    <3> HIDE DEF w, entry
    <3> QED BY ZenonT(30), <1>3, <2>1, <2>3, <3>1, <3>2, <3>3
  <2> QED BY Zenon, <2>2, <2>3
<1>11. ASSUME NEW p \in DOMAIN n, NEW v \in Properties(n[p])
      PROVE  v \in DOMAIN D /\ D[v] = entry(p, v)
  <2>1. CASE v = w
    <3>1. p = q /\ M[w].count # 1 BY Zenon, <1>1, <1>8, <1>9, <1>11, <2>1
    <3> QED BY Zenon, <1>3, <1>10, <2>1, <3>1
  <2>2. CASE v # w
    <3>1. v \in Properties(m[p]) /\ v # Null BY Zenon, <1>1, <1>7, <1>11, <2>2, PropertyUsed
    <3>2. v \in DOMAIN M /\ M[v] = [proTx |-> p, count |-> Size(Uses(m[p], v))]
      <4>1. v \in DOMAIN M BY Zenon, <1>1, <3>1, ExactUsed
      <4> QED BY Zenon, <1>1, <3>1, <4>1 DEF Exact
    <3>3. Uses(n[p], v) = Uses(m[p], v) BY Zenon, <1>1, <1>5, <1>6, <2>2, <3>1
    <3>4. v \in DOMAIN D
      <4> HIDE DEF D, w
      <4> QED BY Zenon, <1>10, <2>2, <3>2
    <3> QED BY Zenon, <1>10, <2>2, <3>2, <3>3, <3>4
  <2> QED BY Zenon, <2>1, <2>2
<1>12. ASSUME NEW v \in DOMAIN D PROVE \E p \in DOMAIN n : v \in Properties(n[p])
  <2>1. v \in DOMAIN M /\ (v = w => M[w].count # 1)
    <3> HIDE DEF D, w
    <3> QED BY Zenon, <1>10, <1>12
  <2>2. v # w => \E p \in DOMAIN m : v \in Properties(m[p]) BY <2>1, ExactUsed
  <2> QED BY Zenon, <1>1, <1>7, <1>9, <2>1, <2>2
<1> HIDE DEF D, w
<1>13. \A v : v \in DOMAIN D => \E p \in DOMAIN n : v \in Properties(n[p]) BY Zenon, <1>12
<1>14. \A p \in DOMAIN n : \A v \in Properties(n[p]) : v \in DOMAIN D /\ D[v] = entry(p, v)
  BY Zenon, <1>11
<1>15. D = [v \in DOMAIN D |-> D[v]] BY Zenon, <1>10
<1>16. Exact(D, n) BY <1>13, <1>14, <1>15, ExactByValue
<1> QED BY Zenon, <1>3, <1>4, <1>16 DEF D, w

-----------------------------------------------------------------------------
(* The operations on the unique properties of a list. *)

ListFields == {"nHeight", "nTotalRegisteredCount", "mnMap", "mnUniquePropertyMap", "status"}

IsList(l) == l = [f \in ListFields |-> l[f]]

\* r is l with other unique properties, and perhaps another status.
SameMasternodes(l, r) ==
  /\ IsList(r) /\ r.mnMap = l.mnMap /\ r.nHeight = l.nHeight
  /\ r.nTotalRegisteredCount = l.nTotalRegisteredCount

\* The status after a failed assertion.
Asserts(l) == IF l.status = "ok" THEN "assert" ELSE l.status

\* A failure changes the status of a list that had none.
LEMMA FailFacts ==
  ASSUME NEW l, IsList(l), NEW how
  PROVE  /\ SameMasternodes(l, Fail(l, how))
         /\ Fail(l, how).mnUniquePropertyMap = l.mnUniquePropertyMap
         /\ Fail(l, how).status = IF l.status = "ok" THEN how ELSE l.status
<1>1. CASE l.status = "ok" BY Zenon, <1>1 DEF IsList, ListFields, SameMasternodes, Fail
<1>2. CASE l.status # "ok" BY Zenon, <1>2 DEF SameMasternodes, Fail
<1> QED BY Zenon, <1>1, <1>2

\* Replacing the map of unique properties replaces nothing else.
LEMMA SetMap ==
  ASSUME NEW l, IsList(l), NEW M, NEW r, r = [l EXCEPT !.mnUniquePropertyMap = M]
  PROVE  SameMasternodes(l, r) /\ r.mnUniquePropertyMap = M /\ r.status = l.status
BY Zenon DEF IsList, ListFields, SameMasternodes

\* What AddUniqueProperty does.
LEMMA AddUniquePropertyFacts ==
  ASSUME NEW l, IsList(l), NEW p, NEW v
  PROVE  LET r == AddUniqueProperty(l, p, v)
         IN  /\ SameMasternodes(l, r)
             /\ v = Null \/ UsedByOther(l, v, p) =>
                  r.mnUniquePropertyMap = l.mnUniquePropertyMap /\ r.status = Asserts(l)
             /\ ~(v = Null \/ UsedByOther(l, v, p)) =>
                  r.mnUniquePropertyMap = AddTo(l.mnUniquePropertyMap, p, v) /\ r.status = l.status
<1> DEFINE r == AddUniqueProperty(l, p, v)
<1>1. CASE v = Null \/ UsedByOther(l, v, p)
  <2>1. AddUniqueProperty(l, p, v) = Fail(l, "assert") BY Zenon, <1>1 DEF AddUniqueProperty
  <2> QED BY Zenon, <1>1, <2>1, FailFacts DEF Asserts
<1>2. CASE ~(v = Null \/ UsedByOther(l, v, p))
  <2>1. AddUniqueProperty(l, p, v) =
          [l EXCEPT !.mnUniquePropertyMap = AddTo(l.mnUniquePropertyMap, p, v)]
    <3>1. AddUniqueProperty(l, p, v) =
            [l EXCEPT !.mnUniquePropertyMap =
               Set(@, v, [proTx |-> p, count |->
                           (IF HasUniqueProperty(l, v) THEN l.mnUniquePropertyMap[v].count ELSE 0) + 1])]
      BY Zenon, <1>2 DEF AddUniqueProperty
    <3> QED BY Zenon, <3>1 DEF AddTo, HasUniqueProperty
  <2>2. /\ SameMasternodes(l, r) /\ r.status = l.status
        /\ r.mnUniquePropertyMap = AddTo(l.mnUniquePropertyMap, p, v) BY <2>1, SetMap
  <2> QED BY Zenon, <1>2, <2>2
<1> QED BY Zenon, <1>1, <1>2

\* What DeleteUniqueProperty does.
LEMMA DeleteUniquePropertyFacts ==
  ASSUME NEW l, IsList(l), NEW p, NEW v
  PROVE  LET r == DeleteUniqueProperty(l, p, v)
             fails == v = Null \/ v \notin DOMAIN l.mnUniquePropertyMap \/ UsedByOther(l, v, p)
         IN  /\ SameMasternodes(l, r)
             /\ fails => r.mnUniquePropertyMap = l.mnUniquePropertyMap /\ r.status = Asserts(l)
             /\ ~fails => r.mnUniquePropertyMap = DeleteFrom(l.mnUniquePropertyMap, v) /\ r.status = l.status
<1> DEFINE r == DeleteUniqueProperty(l, p, v)
           fails == v = Null \/ v \notin DOMAIN l.mnUniquePropertyMap \/ UsedByOther(l, v, p)
<1>1. CASE fails
  <2>1. DeleteUniqueProperty(l, p, v) = Fail(l, "assert")
    BY Zenon, <1>1 DEF DeleteUniqueProperty, HasUniqueProperty
  <2> QED BY Zenon, <1>1, <2>1, FailFacts DEF Asserts
<1>2. CASE ~fails
  <2>1. DeleteUniqueProperty(l, p, v) =
          [l EXCEPT !.mnUniquePropertyMap = DeleteFrom(l.mnUniquePropertyMap, v)]
    <3>1. DeleteUniqueProperty(l, p, v) =
            IF l.mnUniquePropertyMap[v].count = 1
              THEN [l EXCEPT !.mnUniquePropertyMap = Restrict(@, DOMAIN @ \ {v})]
              ELSE [l EXCEPT !.mnUniquePropertyMap[v].count = @ - 1]
      BY Zenon, <1>2 DEF DeleteUniqueProperty, HasUniqueProperty
    <3>2. CASE l.mnUniquePropertyMap[v].count = 1 BY Zenon, <3>1, <3>2 DEF DeleteFrom
    <3>3. CASE l.mnUniquePropertyMap[v].count # 1 BY Zenon, <3>1, <3>3 DEF DeleteFrom
    <3> QED BY ZenonT(30), <3>2, <3>3
  <2>2. /\ SameMasternodes(l, r) /\ r.status = l.status
        /\ r.mnUniquePropertyMap = DeleteFrom(l.mnUniquePropertyMap, v) BY <2>1, SetMap
  <2> QED BY Zenon, <1>2, <2>2
<1> QED BY Zenon, <1>1, <1>2

\* AddUniqueProperty for a field that was null: it asserts that the value is not null.
LEMMA AddToList ==
  ASSUME NEW l, IsList(l), NEW m, NEW n, NEW q, NEW f, NEW v, Exact(l.mnUniquePropertyMap, m),
         Change(m, n, q, f), m[q][f] = Null, n[q][f] = v, Free(m, v, q)
  PROVE  LET r == AddUniqueProperty(l, q, v)
         IN  /\ SameMasternodes(l, r) /\ Exact(r.mnUniquePropertyMap, n)
             /\ r.status = IF v = Null THEN Asserts(l) ELSE l.status
<1> DEFINE r == AddUniqueProperty(l, q, v)
<1>1. SameMasternodes(l, r) BY Zenon, AddUniquePropertyFacts
<1>2. ~UsedByOther(l, v, q)
  <2>1. ~(v \in DOMAIN l.mnUniquePropertyMap /\ l.mnUniquePropertyMap[v].proTx # q) BY ZenonT(30), ExactUsed
  <2> QED BY Zenon, <2>1 DEF UsedByOther, HasUniqueProperty
<1>3. CASE v = Null
  <2>1. r.mnUniquePropertyMap = l.mnUniquePropertyMap /\ r.status = Asserts(l)
    BY ZenonT(30), <1>3, AddUniquePropertyFacts
  <2>2. \A p \in DOMAIN m : \A g \in PropertyFields : n[p][g] = m[p][g] BY Zenon, <1>3 DEF Change
  <2>3. Exact(l.mnUniquePropertyMap, n) BY <2>2, ExactSame DEF Change
  <2> QED BY Zenon, <1>1, <1>3, <2>1, <2>3
<1>4. CASE v # Null
  <2>1. r.mnUniquePropertyMap = AddTo(l.mnUniquePropertyMap, q, v) /\ r.status = l.status
    BY <1>2, <1>4, AddUniquePropertyFacts
  <2>2. Exact(AddTo(l.mnUniquePropertyMap, q, v), n) BY Zenon, <1>4, AddField
  <2> QED BY Zenon, <1>1, <1>4, <2>1, <2>2
<1> QED BY Zenon, <1>3, <1>4

\* DeleteUniqueProperty for a field that becomes null: it asserts that the value is not null.
LEMMA DeleteFromList ==
  ASSUME NEW l, IsList(l), NEW m, NEW n, NEW q, NEW f, NEW v, Exact(l.mnUniquePropertyMap, m),
         Change(m, n, q, f), m[q][f] = v, n[q][f] = Null
  PROVE  LET r == DeleteUniqueProperty(l, q, v)
         IN  /\ SameMasternodes(l, r) /\ Exact(r.mnUniquePropertyMap, n)
             /\ r.status = IF v = Null THEN Asserts(l) ELSE l.status
<1> DEFINE r == DeleteUniqueProperty(l, q, v)
<1>1. SameMasternodes(l, r) BY Zenon, DeleteUniquePropertyFacts
<1>2. CASE v = Null
  <2>1. r.mnUniquePropertyMap = l.mnUniquePropertyMap /\ r.status = Asserts(l)
    BY ZenonT(30), <1>2, DeleteUniquePropertyFacts
  <2>2. \A p \in DOMAIN m : \A g \in PropertyFields : n[p][g] = m[p][g] BY Zenon, <1>2 DEF Change
  <2>3. Exact(l.mnUniquePropertyMap, n) BY <2>2, ExactSame DEF Change
  <2> QED BY Zenon, <1>1, <1>2, <2>1, <2>3
<1>3. CASE v # Null
  <2>1. /\ v \in DOMAIN l.mnUniquePropertyMap /\ l.mnUniquePropertyMap[v].proTx = q
        /\ Exact(DeleteFrom(l.mnUniquePropertyMap, v), n)
    BY <1>3, DeleteField
  <2>2. r.mnUniquePropertyMap = DeleteFrom(l.mnUniquePropertyMap, v) /\ r.status = l.status
    <3>1. ~UsedByOther(l, v, q) BY Zenon, <2>1 DEF UsedByOther
    <3> QED BY <1>3, <2>1, <3>1, DeleteUniquePropertyFacts
  <2> QED BY Zenon, <1>1, <1>3, <2>1, <2>2
<1> QED BY Zenon, <1>2, <1>3

\* UpdateUniqueProperty for a field that takes a value nobody else has.
LEMMA UpdateInList ==
  ASSUME NEW l, IsList(l), NEW m, NEW n, NEW q, NEW f, NEW old, NEW new,
         Exact(l.mnUniquePropertyMap, m), Change(m, n, q, f), m[q][f] = old, n[q][f] = new,
         Free(m, new, q)
  PROVE  LET r == UpdateUniqueProperty(l, q, old, new)
         IN  SameMasternodes(l, r) /\ Exact(r.mnUniquePropertyMap, n) /\ r.status = l.status
<1> DEFINE r == UpdateUniqueProperty(l, q, old, new)
           d == IF old = Null THEN l ELSE DeleteUniqueProperty(l, q, old)
           k == [p \in DOMAIN m |-> [g \in PropertyFields |-> IF p = q /\ g = f THEN Null ELSE m[p][g]]]
<1>1. Change(m, k, q, f) /\ Change(k, n, q, f) /\ k[q][f] = Null BY Zenon DEF Change
<1>2. \A p \in DOMAIN m : p # q => Properties(k[p]) = Properties(m[p]) BY Zenon DEF Properties
<1>3. Free(k, new, q) BY Zenon, <1>1, <1>2 DEF Free, Change
<1> HIDE DEF k
<1>4. SameMasternodes(l, d) /\ Exact(d.mnUniquePropertyMap, k) /\ d.status = l.status /\ IsList(d)
  <2>1. CASE old = Null
    <3>1. \A p \in DOMAIN m : \A g \in PropertyFields : k[p][g] = m[p][g]
      BY Zenon, <1>1, <2>1 DEF Change
    <3>2. Exact(l.mnUniquePropertyMap, k) BY <1>1, <3>1, ExactSame DEF Change
    <3> QED BY Zenon, <2>1, <3>2 DEF SameMasternodes
  <2>2. CASE old # Null
    <3> DEFINE e == DeleteUniqueProperty(l, q, old)
    <3>1. SameMasternodes(l, e) /\ Exact(e.mnUniquePropertyMap, k) /\ e.status = l.status
      BY <1>1, <2>2, DeleteFromList
    <3> QED BY Zenon, <2>2, <3>1 DEF SameMasternodes
  <2> QED BY Zenon, <2>1, <2>2
<1>5. CASE old = new
  <2>1. r = l BY Zenon, <1>5 DEF UpdateUniqueProperty
  <2>2. \A p \in DOMAIN m : \A g \in PropertyFields : n[p][g] = m[p][g] BY Zenon, <1>5 DEF Change
  <2>3. Exact(l.mnUniquePropertyMap, n) BY <2>2, ExactSame DEF Change
  <2> QED BY Zenon, <2>1, <2>3 DEF SameMasternodes
<1>6. CASE old # new /\ new = Null
  <2>1. r = d BY Zenon, <1>6 DEF UpdateUniqueProperty
  <2>2. \A p \in DOMAIN k : \A g \in PropertyFields : n[p][g] = k[p][g]
    BY Zenon, <1>1, <1>6 DEF Change
  <2> HIDE DEF d
  <2>3. Exact(d.mnUniquePropertyMap, n) BY <1>1, <1>4, <2>2, ExactSame DEF Change
  <2> QED BY Zenon, <1>4, <2>1, <2>3
<1>7. CASE old # new /\ new # Null
  <2>1. r = AddUniqueProperty(d, q, new) BY Zenon, <1>7 DEF UpdateUniqueProperty
  <2> HIDE DEF d
  <2> DEFINE s == AddUniqueProperty(d, q, new)
  <2>2. SameMasternodes(d, s) /\ Exact(s.mnUniquePropertyMap, n) /\ s.status = d.status
    BY <1>1, <1>3, <1>4, <1>7, AddToList
  <2> QED BY Zenon, <1>4, <2>1, <2>2 DEF SameMasternodes
<1> QED BY Zenon, <1>5, <1>6, <1>7

-----------------------------------------------------------------------------
(* AddMN, UpdateMN and RemoveMN. *)

\* A masternode without properties may come and go.
LEMMA ExactSkip ==
  ASSUME NEW M, NEW m, NEW n, Exact(M, m),
         \A q \in DOMAIN m \cap DOMAIN n : \A g \in PropertyFields : n[q][g] = m[q][g],
         \A q \in DOMAIN m \ DOMAIN n : Properties(m[q]) = {},
         \A q \in DOMAIN n \ DOMAIN m : Properties(n[q]) = {}
  PROVE  Exact(M, n)
<1>1. \A q \in DOMAIN m \cap DOMAIN n : \A v : Uses(n[q], v) = Uses(m[q], v) BY Zenon DEF Uses
<1>2. \A q \in DOMAIN m \cap DOMAIN n : Properties(n[q]) = Properties(m[q]) BY ZenonT(30) DEF Properties
<1>3. M = [v \in DOMAIN M |-> M[v]] BY Zenon DEF Exact
<1>4. ASSUME NEW v \in DOMAIN M PROVE \E q \in DOMAIN n : v \in Properties(n[q])
  <2>1. PICK q \in DOMAIN m : v \in Properties(m[q]) BY ExactUsed
  <2>2. q \in DOMAIN n BY Zenon, <2>1
  <2> QED BY Zenon, <1>2, <2>1, <2>2
<1>5. ASSUME NEW q \in DOMAIN n, NEW v \in Properties(n[q])
      PROVE  v \in DOMAIN M /\ M[v] = [proTx |-> q, count |-> Size(Uses(n[q], v))]
  <2>1. q \in DOMAIN m BY Zenon, <1>5
  <2>2. v \in Properties(m[q]) BY Zenon, <1>2, <2>1
  <2>3. M[v] = [proTx |-> q, count |-> Size(Uses(m[q], v))] BY Zenon, <2>1, <2>2 DEF Exact
  <2>4. v \in DOMAIN M BY Zenon, <2>1, <2>2, ExactUsed
  <2>5. Uses(n[q], v) = Uses(m[q], v) BY Zenon, <1>1, <2>1
  <2> QED BY Zenon, <2>3, <2>4, <2>5
<1> QED BY Zenon, <1>3, <1>4, <1>5, ExactByValue

\* Who else has a value does not depend on the masternode itself.
LEMMA FreeElse ==
  ASSUME NEW m, NEW n, NEW p, NEW v, Free(m, v, p),
         \A q \in DOMAIN n : q # p => q \in DOMAIN m /\ \A g \in PropertyFields : n[q][g] = m[q][g]
  PROVE  Free(n, v, p)
<1>1. \A q \in DOMAIN n : q # p => q \in DOMAIN m /\ Properties(n[q]) = Properties(m[q])
  BY Zenon DEF Properties
<1> QED BY Zenon, <1>1 DEF Free

\* UpdateMN: the masternode is replaced and its properties follow.
LEMMA UpdateMNFacts ==
  ASSUME NEW l, IsList(l), NEW p \in DOMAIN l.mnMap, NEW new, Exact(l.mnUniquePropertyMap, l.mnMap),
         new.collateral = l.mnMap[p].collateral,
         \A v \in {new.addr, new.keyIDOwner, new.keyIDOperator} : Free(l.mnMap, v, p)
  PROVE  LET r == UpdateMN(l, p, new)
         IN  /\ IsList(r) /\ r.mnMap = [l.mnMap EXCEPT ![p] = new]
             /\ Exact(r.mnUniquePropertyMap, r.mnMap)
             /\ r.nHeight = l.nHeight /\ r.nTotalRegisteredCount = l.nTotalRegisteredCount
             /\ r.status = l.status
<1> DEFINE m == l.mnMap
           old == m[p]
           mix(S) == [q \in DOMAIN m |-> [g \in PropertyFields |-> IF q = p /\ g \in S THEN new[g] ELSE m[q][g]]]
           a == mix({"addr"})
           b == mix({"addr", "keyIDOwner"})
           n == [m EXCEPT ![p] = new]
           set == [l EXCEPT !.mnMap[p] = new]
           ra == UpdateUniqueProperty(set, p, old.addr, new.addr)
           rb == UpdateUniqueProperty(ra, p, old.keyIDOwner, new.keyIDOwner)
           r == UpdateUniqueProperty(rb, p, old.keyIDOperator, new.keyIDOperator)
<1>1. UpdateMN(l, p, new) = r
  <2>1. ~UsedByOther(l, old.addr, p)
    <3>1. Free(m, old.addr, p)
      <4>1. \A q \in DOMAIN m : old.addr \in Properties(m[q]) => old.addr \in Properties(m[p])
        BY Zenon DEF Properties, PropertyFields
      <4>2. \A q \in DOMAIN m : old.addr \in Properties(m[q]) => q = p BY <4>1, ExactUsed
      <4> QED BY Zenon, <4>2 DEF Free
    <3> QED BY <3>1, ExactUsed DEF UsedByOther, HasUniqueProperty
  <2> QED BY Zenon, <2>1 DEF UpdateMN, HasMN
<1>2. /\ Change(m, a, p, "addr") /\ a[p]["addr"] = new.addr
      /\ Change(a, b, p, "keyIDOwner") /\ a[p]["keyIDOwner"] = old.keyIDOwner
      /\ b[p]["keyIDOwner"] = new.keyIDOwner
  BY Zenon DEF Change, PropertyFields
<1>3. Change(b, n, p, "keyIDOperator") /\ b[p]["keyIDOperator"] = old.keyIDOperator /\ n[p] = new
  BY Zenon DEF Change, PropertyFields
<1>4. /\ IsList(set) /\ set.mnMap = n /\ set.mnUniquePropertyMap = l.mnUniquePropertyMap
      /\ set.nHeight = l.nHeight /\ set.nTotalRegisteredCount = l.nTotalRegisteredCount
      /\ set.status = l.status
  BY Zenon DEF IsList, ListFields
<1>5. Free(m, new.addr, p) /\ Free(a, new.keyIDOwner, p) /\ Free(b, new.keyIDOperator, p)
  <2>1. \A q \in DOMAIN m : q # p => \A g \in PropertyFields : a[q][g] = m[q][g] /\ b[q][g] = m[q][g]
    BY Zenon
  <2>2. DOMAIN a = DOMAIN m /\ DOMAIN b = DOMAIN m BY Zenon
  <2> HIDE DEF a, b, m
  <2> QED BY <2>1, <2>2, FreeElse DEF m
<1> HIDE DEF a, b, n, set
<1>6. SameMasternodes(set, ra) /\ Exact(ra.mnUniquePropertyMap, a) /\ ra.status = l.status
  BY <1>2, <1>4, <1>5, UpdateInList
<1> HIDE DEF ra
<1>7. SameMasternodes(ra, rb) /\ Exact(rb.mnUniquePropertyMap, b) /\ rb.status = l.status
  <2>1. IsList(ra) BY Zenon, <1>6 DEF SameMasternodes
  <2> QED BY <1>2, <1>5, <1>6, <2>1, UpdateInList
<1> HIDE DEF rb
<1>8. SameMasternodes(rb, r) /\ Exact(r.mnUniquePropertyMap, n) /\ r.status = l.status
  <2>1. IsList(rb) BY Zenon, <1>7 DEF SameMasternodes
  <2>2. n[p]["keyIDOperator"] = new.keyIDOperator BY Zenon, <1>3
  <2> QED BY <1>3, <1>5, <1>7, <2>1, <2>2, UpdateInList
<1> HIDE DEF r
<1> QED BY ZenonT(30), <1>1, <1>4, <1>6, <1>7, <1>8 DEF SameMasternodes, n

\* AddMN of a masternode whose properties are free: it is added, and its properties with it.
\* AddUniqueProperty asserts that the operator key is not null.
LEMMA AddMNFacts ==
  ASSUME NEW l, IsList(l), NEW p, NEW mn, NEW fBump, Exact(l.mnUniquePropertyMap, l.mnMap),
         p \notin DOMAIN l.mnMap, mn.internalId \notin InternalIds(l),
         \A f \in PropertyFields : mn[f] \notin DOMAIN l.mnUniquePropertyMap,
         mn.collateral # Null, mn.keyIDOwner # Null
  PROVE  LET r == AddMN(l, p, mn, fBump)
         IN  /\ IsList(r) /\ r.mnMap = Set(l.mnMap, p, mn)
             /\ Exact(r.mnUniquePropertyMap, r.mnMap) /\ r.nHeight = l.nHeight
             /\ r.nTotalRegisteredCount = (IF fBump /\ mn.internalId >= l.nTotalRegisteredCount
                                             THEN mn.internalId + 1 ELSE l.nTotalRegisteredCount)
             /\ r.status = IF mn.keyIDOperator = Null THEN Asserts(l) ELSE l.status
<1> DEFINE m == l.mnMap
           n == Set(m, p, mn)
           count == IF fBump /\ mn.internalId >= l.nTotalRegisteredCount
                      THEN mn.internalId + 1 ELSE l.nTotalRegisteredCount
           part(S) == [q \in DOMAIN m \cup {p} |-> [g \in PropertyFields |->
                         IF q = p THEN IF g \in S THEN mn[g] ELSE Null ELSE m[q][g]]]
           z == part({})
           c == part({"collateral"})
           a == part({"collateral", "addr"})
           b == part({"collateral", "addr", "keyIDOwner"})
           set == [l EXCEPT !.mnMap = n, !.nTotalRegisteredCount = count]
           rc == AddUniqueProperty(set, p, mn.collateral)
           ra == IF mn.addr = Null THEN rc ELSE AddUniqueProperty(rc, p, mn.addr)
           rb == AddUniqueProperty(ra, p, mn.keyIDOwner)
           r == AddUniqueProperty(rb, p, mn.keyIDOperator)
<1>1. AddMN(l, p, mn, fBump) = r
  <2>1. ~\E v \in {mn.addr, mn.keyIDOwner, mn.keyIDOperator} : HasUniqueProperty(l, v)
    BY Zenon DEF HasUniqueProperty, PropertyFields
  <2> QED BY Zenon, <2>1 DEF AddMN, HasMN, AddProperties
<1>2. /\ Change(z, c, p, "collateral") /\ z[p]["collateral"] = Null /\ c[p]["collateral"] = mn.collateral
      /\ Change(c, a, p, "addr") /\ c[p]["addr"] = Null /\ a[p]["addr"] = mn.addr
  BY Zenon DEF Change, PropertyFields
<1>3. /\ Change(a, b, p, "keyIDOwner") /\ a[p]["keyIDOwner"] = Null /\ b[p]["keyIDOwner"] = mn.keyIDOwner
      /\ Change(b, n, p, "keyIDOperator") /\ b[p]["keyIDOperator"] = Null
      /\ n[p]["keyIDOperator"] = mn.keyIDOperator
  BY Zenon DEF Change, PropertyFields, Set
<1>4. /\ IsList(set) /\ set.mnMap = n /\ set.mnUniquePropertyMap = l.mnUniquePropertyMap
      /\ set.nHeight = l.nHeight /\ set.nTotalRegisteredCount = count /\ set.status = l.status
  BY Zenon DEF IsList, ListFields
<1>5. Exact(l.mnUniquePropertyMap, z)
  <2>1. DOMAIN m \subseteq DOMAIN z /\ DOMAIN z \ DOMAIN m = {p} BY Zenon
  <2>2. \A q \in DOMAIN m : \A g \in PropertyFields : z[q][g] = m[q][g] BY Zenon
  <2>3. Properties(z[p]) = {} BY Zenon DEF Properties
  <2> HIDE DEF z, m
  <2> QED BY <2>1, <2>2, <2>3, ExactSkip DEF m
<1>6. \A f \in PropertyFields : Free(z, mn[f], p) /\ Free(c, mn[f], p) /\ Free(a, mn[f], p) /\ Free(b, mn[f], p)
  <2>1. \A f \in PropertyFields : Free(m, mn[f], p) BY ExactUsed DEF Free
  <2>2. \A q \in DOMAIN m \cup {p} : q # p => /\ q \in DOMAIN m
          /\ \A g \in PropertyFields : z[q][g] = m[q][g] /\ c[q][g] = m[q][g] /\ a[q][g] = m[q][g] /\ b[q][g] = m[q][g]
    BY Zenon
  <2>3. /\ DOMAIN z = DOMAIN m \cup {p} /\ DOMAIN c = DOMAIN m \cup {p}
        /\ DOMAIN a = DOMAIN m \cup {p} /\ DOMAIN b = DOMAIN m \cup {p}
    BY Zenon
  <2> HIDE DEF z, c, a, b, m
  <2> QED BY <2>1, <2>2, <2>3, FreeElse
<1>7. /\ Free(z, mn.collateral, p) /\ Free(c, mn.addr, p) /\ Free(a, mn.keyIDOwner, p)
      /\ Free(b, mn.keyIDOperator, p)
  <2> HIDE DEF z, c, a, b
  <2> QED BY Zenon, <1>6 DEF PropertyFields
<1> HIDE DEF z, c, a, b, n, set, count
<1>8. SameMasternodes(set, rc) /\ Exact(rc.mnUniquePropertyMap, c) /\ rc.status = l.status
  BY <1>2, <1>4, <1>5, <1>7, AddToList
<1> HIDE DEF rc
<1>9. SameMasternodes(rc, ra) /\ Exact(ra.mnUniquePropertyMap, a) /\ ra.status = l.status
  <2>1. IsList(rc) BY Zenon, <1>8 DEF SameMasternodes
  <2>2. CASE mn.addr = Null
    <3>1. \A q \in DOMAIN c : \A g \in PropertyFields : a[q][g] = c[q][g]
      BY Zenon, <1>2, <2>2 DEF Change
    <3>2. Exact(rc.mnUniquePropertyMap, a) BY <1>2, <1>8, <3>1, ExactSame DEF Change
    <3> QED BY Zenon, <1>8, <2>1, <2>2, <3>2 DEF SameMasternodes
  <2>3. CASE mn.addr # Null
    <3>1. ra = AddUniqueProperty(rc, p, mn.addr) BY Zenon, <2>3
    <3> HIDE DEF ra
    <3> QED BY <1>2, <1>7, <1>8, <2>1, <2>3, <3>1, AddToList
  <2> QED BY Zenon, <2>2, <2>3
<1> HIDE DEF ra
<1>10. SameMasternodes(ra, rb) /\ Exact(rb.mnUniquePropertyMap, b) /\ rb.status = l.status
  <2>1. IsList(ra) BY Zenon, <1>9 DEF SameMasternodes
  <2> QED BY <1>3, <1>7, <1>9, <2>1, AddToList
<1> HIDE DEF rb
<1>11. /\ SameMasternodes(rb, r) /\ Exact(r.mnUniquePropertyMap, n)
       /\ r.status = IF mn.keyIDOperator = Null THEN Asserts(l) ELSE l.status
  <2>1. IsList(rb) /\ Asserts(rb) = Asserts(l) BY Zenon, <1>10 DEF SameMasternodes, Asserts
  <2> QED BY <1>3, <1>7, <1>10, <2>1, AddToList
<1> HIDE DEF r
<1> QED BY ZenonT(30), <1>1, <1>4, <1>8, <1>9, <1>10, <1>11 DEF SameMasternodes, n, count

\* The list r is l after the call to remove p.
Removed(l, r, p) ==
  /\ IsList(r) /\ r.nHeight = l.nHeight /\ r.nTotalRegisteredCount = l.nTotalRegisteredCount
  /\ l.mnMap[p].keyIDOperator = Null => r.status = "assert" /\ r.mnMap = l.mnMap
  /\ l.mnMap[p].keyIDOperator # Null =>
       /\ r.status = "ok" /\ r.mnMap = Restrict(l.mnMap, DOMAIN l.mnMap \ {p})
       /\ Exact(r.mnUniquePropertyMap, r.mnMap)

\* RemoveMN: the masternode and its properties are removed.  DeleteUniqueProperty asserts that
\* the operator key is not null; the masternode of a revoked key stays.
LEMMA RemoveMNFacts ==
  ASSUME NEW l, IsList(l), l.status = "ok", NEW p \in DOMAIN l.mnMap,
         Exact(l.mnUniquePropertyMap, l.mnMap),
         l.mnMap[p].collateral # Null, l.mnMap[p].keyIDOwner # Null
  PROVE  Removed(l, RemoveMN(l, p), p)
<1> DEFINE m == l.mnMap
           mn == m[p]
           n == Restrict(m, DOMAIN m \ {p})
           without(S) == [q \in DOMAIN m |-> [g \in PropertyFields |-> IF q = p /\ g \in S THEN Null ELSE m[q][g]]]
           c == without({"collateral"})
           a == without({"collateral", "addr"})
           b == without({"collateral", "addr", "keyIDOwner"})
           z == without(PropertyFields)
           rc == DeleteUniqueProperty(l, p, mn.collateral)
           ra == IF mn.addr = Null THEN rc ELSE DeleteUniqueProperty(rc, p, mn.addr)
           rb == DeleteUniqueProperty(ra, p, mn.keyIDOwner)
           del == DeleteUniqueProperty(rb, p, mn.keyIDOperator)
           rest == [del EXCEPT !.mnMap = Restrict(@, DOMAIN @ \ {p})]
<1>1. RemoveMN(l, p) = IF del.status # "ok" THEN del ELSE rest
  BY Zenon DEF RemoveMN, HasMN, DeleteProperties
<1>2. /\ Change(m, c, p, "collateral") /\ c[p]["collateral"] = Null
      /\ Change(c, a, p, "addr") /\ c[p]["addr"] = mn.addr /\ a[p]["addr"] = Null
  BY Zenon DEF Change, PropertyFields
<1>3. /\ Change(a, b, p, "keyIDOwner") /\ a[p]["keyIDOwner"] = mn.keyIDOwner /\ b[p]["keyIDOwner"] = Null
      /\ Change(b, z, p, "keyIDOperator") /\ b[p]["keyIDOperator"] = mn.keyIDOperator
      /\ z[p]["keyIDOperator"] = Null
  BY Zenon DEF Change, PropertyFields
<1>4. ASSUME NEW M, Exact(M, z) PROVE Exact(M, n)
  <2>1. DOMAIN n = DOMAIN m \ {p} /\ DOMAIN z = DOMAIN m BY Zenon DEF Restrict
  <2>2. \A q \in DOMAIN n : \A g \in PropertyFields : n[q][g] = z[q][g] BY Zenon DEF Restrict
  <2>3. Properties(z[p]) = {} BY Zenon DEF Properties
  <2> HIDE DEF z, n, m
  <2> QED BY ZenonT(30), <1>4, <2>1, <2>2, <2>3, ExactSkip
<1> HIDE DEF c, a, b, z, n
<1>5. SameMasternodes(l, rc) /\ Exact(rc.mnUniquePropertyMap, c) /\ rc.status = "ok"
  BY <1>2, DeleteFromList
<1> HIDE DEF rc
<1>6. SameMasternodes(rc, ra) /\ Exact(ra.mnUniquePropertyMap, a) /\ ra.status = "ok"
  <2>1. IsList(rc) BY Zenon, <1>5 DEF SameMasternodes
  <2>2. CASE mn.addr = Null
    <3>1. \A q \in DOMAIN c : \A g \in PropertyFields : a[q][g] = c[q][g]
      BY Zenon, <1>2, <2>2 DEF Change
    <3>2. Exact(rc.mnUniquePropertyMap, a) BY <1>2, <1>5, <3>1, ExactSame DEF Change
    <3> QED BY Zenon, <1>5, <2>1, <2>2, <3>2 DEF SameMasternodes
  <2>3. CASE mn.addr # Null
    <3>1. ra = DeleteUniqueProperty(rc, p, mn.addr) BY Zenon, <2>3
    <3> HIDE DEF ra
    <3> QED BY <1>2, <1>5, <2>1, <2>3, <3>1, DeleteFromList
  <2> QED BY Zenon, <2>2, <2>3
<1> HIDE DEF ra
<1>7. SameMasternodes(ra, rb) /\ Exact(rb.mnUniquePropertyMap, b) /\ rb.status = "ok"
  <2>1. IsList(ra) BY Zenon, <1>6 DEF SameMasternodes
  <2> QED BY <1>3, <1>6, <2>1, DeleteFromList
<1> HIDE DEF rb
<1>8. /\ SameMasternodes(rb, del) /\ Exact(del.mnUniquePropertyMap, z)
      /\ del.status = IF mn.keyIDOperator = Null THEN "assert" ELSE "ok"
  <2>1. IsList(rb) /\ Asserts(rb) = "assert" BY Zenon, <1>7 DEF SameMasternodes, Asserts
  <2> QED BY <1>3, <1>7, <2>1, DeleteFromList
<1> HIDE DEF del
<1>9. /\ IsList(del) /\ del.nHeight = l.nHeight /\ del.nTotalRegisteredCount = l.nTotalRegisteredCount
      /\ del.mnMap = m
  BY Zenon, <1>5, <1>6, <1>7, <1>8 DEF SameMasternodes
<1>10. CASE mn.keyIDOperator = Null BY Zenon, <1>1, <1>8, <1>9, <1>10 DEF Removed
<1>11. CASE mn.keyIDOperator # Null
  <2>1. /\ IsList(rest) /\ rest.nHeight = l.nHeight /\ rest.nTotalRegisteredCount = l.nTotalRegisteredCount
        /\ rest.mnMap = n /\ rest.status = "ok" /\ rest.mnUniquePropertyMap = del.mnUniquePropertyMap
    BY Zenon, <1>8, <1>9, <1>11 DEF IsList, ListFields, n
  <2>2. Exact(del.mnUniquePropertyMap, n) BY Zenon, <1>4, <1>8
  <2>3. RemoveMN(l, p) = rest BY Zenon, <1>1, <1>8, <1>11
  <2> HIDE DEF rest
  <2> QED BY Zenon, <1>11, <2>1, <2>2, <2>3 DEF Removed, n
<1> QED BY Zenon, <1>10, <1>11

\* After a failed assertion the unique properties are updated to no effect on the status.
LEMMA FailedProperties ==
  ASSUME NEW l, IsList(l), l.status # "ok", NEW p, NEW v, NEW w
  PROVE  /\ LET r == AddUniqueProperty(l, p, v) IN SameMasternodes(l, r) /\ r.status = l.status
         /\ LET r == DeleteUniqueProperty(l, p, v) IN SameMasternodes(l, r) /\ r.status = l.status
         /\ LET r == UpdateUniqueProperty(l, p, v, w) IN SameMasternodes(l, r) /\ r.status = l.status
<1> DEFINE d == IF v = Null THEN l ELSE DeleteUniqueProperty(l, p, v)
           u == UpdateUniqueProperty(l, p, v, w)
           Beside(r) == SameMasternodes(l, r) /\ r.status = l.status
<1>1. Asserts(l) = l.status BY Zenon DEF Asserts
<1>2. Beside(AddUniqueProperty(l, p, v)) BY ZenonT(30), <1>1, AddUniquePropertyFacts
<1>3. Beside(DeleteUniqueProperty(l, p, v)) BY <1>1, DeleteUniquePropertyFacts
<1>4. Beside(l) BY Zenon DEF SameMasternodes
<1>5. Beside(d) /\ IsList(d) BY Zenon, <1>3, <1>4 DEF SameMasternodes
<1>6. Beside(AddUniqueProperty(d, p, w))
  <2> HIDE DEF d
  <2>1. Asserts(d) = l.status BY Zenon, <1>5 DEF Asserts
  <2>2. SameMasternodes(d, AddUniqueProperty(d, p, w)) /\ AddUniqueProperty(d, p, w).status = l.status
    BY <1>5, <2>1, AddUniquePropertyFacts
  <2> QED BY Zenon, <1>5, <2>2 DEF SameMasternodes
<1>7. u \in {l, d, AddUniqueProperty(d, p, w)} BY Zenon DEF UpdateUniqueProperty
<1>8. Beside(u)
  <2> HIDE DEF d, u, Beside
  <2> QED BY Zenon, <1>4, <1>5, <1>6, <1>7
<1> QED BY Zenon, <1>2, <1>3, <1>8

\* A list that failed does not fail again.
LEMMA FailedFail ==
  ASSUME NEW l, IsList(l), l.status # "ok", NEW how
  PROVE  IsList(Fail(l, how)) /\ Fail(l, how).status = l.status /\ Fail(l, how).mnMap = l.mnMap
BY Zenon, FailFacts DEF SameMasternodes

\* After a failed assertion AddMN keeps the masternodes and the status.
LEMMA FailedAdd ==
  ASSUME NEW l, IsList(l), l.status # "ok", NEW p, NEW mn, NEW fBump
  PROVE  LET r == AddMN(l, p, mn, fBump)
         IN  /\ IsList(r) /\ r.status = l.status
             /\ \A q \in DOMAIN l.mnMap : q \in DOMAIN r.mnMap /\ r.mnMap[q] = l.mnMap[q]
<1> DEFINE set == [l EXCEPT !.mnMap = Set(@, p, mn),
                            !.nTotalRegisteredCount =
                               IF fBump /\ mn.internalId >= @ THEN mn.internalId + 1 ELSE @]
           rc == AddUniqueProperty(set, p, mn.collateral)
           ra == IF mn.addr = Null THEN rc ELSE AddUniqueProperty(rc, p, mn.addr)
           rb == AddUniqueProperty(ra, p, mn.keyIDOwner)
           r == AddUniqueProperty(rb, p, mn.keyIDOperator)
<1>1. AddMN(l, p, mn, fBump) = Fail(l, "throw") \/ (AddMN(l, p, mn, fBump) = r /\ ~HasMN(l, p))
  BY Zenon DEF AddMN, AddProperties
<1>2. IsList(set) /\ set.mnMap = Set(l.mnMap, p, mn) /\ set.status = l.status
  BY Zenon DEF IsList, ListFields
<1> HIDE DEF set
<1>3. IsList(rc) /\ rc.mnMap = set.mnMap /\ rc.status = l.status
  BY <1>2, FailedProperties DEF SameMasternodes
<1> HIDE DEF rc
<1>4. IsList(ra) /\ ra.mnMap = set.mnMap /\ ra.status = l.status
  BY <1>3, FailedProperties DEF SameMasternodes
<1> HIDE DEF ra
<1>5. IsList(rb) /\ rb.mnMap = set.mnMap /\ rb.status = l.status
  BY <1>4, FailedProperties DEF SameMasternodes
<1> HIDE DEF rb
<1>6. IsList(r) /\ r.mnMap = set.mnMap /\ r.status = l.status
  BY <1>5, FailedProperties DEF SameMasternodes
<1> HIDE DEF r
<1>7. ~HasMN(l, p) => \A q \in DOMAIN l.mnMap : q \in DOMAIN r.mnMap /\ r.mnMap[q] = l.mnMap[q]
  BY Zenon, <1>2, <1>6 DEF HasMN, Set
<1> QED BY FailedFail, <1>1, <1>6, <1>7

\* After a failed assertion UpdateMN keeps the other masternodes and the status.
LEMMA FailedUpdate ==
  ASSUME NEW l, IsList(l), l.status # "ok", NEW p, NEW mn
  PROVE  LET r == UpdateMN(l, p, mn)
         IN  /\ IsList(r) /\ r.status = l.status
             /\ \A q \in DOMAIN l.mnMap : q # p => q \in DOMAIN r.mnMap /\ r.mnMap[q] = l.mnMap[q]
<1> DEFINE old == l.mnMap[p]
           set == [l EXCEPT !.mnMap[p] = mn]
           ra == UpdateUniqueProperty(set, p, old.addr, mn.addr)
           rb == UpdateUniqueProperty(ra, p, old.keyIDOwner, mn.keyIDOwner)
           r == UpdateUniqueProperty(rb, p, old.keyIDOperator, mn.keyIDOperator)
<1>1. UpdateMN(l, p, mn) = Fail(l, "throw") \/ UpdateMN(l, p, mn) = r BY Zenon DEF UpdateMN
<1>2. /\ IsList(set) /\ DOMAIN set.mnMap = DOMAIN l.mnMap /\ set.status = l.status
      /\ \A q \in DOMAIN l.mnMap : q # p => set.mnMap[q] = l.mnMap[q]
  BY Zenon DEF IsList, ListFields
<1> HIDE DEF set
<1>3. IsList(ra) /\ ra.mnMap = set.mnMap /\ ra.status = l.status
  BY <1>2, FailedProperties DEF SameMasternodes
<1> HIDE DEF ra
<1>4. IsList(rb) /\ rb.mnMap = set.mnMap /\ rb.status = l.status
  BY <1>3, FailedProperties DEF SameMasternodes
<1> HIDE DEF rb
<1>5. IsList(r) /\ r.mnMap = set.mnMap /\ r.status = l.status
  BY <1>4, FailedProperties DEF SameMasternodes
<1> HIDE DEF r
<1> QED BY FailedFail, <1>1, <1>2, <1>5

\* After a failed assertion RemoveMN removes nothing.
LEMMA FailedRemove ==
  ASSUME NEW l, IsList(l), l.status # "ok", NEW p
  PROVE  LET r == RemoveMN(l, p) IN IsList(r) /\ r.status = l.status /\ r.mnMap = l.mnMap
<1> DEFINE rc == DeleteUniqueProperty(l, p, l.mnMap[p].collateral)
           ra == IF l.mnMap[p].addr = Null THEN rc ELSE DeleteUniqueProperty(rc, p, l.mnMap[p].addr)
           rb == DeleteUniqueProperty(ra, p, l.mnMap[p].keyIDOwner)
           r == DeleteUniqueProperty(rb, p, l.mnMap[p].keyIDOperator)
<1>1. RemoveMN(l, p) = Fail(l, "throw") \/ (RemoveMN(l, p) = IF r.status # "ok" THEN r ELSE
        [r EXCEPT !.mnMap = Restrict(@, DOMAIN @ \ {p})])
  BY Zenon DEF RemoveMN, DeleteProperties
<1>2. IsList(rc) /\ rc.mnMap = l.mnMap /\ rc.status = l.status
  BY FailedProperties DEF SameMasternodes
<1> HIDE DEF rc
<1>3. IsList(ra) /\ ra.mnMap = l.mnMap /\ ra.status = l.status
  BY <1>2, FailedProperties DEF SameMasternodes
<1> HIDE DEF ra
<1>4. IsList(rb) /\ rb.mnMap = l.mnMap /\ rb.status = l.status
  BY <1>3, FailedProperties DEF SameMasternodes
<1> HIDE DEF rb
<1>5. IsList(r) /\ r.mnMap = l.mnMap /\ r.status = l.status
  BY <1>4, FailedProperties DEF SameMasternodes
<1> HIDE DEF r
<1> QED BY FailedFail, <1>1, <1>5

-----------------------------------------------------------------------------
(* The orders in which masternodes are taken from a map or a diff. *)

INSTANCE FiniteSetTheorems

\* Induction up to n: a set with 0, and with every number whose predecessor it has.
LEMMA RangeInduction ==
  ASSUME NEW n \in Nat, NEW T, 0 \in T, \A i \in 1..n : i - 1 \in T => i \in T
  PROVE  \A i \in 0..n : i \in T
<1> DEFINE S == (0..n) \ T
<1>1. SUFFICES ASSUME S # {} PROVE FALSE BY Zenon
<1>2. S \subseteq Nat OBVIOUS
<1>3. PICK i \in S : \A j \in S : ~(<<j, i>> \in OpToRel(<, Nat))
  <2> HIDE DEF S
  <2> QED BY Zenon, <1>1, <1>2, NatLessThanWellFounded, WFMin
<1>4. \A j \in S : ~(j < i) BY Zenon, <1>2, <1>3 DEF OpToRel
<1>5. i \in 1..n /\ i - 1 \in 0..n /\ i - 1 < i OBVIOUS
<1>6. i - 1 \notin S BY Zenon, <1>4, <1>5
<1> QED BY Zenon, <1>3, <1>5, <1>6

\* s names every element of S once.
Lists(s, S) ==
  /\ s = [i \in 1 .. Len(s) |-> s[i]] /\ Len(s) \in Nat
  /\ \A i \in 1 .. Len(s) : s[i] \in S
  /\ \A x \in S : \E i \in 1 .. Len(s) : s[i] = x
  /\ \A i, j \in 1 .. Len(s) : s[i] = s[j] => i = j

\* V is U and, if S holds it, f.
Grown(U, V, f, S) == f \notin U /\ (f \in S => V = U \cup {f}) /\ (f \notin S => V = U)

\* The number of fields is the cardinality.
LEMMA SizeStep ==
  ASSUME NEW U, NEW V, NEW f, NEW S, IsFiniteSet(U), Grown(U, V, f, S)
  PROVE  IsFiniteSet(V) /\ Cardinality(V) = Cardinality(U) + One(f, S)
<1>1. CASE f \in S
  <2>1. IsFiniteSet(U \cup {f}) /\ Cardinality(U \cup {f}) = Cardinality(U) + 1
    BY Zenon, FS_AddElement DEF Grown
  <2> QED BY ZenonT(30), <1>1, <2>1 DEF One, Grown
<1>2. CASE f \notin S
  <2>1. Cardinality(U) \in Nat BY ZenonT(30), FS_CardinalityType
  <2> QED BY <1>2, <2>1 DEF One, Grown
<1> QED BY Zenon, <1>1, <1>2

LEMMA SizeCardinality ==
  ASSUME NEW S, S \subseteq PropertyFields PROVE Cardinality(S) = Size(S)
<1> DEFINE A == S \cap {"collateral"}
           B == S \cap {"collateral", "addr"}
           C == S \cap {"collateral", "addr", "keyIDOwner"}
<1>1. Grown({}, A, "collateral", S) BY Zenon DEF Grown
<1>2. Grown(A, B, "addr", S) BY Zenon DEF Grown
<1>3. Grown(B, C, "keyIDOwner", S) BY Zenon DEF Grown
<1>4. Grown(C, S, "keyIDOperator", S) BY ZenonT(30) DEF Grown, PropertyFields
<1>5. IsFiniteSet({}) /\ Cardinality({}) = 0 BY ZenonT(30), FS_EmptySet
<1> HIDE DEF A, B, C
<1>6. IsFiniteSet(A) /\ Cardinality(A) = Cardinality({}) + One("collateral", S)
  BY <1>1, <1>5, SizeStep
<1>7. IsFiniteSet(B) /\ Cardinality(B) = Cardinality(A) + One("addr", S)
  BY <1>2, <1>6, SizeStep
<1>8. IsFiniteSet(C) /\ Cardinality(C) = Cardinality(B) + One("keyIDOwner", S)
  BY <1>3, <1>7, SizeStep
<1>9. Cardinality(S) = Cardinality(C) + One("keyIDOperator", S)
  BY <1>4, <1>8, SizeStep
<1>10. \A f : One(f, S) \in Nat BY Zenon DEF One
<1> QED BY <1>5, <1>6, <1>7, <1>8, <1>9, <1>10 DEF Size

\* A function on an interval from one is a sequence.
LEMMA FunctionLen ==
  ASSUME NEW n \in Nat, NEW s, s = [i \in 1 .. n |-> s[i]] PROVE Len(s) = n
<1>1. s \in Seq({s[i] : i \in 1 .. n}) OBVIOUS
<1>2. DOMAIN s = 1 .. n BY Zenon
<1>3. Len(s) \in Nat /\ DOMAIN s = 1 .. Len(s) BY <1>1, SMT
<1> QED BY <1>2, <1>3

\* A finite set can be listed.
LEMMA SomeOrderLists ==
  ASSUME NEW S, IsFiniteSet(S) PROVE Lists(SomeOrder(S), S)
<1> DEFINE n == Cardinality(S)
           s == SomeOrder(S)
<1>1. n \in Nat /\ ExistsBijection(1 .. n, S) BY Zenon, FS_CardinalityType
<1>2. \E t \in [1 .. n -> S] : Range(t) = S
  <2>1. PICK t \in Bijection(1 .. n, S) : TRUE BY Zenon, <1>1 DEF ExistsBijection
  <2>2. t \in [1 .. n -> S] /\ \A x \in S : \E i \in 1 .. n : t[i] = x
    BY ZenonT(30), <2>1 DEF Bijection, Injection, Surjection
  <2>3. DOMAIN t = 1 .. n /\ \A i \in 1 .. n : t[i] \in S BY ZenonT(30), <2>2
  <2>4. Range(t) = S BY ZenonT(30), <2>2, <2>3 DEF Range
  <2> QED BY ZenonT(30), <2>2, <2>4
<1>3. s \in [1 .. n -> S] /\ Range(s) = S
  <2> HIDE DEF n
  <2> QED BY ZenonT(30), <1>2 DEF SomeOrder, n
<1> HIDE DEF n, s
<1>4. s = [i \in 1 .. n |-> s[i]] /\ DOMAIN s = 1 .. n BY ZenonT(30), <1>3
<1>5. Len(s) = n BY ZenonT(30), <1>1, <1>4, FunctionLen
<1>6. \A x \in S : \E i \in 1 .. n : s[i] = x BY ZenonT(30), <1>3, <1>4 DEF Range
<1>7. s \in Injection(1 .. n, S)
  <2>1. s \in Surjection(1 .. n, S) BY ZenonT(30), <1>3, <1>6 DEF Surjection
  <2>2. IsFiniteSet(1 .. n) /\ Cardinality(1 .. n) = n
    BY <1>1, FS_Interval
  <2> QED BY ZenonT(30), <2>1, <2>2, FS_SurjSameCardinalityImpliesInj DEF n
<1>8. \A i, j \in 1 .. n : s[i] = s[j] => i = j BY ZenonT(30), <1>7 DEF Injection, IsInjective
<1>9. Lists(s, S) BY <1>1, <1>3, <1>4, <1>5, <1>6, <1>8 DEF Lists
<1> QED BY Zenon, <1>9 DEF s

\* Numbers are listed in ascending order: a number's place is its rank.
LEMMA AscendingLists ==
  ASSUME NEW S \in SUBSET Nat, IsFiniteSet(S) PROVE Lists(Ascending(S), S)
<1> DEFINE n == Cardinality(S)
           below(x) == {m \in S : m < x}
           rank == [x \in S |-> Cardinality(below(x))]
           s == Ascending(S)
<1>1. n \in Nat /\ \A x \in S : x \in Nat BY Zenon, FS_CardinalityType
<1>2. ASSUME NEW x \in S
      PROVE  rank[x] \in Nat /\ rank[x] < n /\ \A y \in S : x < y => rank[x] < rank[y]
  <2>1. \A y \in S : IsFiniteSet(below(y)) /\ Cardinality(below(y)) \in Nat /\ Cardinality(below(y)) <= n
    <3>1. \A y \in S : below(y) \in SUBSET S BY Zenon
    <3> HIDE DEF below, n
    <3> QED BY ZenonT(30), <3>1, FS_Subset, FS_CardinalityType DEF n
  <2>2. below(x) # S BY <1>2
  <2>3. Cardinality(below(x)) # n
    <3>1. below(x) \in SUBSET S BY Zenon
    <3> HIDE DEF below
    <3> QED BY ZenonT(30), <2>2, <3>1, FS_Subset
  <2>4. ASSUME NEW y \in S, x < y PROVE Cardinality(below(x)) < Cardinality(below(y))
    <3>1. below(x) \in SUBSET below(y) /\ x \in below(y) /\ x \notin below(x)
      <4>1. x \in Nat /\ y \in Nat /\ ~(x < x) BY <1>1
      <4>2. \A m \in S : m < x => m < y BY <1>1, <2>4
      <4> QED BY Zenon, <2>4, <4>1, <4>2
    <3>2. Cardinality(below(x)) <= Cardinality(below(y)) /\ Cardinality(below(x)) # Cardinality(below(y))
      <4> HIDE DEF below
      <4> QED BY ZenonT(30), <2>1, <3>1, FS_Subset
    <3> HIDE DEF below
    <3> QED BY <2>1, <3>2
  <2>5. \A y \in S : rank[y] = Cardinality(below(y)) BY Zenon
  <2> HIDE DEF rank, below, n
  <2> QED BY <1>1, <2>1, <2>3, <2>4, <2>5
<1>3. rank \in Injection(S, 0 .. n - 1)
  <2>1. rank \in [S -> 0 .. n - 1]
    <3>1. \A x \in S : rank[x] \in 0 .. n - 1
      <4> HIDE DEF rank, n
      <4> QED BY <1>1, <1>2
    <3>2. rank = [x \in S |-> rank[x]] BY Zenon
    <3> HIDE DEF rank
    <3> QED BY ZenonT(30), <3>1, <3>2
  <2>2. \A x, y \in S : rank[x] = rank[y] => x = y
    <3> HIDE DEF rank, n
    <3> QED BY <1>1, <1>2
  <2>3. DOMAIN rank = S BY Zenon
  <2> HIDE DEF rank
  <2> QED BY ZenonT(30), <2>1, <2>2, <2>3 DEF Injection, IsInjective
<1>4. \A k \in 0 .. n - 1 : \E x \in S : rank[x] = k
  <2>1. IsFiniteSet(0 .. n - 1) /\ Cardinality(0 .. n - 1) = n
    <3> HIDE DEF n
    <3>1. 0 \in Int /\ n - 1 \in Int /\ (0 > n - 1 => n = 0) BY <1>1
    <3> QED BY <1>1, <3>1, FS_Interval
  <2> HIDE DEF rank
  <2>2. rank \in Surjection(S, 0 .. n - 1) BY ZenonT(30), <1>3, <2>1, FS_Injection DEF n
  <2> QED BY Zenon, <2>2 DEF Surjection
<1>5. \A i \in 1 .. n : s[i] \in S /\ rank[s[i]] = i - 1
  <2>1. TAKE i \in 1 .. n
  <2>2. s[i] = CHOOSE x \in S : Cardinality(below(x)) = i - 1 BY Zenon DEF Ascending
  <2>3. i - 1 \in 0 .. n - 1 BY <1>1
  <2>4. \E x \in S : Cardinality(below(x)) = i - 1 BY ZenonT(30), <1>4, <2>3
  <2>5. s[i] \in S /\ Cardinality(below(s[i])) = i - 1
    <3> HIDE DEF s, below
    <3> QED BY ZenonT(30), <2>2, <2>4
  <2> QED BY ZenonT(30), <2>5
<1>6. s = [i \in 1 .. n |-> s[i]]
  <2>1. s = [i \in 1 .. n |-> CHOOSE x \in S : Cardinality(below(x)) = i - 1] BY Zenon DEF Ascending
  <2> HIDE DEF s, n, below
  <2> QED BY <2>1
<1> HIDE DEF s, rank, n
<1>7. Len(s) = n BY ZenonT(30), <1>1, <1>6, FunctionLen
<1>8. \A x \in S : \E i \in 1 .. n : s[i] = x
  <2>1. TAKE x \in S
  <2>2. rank[x] + 1 \in 1 .. n BY <1>1, <1>2
  <2>3. s[rank[x] + 1] \in S /\ rank[s[rank[x] + 1]] = rank[x] BY <1>2, <1>5, <2>2
  <2>4. s[rank[x] + 1] = x BY Zenon, <1>3, <2>3 DEF Injection, IsInjective
  <2> QED BY ZenonT(30), <2>2, <2>4
<1>9. \A i, j \in 1 .. n : s[i] = s[j] => i = j BY <1>5
<1>10. Lists(s, S) BY ZenonT(30), <1>1, <1>5, <1>6, <1>7, <1>8, <1>9 DEF Lists
<1> QED BY ZenonT(30), <1>10 DEF s

\* Internal ids are different numbers.
IdsDiffer(mns) ==
  /\ \A p \in DOMAIN mns : mns[p].internalId \in Nat
  /\ \A p, q \in DOMAIN mns : mns[p].internalId = mns[q].internalId => p = q

\* A finite map has finitely many internal ids.
LEMMA IdsFinite ==
  ASSUME NEW mns, NEW P, IsFiniteSet(P)
  PROVE  IsFiniteSet({mns[p].internalId : p \in P})
<1> DEFINE T == {mns[p].internalId : p \in P}
           g == [p \in P |-> mns[p].internalId]
<1>1. g \in Surjection(P, T) BY Zenon DEF Surjection
<1> HIDE DEF g, T
<1>2. IsFiniteSet(T) BY ZenonT(30), <1>1, FS_Surjection
<1> QED BY ZenonT(30), <1>2 DEF T

\* Masternodes are listed in the order of their ids.
LEMMA InIdOrderLists ==
  ASSUME NEW mns, IsFiniteSet(DOMAIN mns), IdsDiffer(mns)
  PROVE  Lists(InIdOrder(mns), DOMAIN mns)
<1> DEFINE I == {mns[p].internalId : p \in DOMAIN mns}
           ids == Ascending(I)
           s == InIdOrder(mns)
<1>1. I \in SUBSET Nat BY Zenon DEF IdsDiffer
<1>2. IsFiniteSet(I) BY ZenonT(30), IdsFinite
<1>3. \A p \in DOMAIN mns : mns[p].internalId \in I BY Zenon
<1>4. \A i \in I : \E p \in DOMAIN mns : mns[p].internalId = i BY Zenon
<1>5. s = [i \in DOMAIN ids |-> CHOOSE p \in DOMAIN mns : mns[p].internalId = ids[i]]
  BY Zenon DEF InIdOrder
<1> HIDE DEF I, s
<1>6. Lists(ids, I) BY ZenonT(30), <1>1, <1>2, AscendingLists
<1> HIDE DEF ids
<1> DEFINE n == Len(ids)
<1>7. DOMAIN ids = 1 .. n /\ n \in Nat BY ZenonT(30), <1>6 DEF Lists
<1>8. s = [i \in 1 .. n |-> s[i]] BY <1>5, <1>7
<1>9. Len(s) = n BY ZenonT(30), <1>7, <1>8, FunctionLen
<1>10. \A i \in 1 .. n : s[i] \in DOMAIN mns /\ mns[s[i]].internalId = ids[i]
  BY ZenonT(30), <1>4, <1>5, <1>6, <1>7 DEF Lists
<1>11. \A p \in DOMAIN mns : \E i \in 1 .. n : s[i] = p
  <2>1. TAKE p \in DOMAIN mns
  <2>2. PICK i \in 1 .. n : ids[i] = mns[p].internalId BY ZenonT(30), <1>3, <1>6 DEF Lists
  <2> QED BY ZenonT(30), <1>10, <2>2 DEF IdsDiffer
<1>12. \A i, j \in 1 .. n : s[i] = s[j] => i = j BY <1>6, <1>10 DEF Lists
<1>13. Lists(s, DOMAIN mns) BY ZenonT(30), <1>7, <1>8, <1>9, <1>10, <1>11, <1>12 DEF Lists
<1> QED BY Zenon, <1>13 DEF s

-----------------------------------------------------------------------------
(* The loops over masternodes, transactions and inputs. *)

\* RemoveAll removes one masternode after the other.
LEMMA RemoveAllSteps ==
  ASSUME NEW l, NEW ids, Len(ids) \in Nat
  PROVE  \E g : /\ g[0] = l /\ RemoveAll(l, ids) = g[Len(ids)]
               /\ \A n \in 1 .. Len(ids) : g[n] = ApplyRemoved(g[n - 1], ids[n])
<1> DEFINE N == Len(ids)
           Upto(g, i) == g = [n \in 0 .. i |-> IF n = 0 THEN l ELSE ApplyRemoved(g[n - 1], ids[n])]
           T == {i \in 0 .. N : \E g : Upto(g, i)}
           f == CHOOSE g : Upto(g, N)
<1>1. 0 \in T
  <2>1. Upto([n \in 0 .. 0 |-> l], 0) OBVIOUS
  <2>2. 0 \in 0 .. N OBVIOUS
  <2> QED BY Zenon, <2>1, <2>2
<1>2. ASSUME NEW i \in 1 .. N, i - 1 \in T PROVE i \in T
  <2>1. PICK g : Upto(g, i - 1) BY Zenon, <1>2
  <2> DEFINE h == [n \in 0 .. i |-> IF n = i THEN ApplyRemoved(g[i - 1], ids[i]) ELSE g[n]]
  <2>2. ASSUME NEW n \in 1 .. i PROVE h[n] = ApplyRemoved(h[n - 1], ids[n])
    <3>1. n - 1 \in 0 .. i - 1 /\ h[n - 1] = g[n - 1] OBVIOUS
    <3>2. CASE n = i BY <3>1, <3>2
    <3>3. CASE n # i
      <4>1. n \in 0 .. i - 1 /\ n # 0 /\ n \in 0 .. i BY <3>3
      <4>2. g[n] = ApplyRemoved(g[n - 1], ids[n]) BY ZenonT(30), <2>1, <4>1
      <4> QED BY ZenonT(30), <3>1, <3>3, <4>1, <4>2
    <3> QED BY ZenonT(30), <3>2, <3>3
  <2>3. h[0] = l BY <2>1
  <2>4. h = [n \in 0 .. i |-> h[n]] BY Zenon
  <2>5. \A n \in 0 .. i : n # 0 => n \in 1 .. i OBVIOUS
  <2> HIDE DEF h
  <2>6. \A n \in 0 .. i : h[n] = IF n = 0 THEN l ELSE ApplyRemoved(h[n - 1], ids[n])
    BY Zenon, <2>2, <2>3, <2>5
  <2>7. Upto(h, i) BY Zenon, <2>4, <2>6
  <2> QED BY <1>2, <2>7
<1>3. N \in T
  <2>1. N \in Nat /\ N \in 0 .. N OBVIOUS
  <2> HIDE DEF T, N
  <2>2. \A i \in 0 .. N : i \in T BY Zenon, <1>1, <1>2, <2>1, RangeInduction
  <2> QED BY Zenon, <2>1, <2>2
<1>4. Upto(f, N) BY Zenon, <1>3
<1>5. RemoveAll(l, ids) = f[N] BY Zenon DEF RemoveAll
<1> HIDE DEF f
<1> QED BY <1>4, <1>5

\* AddAll adds one masternode after the other.
LEMMA AddAllSteps ==
  ASSUME NEW l, NEW order, NEW mns, NEW fBump, Len(order) \in Nat
  PROVE  \E g : /\ g[0] = l /\ AddAll(l, order, mns, fBump) = g[Len(order)]
               /\ \A n \in 1 .. Len(order) : g[n] = AddMN(g[n - 1], order[n], mns[order[n]], fBump)
<1> DEFINE N == Len(order)
           Upto(g, i) == g = [n \in 0 .. i |-> IF n = 0 THEN l ELSE AddMN(g[n - 1], order[n], mns[order[n]], fBump)]
           T == {i \in 0 .. N : \E g : Upto(g, i)}
           f == CHOOSE g : Upto(g, N)
<1>1. 0 \in T
  <2>1. Upto([n \in 0 .. 0 |-> l], 0) OBVIOUS
  <2>2. 0 \in 0 .. N OBVIOUS
  <2> QED BY Zenon, <2>1, <2>2
<1>2. ASSUME NEW i \in 1 .. N, i - 1 \in T PROVE i \in T
  <2>1. PICK g : Upto(g, i - 1) BY ZenonT(30), <1>2
  <2> DEFINE h == [n \in 0 .. i |-> IF n = i THEN AddMN(g[i - 1], order[i], mns[order[i]], fBump) ELSE g[n]]
  <2>2. ASSUME NEW n \in 1 .. i PROVE h[n] = AddMN(h[n - 1], order[n], mns[order[n]], fBump)
    <3>1. n - 1 \in 0 .. i - 1 /\ h[n - 1] = g[n - 1] OBVIOUS
    <3>2. CASE n = i BY <3>1, <3>2
    <3>3. CASE n # i
      <4>1. n \in 0 .. i - 1 /\ n # 0 /\ n \in 0 .. i BY <3>3
      <4>2. g[n] = AddMN(g[n - 1], order[n], mns[order[n]], fBump) BY ZenonT(30), <2>1, <4>1
      <4> QED BY <3>1, <3>3, <4>1, <4>2
    <3> QED BY ZenonT(30), <3>2, <3>3
  <2>3. h[0] = l BY <2>1
  <2>4. h = [n \in 0 .. i |-> h[n]] BY ZenonT(30)
  <2>5. \A n \in 0 .. i : n # 0 => n \in 1 .. i OBVIOUS
  <2> HIDE DEF h
  <2>6. \A n \in 0 .. i : h[n] = IF n = 0 THEN l ELSE AddMN(h[n - 1], order[n], mns[order[n]], fBump)
    BY Zenon, <2>2, <2>3, <2>5
  <2>7. Upto(h, i) BY ZenonT(30), <2>4, <2>6
  <2> QED BY <1>2, <2>7
<1>3. N \in T
  <2>1. N \in Nat /\ N \in 0 .. N OBVIOUS
  <2> HIDE DEF T, N
  <2>2. \A i \in 0 .. N : i \in T BY Zenon, <1>1, <1>2, <2>1, RangeInduction
  <2> QED BY Zenon, <2>1, <2>2
<1>4. Upto(f, N) BY Zenon, <1>3
<1>5. AddAll(l, order, mns, fBump) = f[N] BY Zenon DEF AddAll
<1> HIDE DEF f
<1> QED BY <1>4, <1>5

\* UpdateAll updates one masternode after the other.
LEMMA UpdateAllSteps ==
  ASSUME NEW l, NEW ids, NEW stateDiffs, Len(ids) \in Nat
  PROVE  \E g : /\ g[0] = l /\ UpdateAll(l, ids, stateDiffs) = g[Len(ids)]
               /\ \A n \in 1 .. Len(ids) : g[n] = ApplyUpdated(g[n - 1], ids[n], stateDiffs[ids[n]])
<1> DEFINE N == Len(ids)
           Upto(g, i) == g = [n \in 0 .. i |-> IF n = 0 THEN l ELSE ApplyUpdated(g[n - 1], ids[n], stateDiffs[ids[n]])]
           T == {i \in 0 .. N : \E g : Upto(g, i)}
           f == CHOOSE g : Upto(g, N)
<1>1. 0 \in T
  <2>1. Upto([n \in 0 .. 0 |-> l], 0) OBVIOUS
  <2>2. 0 \in 0 .. N OBVIOUS
  <2> QED BY Zenon, <2>1, <2>2
<1>2. ASSUME NEW i \in 1 .. N, i - 1 \in T PROVE i \in T
  <2>1. PICK g : Upto(g, i - 1) BY ZenonT(30), <1>2
  <2> DEFINE h == [n \in 0 .. i |-> IF n = i THEN ApplyUpdated(g[i - 1], ids[i], stateDiffs[ids[i]]) ELSE g[n]]
  <2>2. ASSUME NEW n \in 1 .. i PROVE h[n] = ApplyUpdated(h[n - 1], ids[n], stateDiffs[ids[n]])
    <3>1. n - 1 \in 0 .. i - 1 /\ h[n - 1] = g[n - 1] OBVIOUS
    <3>2. CASE n = i BY <3>1, <3>2
    <3>3. CASE n # i
      <4>1. n \in 0 .. i - 1 /\ n # 0 /\ n \in 0 .. i BY <3>3
      <4>2. g[n] = ApplyUpdated(g[n - 1], ids[n], stateDiffs[ids[n]]) BY Zenon, <2>1, <4>1
      <4> QED BY <3>1, <3>3, <4>1, <4>2
    <3> QED BY ZenonT(30), <3>2, <3>3
  <2>3. h[0] = l BY <2>1
  <2>4. h = [n \in 0 .. i |-> h[n]] BY ZenonT(30)
  <2>5. \A n \in 0 .. i : n # 0 => n \in 1 .. i OBVIOUS
  <2> HIDE DEF h
  <2>6. \A n \in 0 .. i : h[n] = IF n = 0 THEN l ELSE ApplyUpdated(h[n - 1], ids[n], stateDiffs[ids[n]])
    BY Zenon, <2>2, <2>3, <2>5
  <2>7. Upto(h, i) BY ZenonT(30), <2>4, <2>6
  <2> QED BY <1>2, <2>7
<1>3. N \in T
  <2>1. N \in Nat /\ N \in 0 .. N OBVIOUS
  <2> HIDE DEF T, N
  <2>2. \A i \in 0 .. N : i \in T BY Zenon, <1>1, <1>2, <2>1, RangeInduction
  <2> QED BY Zenon, <2>1, <2>2
<1>4. Upto(f, N) BY Zenon, <1>3
<1>5. UpdateAll(l, ids, stateDiffs) = f[N] BY Zenon DEF UpdateAll
<1> HIDE DEF f
<1> QED BY <1>4, <1>5

\* ProcessTxs takes one transaction after the other.
LEMMA ProcessTxsSteps ==
  ASSUME NEW l, NEW vtx, NEW nh, NEW coins, Len(vtx) \in Nat
  PROVE  \E g : /\ g[0] = l /\ ProcessTxs(l, vtx, nh, coins) = g[Len(vtx)]
               /\ \A n \in 1 .. Len(vtx) : g[n] = ProcessTx(g[n - 1], vtx[n], nh, coins)
<1> DEFINE N == Len(vtx)
           Upto(g, i) == g = [n \in 0 .. i |-> IF n = 0 THEN l ELSE ProcessTx(g[n - 1], vtx[n], nh, coins)]
           T == {i \in 0 .. N : \E g : Upto(g, i)}
           f == CHOOSE g : Upto(g, N)
<1>1. 0 \in T
  <2>1. Upto([n \in 0 .. 0 |-> l], 0) OBVIOUS
  <2>2. 0 \in 0 .. N OBVIOUS
  <2> QED BY Zenon, <2>1, <2>2
<1>2. ASSUME NEW i \in 1 .. N, i - 1 \in T PROVE i \in T
  <2>1. PICK g : Upto(g, i - 1) BY Zenon, <1>2
  <2> DEFINE h == [n \in 0 .. i |-> IF n = i THEN ProcessTx(g[i - 1], vtx[i], nh, coins) ELSE g[n]]
  <2>2. ASSUME NEW n \in 1 .. i PROVE h[n] = ProcessTx(h[n - 1], vtx[n], nh, coins)
    <3>1. n - 1 \in 0 .. i - 1 /\ h[n - 1] = g[n - 1] OBVIOUS
    <3>2. CASE n = i BY <3>1, <3>2
    <3>3. CASE n # i
      <4>1. n \in 0 .. i - 1 /\ n # 0 /\ n \in 0 .. i BY <3>3
      <4>2. g[n] = ProcessTx(g[n - 1], vtx[n], nh, coins) BY ZenonT(30), <2>1, <4>1
      <4> QED BY <3>1, <3>3, <4>1, <4>2
    <3> QED BY ZenonT(30), <3>2, <3>3
  <2>3. h[0] = l BY <2>1
  <2>4. h = [n \in 0 .. i |-> h[n]] BY ZenonT(30)
  <2>5. \A n \in 0 .. i : n # 0 => n \in 1 .. i OBVIOUS
  <2> HIDE DEF h
  <2>6. \A n \in 0 .. i : h[n] = IF n = 0 THEN l ELSE ProcessTx(h[n - 1], vtx[n], nh, coins)
    BY Zenon, <2>2, <2>3, <2>5
  <2>7. Upto(h, i) BY ZenonT(30), <2>4, <2>6
  <2> QED BY <1>2, <2>7
<1>3. N \in T
  <2>1. N \in Nat /\ N \in 0 .. N OBVIOUS
  <2> HIDE DEF T, N
  <2>2. \A i \in 0 .. N : i \in T BY Zenon, <1>1, <1>2, <2>1, RangeInduction
  <2> QED BY Zenon, <2>1, <2>2
<1>4. Upto(f, N) BY Zenon, <1>3
<1>5. ProcessTxs(l, vtx, nh, coins) = f[N] BY ZenonT(30) DEF ProcessTxs
<1> HIDE DEF f
<1> QED BY <1>4, <1>5

\* RemoveAllSpent takes one input after the other.
LEMMA RemoveAllSpentSteps ==
  ASSUME NEW l, NEW inputs, Len(inputs) \in Nat
  PROVE  \E g : /\ g[0] = l /\ RemoveAllSpent(l, inputs) = g[Len(inputs)]
               /\ \A n \in 1 .. Len(inputs) : g[n] = RemoveSpent(g[n - 1], inputs[n])
<1> DEFINE N == Len(inputs)
           Upto(g, i) == g = [n \in 0 .. i |-> IF n = 0 THEN l ELSE RemoveSpent(g[n - 1], inputs[n])]
           T == {i \in 0 .. N : \E g : Upto(g, i)}
           f == CHOOSE g : Upto(g, N)
<1>1. 0 \in T
  <2>1. Upto([n \in 0 .. 0 |-> l], 0) OBVIOUS
  <2>2. 0 \in 0 .. N OBVIOUS
  <2> QED BY Zenon, <2>1, <2>2
<1>2. ASSUME NEW i \in 1 .. N, i - 1 \in T PROVE i \in T
  <2>1. PICK g : Upto(g, i - 1) BY Zenon, <1>2
  <2> DEFINE h == [n \in 0 .. i |-> IF n = i THEN RemoveSpent(g[i - 1], inputs[i]) ELSE g[n]]
  <2>2. ASSUME NEW n \in 1 .. i PROVE h[n] = RemoveSpent(h[n - 1], inputs[n])
    <3>1. n - 1 \in 0 .. i - 1 /\ h[n - 1] = g[n - 1] OBVIOUS
    <3>2. CASE n = i BY <3>1, <3>2
    <3>3. CASE n # i
      <4>1. n \in 0 .. i - 1 /\ n # 0 /\ n \in 0 .. i BY <3>3
      <4>2. g[n] = RemoveSpent(g[n - 1], inputs[n]) BY Zenon, <2>1, <4>1
      <4> QED BY Zenon, <3>1, <3>3, <4>1, <4>2
    <3> QED BY Zenon, <3>2, <3>3
  <2>3. h[0] = l BY <2>1
  <2>4. h = [n \in 0 .. i |-> h[n]] BY Zenon
  <2>5. \A n \in 0 .. i : n # 0 => n \in 1 .. i OBVIOUS
  <2> HIDE DEF h
  <2>6. \A n \in 0 .. i : h[n] = IF n = 0 THEN l ELSE RemoveSpent(h[n - 1], inputs[n])
    BY Zenon, <2>2, <2>3, <2>5
  <2>7. Upto(h, i) BY Zenon, <2>4, <2>6
  <2> QED BY <1>2, <2>7
<1>3. N \in T
  <2>1. N \in Nat /\ N \in 0 .. N OBVIOUS
  <2> HIDE DEF T, N
  <2>2. \A i \in 0 .. N : i \in T BY Zenon, <1>1, <1>2, <2>1, RangeInduction
  <2> QED BY Zenon, <2>1, <2>2
<1>4. Upto(f, N) BY Zenon, <1>3
<1>5. RemoveAllSpent(l, inputs) = f[N] BY Zenon DEF RemoveAllSpent
<1> HIDE DEF f
<1> QED BY <1>4, <1>5

-----------------------------------------------------------------------------
(* Adding the masternodes of a diff or of a snapshot. *)

\* The masternodes of mns with the properties and ids of AddMN's checks.
Addable(l, mns) ==
  /\ DOMAIN mns \cap DOMAIN l.mnMap = {} /\ IdsDiffer(mns)
  /\ \A p \in DOMAIN mns :
       /\ mns[p].internalId \notin InternalIds(l)
       /\ mns[p].collateral # Null /\ mns[p].keyIDOwner # Null /\ mns[p].keyIDOperator # Null
       /\ \A v \in Properties(mns[p]) : v \notin DOMAIN l.mnUniquePropertyMap /\ Free(mns, v, p)

\* m with the masternodes of mns listed in P.
With(m, mns, P) == [q \in DOMAIN m \cup P |-> IF q \in P THEN mns[q] ELSE m[q]]

\* The total count goes up with the masternodes.
Bumps(fBump) == fBump = TRUE

\* The list r is l with the masternodes of mns.
Added(l, r, mns, fBump) ==
  /\ IsList(r) /\ r.status = "ok" /\ r.nHeight = l.nHeight
  /\ r.mnMap = With(l.mnMap, mns, DOMAIN mns)
  /\ Exact(r.mnUniquePropertyMap, r.mnMap)
  /\ ~Bumps(fBump) => r.nTotalRegisteredCount = l.nTotalRegisteredCount
  /\ r.nTotalRegisteredCount \in Nat /\ r.nTotalRegisteredCount >= l.nTotalRegisteredCount
  /\ Bumps(fBump) => \A p \in DOMAIN mns : mns[p].internalId < r.nTotalRegisteredCount

\* AddAll adds every masternode it is given.
LEMMA AddAllFacts ==
  ASSUME NEW l, IsList(l), l.status = "ok", l.mnMap = [p \in DOMAIN l.mnMap |-> l.mnMap[p]],
         Exact(l.mnUniquePropertyMap, l.mnMap), l.nTotalRegisteredCount \in Nat,
         NEW mns, NEW order, Lists(order, DOMAIN mns), Addable(l, mns), NEW fBump \in BOOLEAN
  PROVE  Added(l, AddAll(l, order, mns, fBump), mns, fBump)
<1> DEFINE N == Len(order)
<1>1. /\ N \in Nat /\ \A i \in 1 .. N : order[i] \in DOMAIN mns
      /\ \A p \in DOMAIN mns : \E i \in 1 .. N : order[i] = p
      /\ \A i, j \in 1 .. N : order[i] = order[j] => i = j
  BY ZenonT(30) DEF Lists
<1>2. PICK g : /\ g[0] = l /\ AddAll(l, order, mns, fBump) = g[N]
               /\ \A n \in 1 .. N : g[n] = AddMN(g[n - 1], order[n], mns[order[n]], fBump)
  BY <1>1, AddAllSteps
<1> HIDE DEF N
<1> DEFINE D(i) == {order[j] : j \in 1 .. i}
           J(i) == /\ IsList(g[i]) /\ g[i].status = "ok" /\ g[i].nHeight = l.nHeight
                   /\ g[i].mnMap = With(l.mnMap, mns, D(i))
                   /\ Exact(g[i].mnUniquePropertyMap, g[i].mnMap)
           C(i) == /\ ~fBump => g[i].nTotalRegisteredCount = l.nTotalRegisteredCount
                   /\ g[i].nTotalRegisteredCount \in Nat
                   /\ g[i].nTotalRegisteredCount >= l.nTotalRegisteredCount
                   /\ fBump => \A p \in D(i) : mns[p].internalId < g[i].nTotalRegisteredCount
           T == {i \in 0 .. N : J(i) /\ C(i)}
<1>3. 0 \in T
  <2>1. D(0) = {} OBVIOUS
  <2>2. With(l.mnMap, mns, {}) = l.mnMap BY ZenonT(30) DEF With
  <2>3. J(0) BY <1>2, <2>1, <2>2
  <2>4. C(0) BY <1>2, <2>1
  <2>5. 0 \in 0 .. N BY <1>1
  <2> QED BY Zenon, <2>3, <2>4, <2>5
<1>4. ASSUME NEW i \in 1 .. N, i - 1 \in T PROVE i \in T
  <2> DEFINE k == g[i - 1]
             p == order[i]
             mn == mns[p]
  <2>1. i \in Nat /\ i - 1 \in 0 .. N /\ i \in 0 .. N BY <1>1
  <2>2. J(i - 1) /\ C(i - 1) BY Zenon, <1>4
  <2>3. g[i] = AddMN(k, p, mn, fBump) /\ p \in DOMAIN mns BY ZenonT(30), <1>1, <1>2
  <2>4. D(i) = D(i - 1) \cup {p} /\ D(i - 1) \subseteq DOMAIN mns /\ p \notin D(i - 1)
    <3>1. 1 .. i = (1 .. (i - 1)) \cup {i} /\ i \notin 1 .. (i - 1) /\ 1 .. i \subseteq 1 .. N BY <1>1
    <3> QED BY <1>1, <3>1
  <2> HIDE DEF D
  <2>5. p \notin DOMAIN l.mnMap BY Zenon, <2>3 DEF Addable
  <2>6. DOMAIN k.mnMap = DOMAIN l.mnMap \cup D(i - 1)
        /\ \A q \in DOMAIN k.mnMap : k.mnMap[q] = IF q \in D(i - 1) THEN mns[q] ELSE l.mnMap[q]
    BY ZenonT(30), <2>2 DEF With
  <2>7. mn.internalId \notin InternalIds(k)
    <3>1. SUFFICES ASSUME NEW q \in DOMAIN k.mnMap, k.mnMap[q].internalId = mn.internalId PROVE FALSE
      BY ZenonT(30) DEF InternalIds
    <3>2. q \in D(i - 1) => FALSE BY <2>3, <2>4, <2>6, <3>1 DEF Addable, IdsDiffer
    <3>3. q \in DOMAIN l.mnMap /\ l.mnMap[q].internalId = mn.internalId BY <2>6, <3>1, <3>2
    <3> QED BY <2>3, <3>3 DEF Addable, InternalIds
  <2>8. \A f \in PropertyFields : mn[f] \notin DOMAIN k.mnUniquePropertyMap
    <3>1. SUFFICES ASSUME NEW f \in PropertyFields, mn[f] \in DOMAIN k.mnUniquePropertyMap PROVE FALSE
      BY ZenonT(30)
    <3>2. PICK q \in DOMAIN k.mnMap : mn[f] \in Properties(k.mnMap[q]) BY <2>2, <3>1, ExactUsed
    <3>3. mn[f] \in Properties(mn) BY <3>2 DEF Properties
    <3>4. mn[f] \notin DOMAIN l.mnUniquePropertyMap /\ Free(mns, mn[f], p)
      BY ZenonT(30), <2>3, <3>3 DEF Addable
    <3>5. q \in D(i - 1) => FALSE BY <2>4, <2>6, <3>2, <3>4 DEF Free
    <3>6. q \in DOMAIN l.mnMap /\ mn[f] \in Properties(l.mnMap[q]) BY <2>6, <3>2, <3>5
    <3> QED BY <3>4, <3>6, ExactUsed
  <2>9. mn.collateral # Null /\ mn.keyIDOwner # Null /\ mn.keyIDOperator # Null
    BY ZenonT(30), <2>3 DEF Addable
  <2>10. p \notin DOMAIN k.mnMap BY ZenonT(30), <2>4, <2>5, <2>6
  <2>11. IsList(k) /\ Exact(k.mnUniquePropertyMap, k.mnMap) BY ZenonT(30), <2>2
  <2>12. /\ IsList(g[i]) /\ g[i].mnMap = Set(k.mnMap, p, mn) /\ Exact(g[i].mnUniquePropertyMap, g[i].mnMap)
         /\ g[i].nHeight = k.nHeight /\ g[i].status = k.status
         /\ g[i].nTotalRegisteredCount = (IF fBump /\ mn.internalId >= k.nTotalRegisteredCount
                                            THEN mn.internalId + 1 ELSE k.nTotalRegisteredCount)
    <3> HIDE DEF k, p, mn
    <3> QED BY <2>3, <2>7, <2>8, <2>9, <2>10, <2>11, AddMNFacts
  <2>13. Set(k.mnMap, p, mn) = With(l.mnMap, mns, D(i))
    <3>1. DOMAIN Set(k.mnMap, p, mn) = DOMAIN With(l.mnMap, mns, D(i))
      BY ZenonT(30), <2>4, <2>6 DEF Set, With
    <3>2. \A q \in DOMAIN l.mnMap \cup D(i) : Set(k.mnMap, p, mn)[q] = With(l.mnMap, mns, D(i))[q]
      BY <2>4, <2>6 DEF Set, With
    <3> QED BY Zenon, <3>1, <3>2 DEF Set, With
  <2>14. J(i) BY ZenonT(30), <2>2, <2>12, <2>13
  <2>15. C(i)
    <3>1. mn.internalId \in Nat BY ZenonT(30), <2>3 DEF Addable, IdsDiffer
    <3>2. \A q \in D(i - 1) : mns[q].internalId \in Nat BY ZenonT(30), <2>4 DEF Addable, IdsDiffer
    <3>3. C(i - 1) BY ZenonT(30), <2>2
    <3>4. g[i].nTotalRegisteredCount \in Nat /\ g[i].nTotalRegisteredCount >= k.nTotalRegisteredCount
      BY <2>12, <3>1, <3>3
    <3>5. fBump => mn.internalId < g[i].nTotalRegisteredCount BY <2>12, <3>1, <3>3
    <3>6. ASSUME fBump, NEW q \in D(i) PROVE mns[q].internalId < g[i].nTotalRegisteredCount
      <4>1. CASE q = p BY ZenonT(30), <3>5, <3>6, <4>1
      <4>2. CASE q # p
        <5>1. q \in D(i - 1) BY <2>4, <3>6, <4>2
        <5> QED BY <3>2, <3>3, <3>4, <3>6, <5>1
      <4> QED BY ZenonT(30), <4>1, <4>2
    <3>7. ~fBump => g[i].nTotalRegisteredCount = k.nTotalRegisteredCount BY ZenonT(30), <2>12
    <3> QED BY <3>3, <3>4, <3>6, <3>7
  <2> QED BY Zenon, <2>1, <2>14, <2>15
<1>5. N \in T
  <2>1. N \in Nat /\ N \in 0 .. N BY <1>1
  <2> HIDE DEF T
  <2>2. \A i \in 0 .. N : i \in T BY Zenon, <1>3, <1>4, <2>1, RangeInduction
  <2> QED BY Zenon, <2>1, <2>2
<1>6. J(N) /\ C(N) BY Zenon, <1>5
<1>7. D(N) = DOMAIN mns BY <1>1
<1> HIDE DEF D
<1>8. Bumps(fBump) <=> fBump BY Zenon DEF Bumps
<1> QED BY ZenonT(30), <1>2, <1>6, <1>7, <1>8 DEF Added

\* A list that failed keeps its masternodes and its status.
LEMMA AddAllFailed ==
  ASSUME NEW l, IsList(l), l.status # "ok", NEW mns, NEW order, Len(order) \in Nat, NEW fBump
  PROVE  LET r == AddAll(l, order, mns, fBump)
         IN  /\ IsList(r) /\ r.status = l.status
             /\ \A q \in DOMAIN l.mnMap : q \in DOMAIN r.mnMap /\ r.mnMap[q] = l.mnMap[q]
<1> DEFINE N == Len(order)
<1>1. PICK g : /\ g[0] = l /\ AddAll(l, order, mns, fBump) = g[N]
               /\ \A n \in 1 .. N : g[n] = AddMN(g[n - 1], order[n], mns[order[n]], fBump)
  BY AddAllSteps
<1> DEFINE J(r) == /\ IsList(r) /\ r.status = l.status
                   /\ \A q \in DOMAIN l.mnMap : q \in DOMAIN r.mnMap /\ r.mnMap[q] = l.mnMap[q]
           T == {i \in 0 .. N : J(g[i])}
<1>2. 0 \in T /\ N \in 0 .. N BY <1>1
<1>3. ASSUME NEW i \in 1 .. N, i - 1 \in T PROVE i \in T
  <2>1. J(g[i - 1]) /\ i \in 0 .. N BY <1>3
  <2>2. J(g[i])
    <3> DEFINE k == g[i - 1]
    <3>1. g[i] = AddMN(k, order[i], mns[order[i]], fBump) BY ZenonT(30), <1>1
    <3>2. IsList(k) /\ k.status # "ok" BY ZenonT(30), <2>1
    <3>3. /\ IsList(g[i]) /\ g[i].status = k.status
          /\ \A q \in DOMAIN k.mnMap : q \in DOMAIN g[i].mnMap /\ g[i].mnMap[q] = k.mnMap[q]
      BY <3>1, <3>2, FailedAdd
    <3> QED BY ZenonT(30), <2>1, <3>3
  <2> QED BY Zenon, <2>1, <2>2
<1>4. N \in T
  <2> HIDE DEF T
  <2>1. \A i \in 0 .. N : i \in T BY Zenon, <1>2, <1>3, RangeInduction
  <2> QED BY Zenon, <1>2, <2>1
<1> QED BY Zenon, <1>1, <1>4

-----------------------------------------------------------------------------
(* Removing and updating the masternodes of a diff. *)

\* The owner of an id.
LEMMA ById ==
  ASSUME NEW l, NEW p \in DOMAIN l.mnMap, NEW id, l.mnMap[p].internalId = id,
         \A q \in DOMAIN l.mnMap : l.mnMap[q].internalId = id => q = p
  PROVE  id \in InternalIds(l) /\ GetMNByInternalId(l, id) = p
BY Zenon DEF InternalIds, GetMNByInternalId

\* The list l without the masternodes of P.
Without(l, r, P) ==
  /\ IsList(r) /\ r.status = "ok" /\ r.nHeight = l.nHeight
  /\ r.nTotalRegisteredCount = l.nTotalRegisteredCount
  /\ r.mnMap = Restrict(l.mnMap, DOMAIN l.mnMap \ P)
  /\ Exact(r.mnUniquePropertyMap, r.mnMap)

\* The removal of a revoked masternode of P failed.
Stuck(l, r, P) ==
  /\ IsList(r) /\ r.status = "assert"
  /\ \E p \in P : /\ p \in DOMAIN r.mnMap /\ r.mnMap[p] = l.mnMap[p]
                  /\ l.mnMap[p].keyIDOperator = Null

\* RemoveAll removes every masternode it is given, or stops at one whose operator key is null.
LEMMA RemoveAllFacts ==
  ASSUME NEW l, IsList(l), l.status = "ok", l.mnMap = [p \in DOMAIN l.mnMap |-> l.mnMap[p]],
         Exact(l.mnUniquePropertyMap, l.mnMap), IdsDiffer(l.mnMap),
         \A p \in DOMAIN l.mnMap : l.mnMap[p].collateral # Null /\ l.mnMap[p].keyIDOwner # Null,
         NEW P \in SUBSET DOMAIN l.mnMap, NEW ids, Lists(ids, {l.mnMap[p].internalId : p \in P})
  PROVE  LET r == RemoveAll(l, ids) IN Without(l, r, P) \/ Stuck(l, r, P)
<1> DEFINE N == Len(ids)
           id(p) == l.mnMap[p].internalId
<1>1. /\ N \in Nat /\ \A i \in 1 .. N : \E p \in P : ids[i] = id(p)
      /\ \A p \in P : \E i \in 1 .. N : ids[i] = id(p)
      /\ \A i, j \in 1 .. N : ids[i] = ids[j] => i = j
  BY ZenonT(30) DEF Lists
<1>2. PICK g : /\ g[0] = l /\ RemoveAll(l, ids) = g[N]
               /\ \A n \in 1 .. N : g[n] = ApplyRemoved(g[n - 1], ids[n])
  <2>1. Len(ids) \in Nat BY Zenon, <1>1
  <2> QED BY <2>1, RemoveAllSteps
<1>3. \A p, q \in DOMAIN l.mnMap : id(p) = id(q) => p = q BY Zenon DEF IdsDiffer
<1> HIDE DEF N, id
<1> DEFINE D(i) == {p \in P : \E j \in 1 .. i : ids[j] = id(p)}
           J(i) == Without(l, g[i], D(i)) \/ Stuck(l, g[i], P)
           T == {i \in 0 .. N : J(i)}
<1>4. 0 \in T
  <2>1. D(0) = {} OBVIOUS
  <2>2. Restrict(l.mnMap, DOMAIN l.mnMap \ {}) = l.mnMap BY Zenon DEF Restrict
  <2>3. J(0) BY ZenonT(30), <1>2, <2>1, <2>2 DEF Without
  <2>4. 0 \in 0 .. N BY <1>1
  <2> QED BY Zenon, <2>3, <2>4
<1>5. ASSUME NEW i \in 1 .. N, i - 1 \in T PROVE i \in T
  <2> DEFINE k == g[i - 1]
  <2>1. i \in Nat /\ i \in 0 .. N BY <1>1
  <2>2. Without(l, k, D(i - 1)) \/ Stuck(l, k, P) BY Zenon, <1>5
  <2>3. g[i] = ApplyRemoved(k, ids[i]) BY ZenonT(30), <1>2
  <2>4. CASE Without(l, k, D(i - 1))
    <3>1. PICK p \in P : ids[i] = id(p) BY ZenonT(30), <1>1
    <3>2. D(i) = D(i - 1) \cup {p} /\ p \notin D(i - 1)
      <4>1. 1 .. i = (1 .. (i - 1)) \cup {i} /\ i \notin 1 .. (i - 1) /\ 1 .. i \subseteq 1 .. N BY <1>1
      <4>2. \A j \in 1 .. (i - 1) : ids[j] # id(p) BY <1>1, <3>1, <4>1
      <4>3. \A q \in P : ids[i] = id(q) => q = p BY Zenon, <1>3, <3>1
      <4> QED BY ZenonT(30), <3>1, <4>1, <4>2, <4>3
    <3> HIDE DEF D
    <3>3. DOMAIN k.mnMap = DOMAIN l.mnMap \ D(i - 1) /\ \A q \in DOMAIN k.mnMap : k.mnMap[q] = l.mnMap[q]
      BY ZenonT(30), <2>4 DEF Without, Restrict
    <3>4. p \in DOMAIN k.mnMap /\ k.mnMap[p] = l.mnMap[p] BY ZenonT(30), <3>2, <3>3
    <3>5. g[i] = RemoveMN(k, p)
      <4>1. k.mnMap[p].internalId = ids[i] BY ZenonT(30), <3>1, <3>4 DEF id
      <4>2. \A q \in DOMAIN k.mnMap : k.mnMap[q].internalId = ids[i] => q = p
        BY ZenonT(30), <1>3, <3>1, <3>3 DEF id
      <4> HIDE DEF k
      <4>3. ids[i] \in InternalIds(k) /\ GetMNByInternalId(k, ids[i]) = p BY <3>4, <4>1, <4>2, ById
      <4> QED BY ZenonT(30), <2>3, <4>3 DEF ApplyRemoved
    <3>6. /\ IsList(g[i]) /\ g[i].nHeight = k.nHeight /\ g[i].nTotalRegisteredCount = k.nTotalRegisteredCount
          /\ k.mnMap[p].keyIDOperator = Null => g[i].status = "assert" /\ g[i].mnMap = k.mnMap
          /\ k.mnMap[p].keyIDOperator # Null =>
               /\ g[i].status = "ok" /\ g[i].mnMap = Restrict(k.mnMap, DOMAIN k.mnMap \ {p})
               /\ Exact(g[i].mnUniquePropertyMap, g[i].mnMap)
      <4>1. /\ IsList(k) /\ k.status = "ok" /\ Exact(k.mnUniquePropertyMap, k.mnMap)
            /\ k.mnMap[p].collateral # Null /\ k.mnMap[p].keyIDOwner # Null
        BY ZenonT(30), <2>4, <3>4 DEF Without
      <4> HIDE DEF k
      <4>2. Removed(k, g[i], p) BY ZenonT(30), <3>4, <3>5, <4>1, RemoveMNFacts
      <4> QED BY ZenonT(30), <4>2 DEF Removed
    <3>7. CASE l.mnMap[p].keyIDOperator = Null
      <4>1. Stuck(l, g[i], P) BY ZenonT(30), <3>4, <3>6, <3>7 DEF Stuck
      <4> QED BY ZenonT(30), <2>1, <4>1
    <3>8. CASE l.mnMap[p].keyIDOperator # Null
      <4>1. Restrict(k.mnMap, DOMAIN k.mnMap \ {p}) = Restrict(l.mnMap, DOMAIN l.mnMap \ D(i))
        BY ZenonT(30), <3>2, <3>3 DEF Restrict
      <4>2. Without(l, g[i], D(i)) BY ZenonT(30), <2>4, <3>4, <3>6, <3>8, <4>1 DEF Without
      <4> QED BY ZenonT(30), <2>1, <4>2
    <3> QED BY ZenonT(30), <3>7, <3>8
  <2>5. CASE Stuck(l, k, P)
    <3> HIDE DEF k, D
    <3>1. IsList(k) /\ k.status = "assert" BY ZenonT(30), <2>5 DEF Stuck
    <3>2. \A q : IsList(RemoveMN(k, q)) /\ RemoveMN(k, q).status = k.status /\ RemoveMN(k, q).mnMap = k.mnMap
      BY ZenonT(30), <3>1, FailedRemove
    <3>3. IsList(g[i]) /\ g[i].status = "assert" /\ g[i].mnMap = k.mnMap
      BY <2>3, <3>1, <3>2, FailFacts DEF ApplyRemoved, SameMasternodes
    <3>4. Stuck(l, g[i], P) BY ZenonT(30), <2>5, <3>3 DEF Stuck
    <3> QED BY ZenonT(30), <2>1, <3>4
  <2> QED BY Zenon, <2>2, <2>4, <2>5
<1>6. N \in T
  <2>1. N \in Nat /\ N \in 0 .. N BY <1>1
  <2> HIDE DEF T
  <2>2. \A i \in 0 .. N : i \in T BY Zenon, <1>4, <1>5, <2>1, RangeInduction
  <2> QED BY ZenonT(30), <2>1, <2>2
<1>7. D(N) = P BY ZenonT(30), <1>1
<1> HIDE DEF D
<1> QED BY ZenonT(30), <1>2, <1>6, <1>7

MNFields == {"internalId", "collateral", "addr", "keyIDOwner", "keyIDOperator", "nRegisteredHeight",
             "nLastPaidHeight", "nPoSeRevivedHeight", "nPoSeBanHeight", "confirmed"}

IsMN(mn) == mn = [f \in MNFields |-> mn[f]]

\* What a state diff restores.
LEMMA StateDiffRestores ==
  ASSUME NEW a, NEW b, IsMN(a), IsMN(b)
  PROVE  [f \in DOMAIN a |-> IF f \in DOMAIN StateDiff(a, b) THEN StateDiff(a, b)[f] ELSE a[f]] = b
<1>1. DOMAIN a = MNFields /\ b = [f \in MNFields |-> b[f]] BY Zenon DEF IsMN
<1> HIDE DEF MNFields
<1> QED BY ZenonT(30), <1>1 DEF StateDiff, Restrict

\* n gives new records to the masternodes of P, with ids and collaterals kept, and with
\* properties that no other masternode has before or after.
Updatable(m, n, P) ==
  /\ n = [p \in DOMAIN m |-> n[p]] /\ P \subseteq DOMAIN m
  /\ \A p \in DOMAIN m : /\ IsMN(m[p]) /\ IsMN(n[p]) /\ n[p].internalId = m[p].internalId
                         /\ n[p].collateral = m[p].collateral
  /\ \A p \in DOMAIN m \ P : n[p] = m[p]
  /\ \A p \in P : \A v \in Properties(n[p]) : Free(m, v, p) /\ Free(n, v, p)

\* UpdateAll gives every masternode of a diff its new record.
LEMMA UpdateAllFacts ==
  ASSUME NEW l, IsList(l), l.status = "ok", l.mnMap = [p \in DOMAIN l.mnMap |-> l.mnMap[p]],
         Exact(l.mnUniquePropertyMap, l.mnMap), IdsDiffer(l.mnMap),
         NEW n, NEW P, Updatable(l.mnMap, n, P),
         NEW ids, Lists(ids, {l.mnMap[p].internalId : p \in P}),
         NEW diffs, \A p \in P : diffs[l.mnMap[p].internalId] = StateDiff(l.mnMap[p], n[p])
  PROVE  LET r == UpdateAll(l, ids, diffs)
         IN  /\ IsList(r) /\ r.status = "ok" /\ r.nHeight = l.nHeight
             /\ r.nTotalRegisteredCount = l.nTotalRegisteredCount
             /\ r.mnMap = n /\ Exact(r.mnUniquePropertyMap, n)
<1> DEFINE N == Len(ids)
           m == l.mnMap
           id(p) == m[p].internalId
<1>1. /\ N \in Nat /\ \A i \in 1 .. N : \E p \in P : ids[i] = id(p)
      /\ \A p \in P : \E i \in 1 .. N : ids[i] = id(p)
      /\ \A i, j \in 1 .. N : ids[i] = ids[j] => i = j
  BY DEF Lists
<1>2. PICK g : /\ g[0] = l /\ UpdateAll(l, ids, diffs) = g[N]
               /\ \A i \in 1 .. N : g[i] = ApplyUpdated(g[i - 1], ids[i], diffs[ids[i]])
  BY <1>1, UpdateAllSteps
<1>3. /\ \A p, q \in DOMAIN m : id(p) = id(q) => p = q
      /\ \A p \in DOMAIN m : n[p].internalId = id(p)
      /\ P \subseteq DOMAIN m /\ n = [p \in DOMAIN m |-> n[p]]
  BY Zenon DEF IdsDiffer, Updatable
<1> HIDE DEF N, id
<1> DEFINE D(i) == {p \in P : \E j \in 1 .. i : ids[j] = id(p)}
           J(i) == /\ IsList(g[i]) /\ g[i].status = "ok" /\ g[i].nHeight = l.nHeight
                   /\ g[i].nTotalRegisteredCount = l.nTotalRegisteredCount
                   /\ g[i].mnMap = With(m, n, D(i)) /\ Exact(g[i].mnUniquePropertyMap, g[i].mnMap)
           T == {i \in 0 .. N : J(i)}
<1>4. 0 \in T
  <2>1. D(0) = {} OBVIOUS
  <2>2. With(m, n, {}) = m BY ZenonT(30) DEF With
  <2>3. J(0) BY ZenonT(30), <1>2, <2>1, <2>2
  <2>4. 0 \in 0 .. N BY <1>1
  <2> QED BY ZenonT(30), <2>3, <2>4
<1>5. ASSUME NEW i \in 1 .. N, i - 1 \in T PROVE i \in T
  <2> DEFINE k == g[i - 1]
  <2>1. i \in Nat /\ i \in 0 .. N BY <1>1
  <2>2. J(i - 1) BY Zenon, <1>5
  <2>3. PICK p \in P : ids[i] = id(p) BY ZenonT(30), <1>1
  <2>4. D(i) = D(i - 1) \cup {p} /\ p \notin D(i - 1) /\ D(i - 1) \subseteq P
    <3>1. 1 .. i = (1 .. (i - 1)) \cup {i} /\ i \notin 1 .. (i - 1) /\ 1 .. i \subseteq 1 .. N BY <1>1
    <3>2. \A j \in 1 .. (i - 1) : ids[j] # id(p) BY ZenonT(30), <1>1, <2>3, <3>1
    <3>3. \A q \in P : ids[i] = id(q) => q = p BY Zenon, <1>3, <2>3
    <3> QED BY <2>3, <3>1, <3>2, <3>3
  <2> HIDE DEF D
  <2>5. /\ DOMAIN k.mnMap = DOMAIN m /\ p \in DOMAIN m /\ k.mnMap[p] = m[p]
        /\ \A q \in DOMAIN m : k.mnMap[q] = IF q \in D(i - 1) THEN n[q] ELSE m[q]
    <3>1. k.mnMap = With(m, n, D(i - 1)) /\ DOMAIN m \cup D(i - 1) = DOMAIN m BY ZenonT(30), <1>3, <2>2, <2>4
    <3>2. p \in DOMAIN m BY Zenon, <1>3
    <3> HIDE DEF k, m
    <3> QED BY ZenonT(30), <2>4, <3>1, <3>2 DEF With
  <2>6. IsMN(m[p]) /\ IsMN(n[p]) /\ n[p].collateral = m[p].collateral BY ZenonT(30), <2>5 DEF Updatable
  <2>7. g[i] = UpdateMN(k, p, n[p])
    <3>1. k.mnMap[p].internalId = ids[i] BY ZenonT(30), <2>3, <2>5 DEF id
    <3>2. \A q \in DOMAIN k.mnMap : k.mnMap[q].internalId = ids[i] => q = p
      <4>1. ASSUME NEW q \in DOMAIN m PROVE k.mnMap[q].internalId = id(q)
        <5>1. k.mnMap[q] = n[q] \/ k.mnMap[q] = m[q]
          <6> HIDE DEF k, m
          <6> QED BY ZenonT(30), <2>5
        <5> QED BY Zenon, <1>3, <5>1 DEF id
      <4>2. ASSUME NEW q \in DOMAIN m, k.mnMap[q].internalId = ids[i] PROVE q = p
        <5>1. id(q) = id(p) BY Zenon, <2>3, <4>1, <4>2
        <5>2. p \in DOMAIN m BY Zenon, <2>5
        <5> QED BY Zenon, <1>3, <5>1, <5>2
      <4>3. DOMAIN k.mnMap = DOMAIN m BY Zenon, <2>5
      <4> QED BY Zenon, <4>2, <4>3
    <3>3. diffs[ids[i]] = StateDiff(m[p], n[p]) BY ZenonT(30), <2>3 DEF id
    <3> DEFINE d == diffs[ids[i]]
               mn == k.mnMap[p]
    <3>4. [f \in DOMAIN mn |-> IF f \in DOMAIN d THEN d[f] ELSE mn[f]] = n[p]
      BY <2>5, <2>6, <3>3, StateDiffRestores
    <3>5. g[i] = ApplyUpdated(k, ids[i], d) BY ZenonT(30), <1>2
    <3> HIDE DEF k, m
    <3>6. ids[i] \in InternalIds(k) /\ GetMNByInternalId(k, ids[i]) = p
      BY ZenonT(30), <2>5, <3>1, <3>2, ById
    <3> QED BY ZenonT(30), <3>4, <3>5, <3>6 DEF ApplyUpdated
  <2>8. \A f \in PropertyFields : Free(k.mnMap, n[p][f], p)
    <3>1. SUFFICES ASSUME NEW f \in PropertyFields, NEW q \in DOMAIN m, n[p][f] \in Properties(k.mnMap[q])
                   PROVE  q = p
      BY ZenonT(30), <2>5 DEF Free
    <3>2. n[p][f] \in Properties(n[p]) BY ZenonT(30), <3>1 DEF Properties
    <3>3. Free(m, n[p][f], p) /\ Free(n, n[p][f], p) BY <2>3, <3>2 DEF Updatable
    <3>4. DOMAIN n = DOMAIN m BY ZenonT(30), <1>3
    <3> QED BY <2>5, <3>1, <3>3, <3>4 DEF Free
  <2>9. \A v \in {n[p].addr, n[p].keyIDOwner, n[p].keyIDOperator} : Free(k.mnMap, v, p)
    BY ZenonT(30), <2>8 DEF PropertyFields
  <2>10. /\ IsList(g[i]) /\ g[i].mnMap = [k.mnMap EXCEPT ![p] = n[p]]
         /\ Exact(g[i].mnUniquePropertyMap, g[i].mnMap)
         /\ g[i].nHeight = k.nHeight /\ g[i].nTotalRegisteredCount = k.nTotalRegisteredCount
         /\ g[i].status = k.status
    <3>1. /\ IsList(k) /\ Exact(k.mnUniquePropertyMap, k.mnMap) /\ p \in DOMAIN k.mnMap
          /\ n[p].collateral = k.mnMap[p].collateral
      BY ZenonT(30), <2>2, <2>5, <2>6
    <3> DEFINE np == n[p]
    <3> HIDE DEF k, np
    <3>2. /\ np.collateral = k.mnMap[p].collateral
          /\ \A v \in {np.addr, np.keyIDOwner, np.keyIDOperator} : Free(k.mnMap, v, p)
      BY ZenonT(30), <2>9, <3>1 DEF np
    <3>3. g[i] = UpdateMN(k, p, np) BY ZenonT(30), <2>7 DEF np
    <3>4. /\ IsList(g[i]) /\ g[i].mnMap = [k.mnMap EXCEPT ![p] = np]
          /\ Exact(g[i].mnUniquePropertyMap, g[i].mnMap)
          /\ g[i].nHeight = k.nHeight /\ g[i].nTotalRegisteredCount = k.nTotalRegisteredCount
          /\ g[i].status = k.status
      BY <3>1, <3>2, <3>3, UpdateMNFacts
    <3> QED BY ZenonT(30), <3>4 DEF np
  <2>11. [k.mnMap EXCEPT ![p] = n[p]] = With(m, n, D(i))
    <3>1. DOMAIN m \cup D(i) = DOMAIN m BY ZenonT(30), <1>3, <2>4, <2>5
    <3>2. DOMAIN With(m, n, D(i)) = DOMAIN m BY ZenonT(30), <3>1 DEF With
    <3>3. \A q \in DOMAIN m : [k.mnMap EXCEPT ![p] = n[p]][q] = With(m, n, D(i))[q]
      BY ZenonT(30), <2>4, <2>5, <3>1 DEF With
    <3> HIDE DEF k, m
    <3> QED BY Zenon, <2>5, <3>1, <3>3 DEF With
  <2>12. J(i) BY ZenonT(30), <2>2, <2>10, <2>11
  <2> QED BY ZenonT(30), <2>1, <2>12
<1>6. N \in T
  <2>1. N \in Nat /\ N \in 0 .. N BY <1>1
  <2> HIDE DEF T
  <2>2. \A i \in 0 .. N : i \in T BY ZenonT(30), <1>4, <1>5, <2>1, RangeInduction
  <2> QED BY ZenonT(30), <2>1, <2>2
<1>7. D(N) = P BY ZenonT(30), <1>1
<1>8. J(N) BY Zenon, <1>6
<1> HIDE DEF D
<1>9. With(m, n, P) = n
  <2>1. \A p \in DOMAIN m \ P : n[p] = m[p] BY Zenon DEF Updatable
  <2> QED BY ZenonT(30), <1>3, <2>1 DEF With
<1> QED BY ZenonT(30), <1>2, <1>7, <1>8, <1>9

\* A list that failed keeps its status and the masternodes that are not updated.
LEMMA UpdateAllFailed ==
  ASSUME NEW l, IsList(l), l.status # "ok", NEW ids, Len(ids) \in Nat, NEW diffs,
         NEW p \in DOMAIN l.mnMap, \A i \in 1 .. Len(ids) : ids[i] # l.mnMap[p].internalId
  PROVE  LET r == UpdateAll(l, ids, diffs)
         IN  IsList(r) /\ r.status = l.status /\ p \in DOMAIN r.mnMap /\ r.mnMap[p] = l.mnMap[p]
<1> DEFINE N == Len(ids)
<1>1. PICK g : /\ g[0] = l /\ UpdateAll(l, ids, diffs) = g[N]
               /\ \A n \in 1 .. N : g[n] = ApplyUpdated(g[n - 1], ids[n], diffs[ids[n]])
  BY UpdateAllSteps
<1> DEFINE J(r) == IsList(r) /\ r.status = l.status /\ p \in DOMAIN r.mnMap /\ r.mnMap[p] = l.mnMap[p]
           T == {i \in 0 .. N : J(g[i])}
<1>2. 0 \in T /\ N \in 0 .. N BY <1>1
<1>3. ASSUME NEW i \in 1 .. N, i - 1 \in T PROVE i \in T
  <2> DEFINE k == g[i - 1]
             q == GetMNByInternalId(k, ids[i])
  <2>1. J(k) /\ i \in 0 .. N BY <1>3
  <2>2. g[i] = ApplyUpdated(k, ids[i], diffs[ids[i]]) BY ZenonT(30), <1>1
  <2>3. CASE ids[i] \notin InternalIds(k)
    <3>1. g[i] = Fail(k, "assert") BY ZenonT(30), <2>2, <2>3 DEF ApplyUpdated
    <3>2. J(g[i]) BY <2>1, <3>1, FailFacts DEF SameMasternodes
    <3> QED BY Zenon, <2>1, <3>2
  <2>4. CASE ids[i] \in InternalIds(k)
    <3>1. \E x \in DOMAIN k.mnMap : k.mnMap[x].internalId = ids[i] BY Zenon, <2>4 DEF InternalIds
    <3>2. k.mnMap[q].internalId = ids[i] BY ZenonT(30), <3>1 DEF GetMNByInternalId
    <3>3. q # p BY ZenonT(30), <2>1, <3>2
    <3>4. PICK mn : g[i] = UpdateMN(k, q, mn) BY ZenonT(30), <2>2, <2>4 DEF ApplyUpdated
    <3>5. IsList(k) /\ k.status # "ok" BY ZenonT(30), <2>1
    <3> HIDE DEF q, k
    <3> DEFINE u == UpdateMN(k, q, mn)
    <3>6. /\ IsList(u) /\ u.status = k.status
          /\ \A x \in DOMAIN k.mnMap : x # q => x \in DOMAIN u.mnMap /\ u.mnMap[x] = k.mnMap[x]
      BY <3>5, FailedUpdate
    <3>7. J(g[i]) BY ZenonT(30), <2>1, <3>3, <3>4, <3>6
    <3> QED BY Zenon, <2>1, <3>7
  <2> QED BY ZenonT(30), <2>3, <2>4
<1>4. N \in T
  <2> HIDE DEF T
  <2>1. \A i \in 0 .. N : i \in T BY ZenonT(30), <1>2, <1>3, RangeInduction
  <2> QED BY Zenon, <1>2, <2>1
<1> QED BY Zenon, <1>1, <1>4

-----------------------------------------------------------------------------
(* The diff between the lists of two blocks. *)

\* A masternode as a list holds it.
MNOK(mn) ==
  /\ IsMN(mn) /\ mn.collateral \in Collateral /\ mn.keyIDOwner # Null
  /\ {mn.addr, mn.keyIDOwner, mn.keyIDOperator} \cap Collateral = {}

\* A list that no call has failed on: masternodes with different ids below the count, whose
\* unique properties are counted exactly.
ListOK(l) ==
  /\ IsList(l) /\ l.status = "ok"
  /\ l.mnMap = [p \in DOMAIN l.mnMap |-> l.mnMap[p]] /\ IsFiniteSet(DOMAIN l.mnMap)
  /\ IdsDiffer(l.mnMap) /\ Exact(l.mnUniquePropertyMap, l.mnMap)
  /\ l.nTotalRegisteredCount \in Nat
  /\ \A p \in DOMAIN l.mnMap : MNOK(l.mnMap[p]) /\ l.mnMap[p].internalId < l.nTotalRegisteredCount

\* What a block may do to the masternodes of a list: it keeps ids and collaterals, gives new
\* ids to new masternodes, and takes over no property of a masternode that stays.
Follows(l, n) ==
  /\ \A p \in DOMAIN l.mnMap \cap DOMAIN n.mnMap :
       n.mnMap[p].internalId = l.mnMap[p].internalId /\ n.mnMap[p].collateral = l.mnMap[p].collateral
  /\ \A p \in DOMAIN n.mnMap \ DOMAIN l.mnMap :
       n.mnMap[p].internalId >= l.nTotalRegisteredCount /\ n.mnMap[p].keyIDOperator # Null
  /\ \A p \in DOMAIN n.mnMap, q \in DOMAIN l.mnMap \cap DOMAIN n.mnMap : \A v :
       v \in Properties(n.mnMap[p]) /\ v \in Properties(l.mnMap[q]) => q = p

\* A masternode's properties are exclusive in a list.
LEMMA ListOKFree ==
  ASSUME NEW l, ListOK(l), NEW p \in DOMAIN l.mnMap, NEW v \in Properties(l.mnMap[p])
  PROVE  Free(l.mnMap, v, p)
BY ExactUsed DEF ListOK, Free

\* A collateral is not null.
LEMMA MNOKNotNull ==
  ASSUME NEW mn, MNOK(mn) PROVE mn.collateral # Null /\ mn.keyIDOwner # Null
BY Zenon, ChainAssumption DEF MNOK

\* The diff between two lists gives the second when applied to the first, unless it removes a
\* masternode whose operator key was null.
LEMMA DiffReproduces ==
  ASSUME NEW l, ListOK(l), NEW new, ListOK(new), Follows(l, new), NEW h
  PROVE  LET r == ApplyDiff(l, h, BuildDiff(l, new))
         IN  \/ ListOK(r) /\ r.nHeight = h /\ r.mnMap = new.mnMap
             \/ r.status = "assert" /\ Revoked(r) # {}
<1>0. PICK bump \in BOOLEAN : bump = TRUE BY Zenon
<1> DEFINE m == l.mnMap
           n == new.mnMap
           stay == DOMAIN m \cap DOMAIN n
           gone == DOMAIN m \ stay
           changed == {p \in stay : m[p] # n[p]}
           added == Restrict(n, DOMAIN n \ stay)
           id(p) == n[p].internalId
           diffs == [i \in {id(p) : p \in changed} |->
                       LET p == CHOOSE q \in changed : id(q) = i IN StateDiff(m[p], n[p])]
           l0 == [l EXCEPT !.nHeight = h]
           removedIds == Ascending({m[p].internalId : p \in DOMAIN m \ stay})
           updatedIds == Ascending({id(p) : p \in changed})
           r1 == RemoveAll(l0, removedIds)
           order == InIdOrder(added)
           r2 == AddAll(r1, order, added, bump)
           r == UpdateAll(r2, updatedIds, diffs)
<1>1. ApplyDiff(l, h, BuildDiff(l, new)) = r
  <2>1. BuildDiff(l, new) = [addedMNs |-> InIdOrder(added), addedMN |-> added, updatedMNs |-> diffs,
                             removedMns |-> {m[p].internalId : p \in DOMAIN m \ stay}]
    BY Zenon DEF BuildDiff
  <2>2. DOMAIN diffs = {id(p) : p \in changed} BY Zenon
  <2> HIDE DEF diffs, added
  <2> QED BY <1>0, <2>1, <2>2 DEF ApplyDiff
<1>2. /\ IsList(l0) /\ l0.status = "ok" /\ l0.mnMap = m /\ l0.nHeight = h
      /\ l0.mnUniquePropertyMap = l.mnUniquePropertyMap
      /\ l0.nTotalRegisteredCount = l.nTotalRegisteredCount
  BY Zenon DEF ListOK, IsList, ListFields
<1>3. /\ m = [p \in DOMAIN m |-> m[p]] /\ IsFiniteSet(DOMAIN m) /\ IdsDiffer(m)
      /\ Exact(l.mnUniquePropertyMap, m) /\ l.nTotalRegisteredCount \in Nat
      /\ \A p \in DOMAIN m : MNOK(m[p]) /\ m[p].internalId < l.nTotalRegisteredCount
  BY Zenon DEF ListOK
<1>4. /\ n = [p \in DOMAIN n |-> n[p]] /\ IsFiniteSet(DOMAIN n) /\ IdsDiffer(n)
      /\ \A p \in DOMAIN n : MNOK(n[p])
  BY Zenon DEF ListOK
<1>5. /\ \A p \in stay : n[p].internalId = m[p].internalId /\ n[p].collateral = m[p].collateral
      /\ \A p \in DOMAIN n \ DOMAIN m : n[p].internalId >= l.nTotalRegisteredCount /\ n[p].keyIDOperator # Null
      /\ \A p \in DOMAIN n, q \in stay : \A v :
           v \in Properties(n[p]) /\ v \in Properties(m[q]) => q = p
  BY Zenon DEF Follows
<1>6. \A p \in DOMAIN n : \A v \in Properties(n[p]) : Free(n, v, p) BY Zenon, ListOKFree
<1>7. /\ gone \in SUBSET DOMAIN m /\ DOMAIN m \ gone = stay /\ DOMAIN added = DOMAIN n \ DOMAIN m
      /\ \A p \in DOMAIN added : added[p] = n[p]
  BY Zenon DEF Restrict
<1>8. Lists(removedIds, {m[p].internalId : p \in gone})
  <2>1. IsFiniteSet(gone) BY ZenonT(30), <1>3, <1>7, FS_Subset
  <2>2. IsFiniteSet({m[p].internalId : p \in gone}) BY ZenonT(30), <2>1, IdsFinite
  <2>3. {m[p].internalId : p \in gone} \in SUBSET Nat BY <1>3, <1>7 DEF IdsDiffer
  <2> QED BY Zenon, <2>2, <2>3, AscendingLists
<1>9. Lists(updatedIds, {id(p) : p \in changed})
  <2>1. IsFiniteSet(changed)
    <3>1. changed \in SUBSET DOMAIN m BY Zenon
    <3> HIDE DEF changed
    <3> QED BY ZenonT(30), <1>3, <3>1, FS_Subset
  <2>2. changed \subseteq DOMAIN n BY Zenon
  <2> HIDE DEF changed
  <2>3. IsFiniteSet({id(p) : p \in changed}) BY ZenonT(30), <2>1, IdsFinite
  <2>4. {id(p) : p \in changed} \in SUBSET Nat BY <1>4, <2>2 DEF IdsDiffer
  <2> QED BY Zenon, <2>3, <2>4, AscendingLists
<1>10. Lists(order, DOMAIN added) /\ IdsDiffer(added)
  <2> HIDE DEF added
  <2>1. DOMAIN added \in SUBSET DOMAIN n BY ZenonT(30), <1>7
  <2>2. IdsDiffer(added) BY ZenonT(30), <1>4, <1>7, <2>1 DEF IdsDiffer
  <2>3. IsFiniteSet(DOMAIN added) BY ZenonT(30), <1>4, <2>1, FS_Subset
  <2> QED BY ZenonT(30), <2>2, <2>3, InIdOrderLists
<1>11. Without(l0, r1, gone) \/ Stuck(l0, r1, gone)
  <2>1. \A p \in DOMAIN m : m[p].collateral # Null /\ m[p].keyIDOwner # Null
    BY ZenonT(30), <1>3, MNOKNotNull
  <2> HIDE DEF l0, m, removedIds, gone, stay
  <2> QED BY <1>2, <1>3, <1>7, <1>8, <2>1, RemoveAllFacts
<1> HIDE DEF r1, removedIds
<1>12. CASE Stuck(l0, r1, gone)
  <2>1. PICK p \in gone : /\ p \in DOMAIN r1.mnMap /\ r1.mnMap[p] = m[p] /\ m[p].keyIDOperator = Null
    BY ZenonT(30), <1>2, <1>12 DEF Stuck
  <2>2. IsList(r1) /\ r1.status = "assert" BY ZenonT(30), <1>12 DEF Stuck
  <2>3. IsList(r2) /\ r2.status = "assert" /\ p \in DOMAIN r2.mnMap /\ r2.mnMap[p] = m[p]
    <3>1. Len(order) \in Nat BY Zenon, <1>10 DEF Lists
    <3> HIDE DEF added, m, order
    <3> QED BY <2>1, <2>2, <3>1, AddAllFailed
  <2>4. Len(updatedIds) \in Nat /\ \A i \in 1 .. Len(updatedIds) : updatedIds[i] # m[p].internalId
    <3>1. \A q \in changed : id(q) # m[p].internalId BY ZenonT(30), <1>3, <1>5, <1>7, <2>1 DEF IdsDiffer
    <3> HIDE DEF updatedIds, changed
    <3> QED BY <1>9, <3>1 DEF Lists
  <2> HIDE DEF r2, updatedIds, diffs, m
  <2>5. r.status = "assert" /\ p \in DOMAIN r.mnMap /\ r.mnMap[p] = m[p]
    <3>1. r2.status # "ok" /\ \A i \in 1 .. Len(updatedIds) : updatedIds[i] # r2.mnMap[p].internalId
      BY ZenonT(30), <2>3, <2>4
    <3>2. r.status = r2.status /\ p \in DOMAIN r.mnMap /\ r.mnMap[p] = r2.mnMap[p]
      BY <2>3, <2>4, <3>1, UpdateAllFailed
    <3> QED BY ZenonT(30), <2>3, <3>2
  <2> HIDE DEF r
  <2> QED BY ZenonT(30), <1>1, <2>1, <2>5 DEF Revoked
<1>13. CASE Without(l0, r1, gone)
  <2> DEFINE w == r2.mnMap
  <2>1. /\ IsList(r1) /\ r1.status = "ok" /\ r1.nHeight = h
        /\ r1.nTotalRegisteredCount = l.nTotalRegisteredCount
        /\ r1.mnMap = Restrict(m, stay) /\ Exact(r1.mnUniquePropertyMap, r1.mnMap)
    BY ZenonT(30), <1>2, <1>7, <1>13 DEF Without
  <2>2. /\ DOMAIN r1.mnMap = stay /\ \A p \in stay : r1.mnMap[p] = m[p]
        /\ r1.mnMap = [p \in DOMAIN r1.mnMap |-> r1.mnMap[p]]
    BY ZenonT(30), <2>1 DEF Restrict
  <2>3. Addable(r1, added)
    <3>1. DOMAIN added \cap DOMAIN r1.mnMap = {}
      <4> HIDE DEF added
      <4> QED BY ZenonT(30), <1>7, <2>2
    <3>2. ASSUME NEW p \in DOMAIN added PROVE added[p].internalId \notin InternalIds(r1)
      <4>1. n[p].internalId \in Nat /\ n[p].internalId >= l.nTotalRegisteredCount
        BY ZenonT(30), <1>4, <1>5, <1>7 DEF IdsDiffer
      <4>2. \A q \in stay : m[q].internalId \in Nat /\ m[q].internalId < l.nTotalRegisteredCount
        BY ZenonT(30), <1>3 DEF IdsDiffer
      <4>3. \A q \in stay : m[q].internalId # n[p].internalId BY <1>3, <4>1, <4>2
      <4>4. added[p].internalId = n[p].internalId BY Zenon, <1>7
      <4> HIDE DEF added, stay, m, n
      <4> QED BY <2>2, <4>3, <4>4 DEF InternalIds
    <3>3. \A p \in DOMAIN added : /\ added[p].collateral # Null /\ added[p].keyIDOwner # Null
                                  /\ added[p].keyIDOperator # Null
      BY ZenonT(30), <1>4, <1>5, <1>7, MNOKNotNull
    <3>4. ASSUME NEW p \in DOMAIN added, NEW v \in Properties(added[p])
          PROVE  v \notin DOMAIN r1.mnUniquePropertyMap /\ Free(added, v, p)
      <4>1. v \in Properties(n[p]) /\ p \in DOMAIN n /\ p \notin DOMAIN m BY ZenonT(30), <1>7, <3>4
      <4>2. Free(added, v, p) BY ZenonT(30), <1>6, <1>7, <4>1 DEF Free
      <4>3. \A q \in DOMAIN r1.mnMap : v \notin Properties(r1.mnMap[q]) BY ZenonT(30), <1>5, <2>2, <4>1
      <4>4. Exact(r1.mnUniquePropertyMap, r1.mnMap) BY ZenonT(30), <2>1
      <4>5. v \notin DOMAIN r1.mnUniquePropertyMap BY <4>3, <4>4, ExactUsed
      <4> QED BY ZenonT(30), <4>2, <4>5
    <3> HIDE DEF added
    <3> QED BY ZenonT(30), <1>10, <3>1, <3>2, <3>3, <3>4 DEF Addable
  <2>4. /\ IsList(r2) /\ r2.status = "ok" /\ r2.nHeight = h
        /\ w = With(r1.mnMap, added, DOMAIN added) /\ Exact(r2.mnUniquePropertyMap, w)
        /\ r2.nTotalRegisteredCount \in Nat /\ r2.nTotalRegisteredCount >= l.nTotalRegisteredCount
        /\ \A p \in DOMAIN added : added[p].internalId < r2.nTotalRegisteredCount
    <3> HIDE DEF added, order, r1
    <3>1. r1.nTotalRegisteredCount \in Nat BY ZenonT(30), <1>3, <2>1
    <3>2. Bumps(bump) BY ZenonT(30), <1>0 DEF Bumps
    <3>3. Exact(r1.mnUniquePropertyMap, r1.mnMap) /\ IsList(r1) /\ r1.status = "ok" BY ZenonT(30), <2>1
    <3>4. r1.mnMap = [p \in DOMAIN r1.mnMap |-> r1.mnMap[p]] BY ZenonT(30), <2>2
    <3>5. Added(r1, r2, added, bump) BY ZenonT(30), <1>10, <2>3, <3>1, <3>3, <3>4, AddAllFacts
    <3> HIDE DEF r2
    <3> QED BY ZenonT(30), <2>1, <3>2, <3>5 DEF Added
  <2> HIDE DEF r2
  <2>5. /\ w = [p \in DOMAIN w |-> w[p]] /\ DOMAIN w = DOMAIN n
        /\ \A p \in DOMAIN n : w[p] = IF p \in stay THEN m[p] ELSE n[p]
    <3>1. /\ DOMAIN r1.mnMap = stay /\ \A p \in stay : r1.mnMap[p] = m[p]
          /\ DOMAIN n = stay \cup DOMAIN added /\ stay \cap DOMAIN added = {}
      BY ZenonT(30), <1>7, <2>2
    <3>2. w = [p \in stay \cup DOMAIN added |-> IF p \in DOMAIN added THEN added[p] ELSE r1.mnMap[p]]
      BY Zenon, <2>4, <3>1 DEF With
    <3>3. \A p \in DOMAIN added : added[p] = n[p] BY ZenonT(30), <1>7
    <3> HIDE DEF added, stay, w
    <3> QED BY ZenonT(30), <3>1, <3>2, <3>3
  <2> HIDE DEF w
  <2>6. IdsDiffer(w) BY <1>4, <1>5, <2>5 DEF IdsDiffer
  <2>7. Updatable(w, n, changed)
    <3>1. \A p \in DOMAIN w : /\ IsMN(w[p]) /\ IsMN(n[p]) /\ n[p].internalId = w[p].internalId
                              /\ n[p].collateral = w[p].collateral
      BY ZenonT(30), <1>3, <1>4, <1>5, <2>5 DEF MNOK
    <3>2. changed \subseteq DOMAIN w /\ \A p \in DOMAIN w \ changed : n[p] = w[p] BY ZenonT(30), <2>5
    <3>3. ASSUME NEW p \in DOMAIN n, NEW v \in Properties(n[p]) PROVE Free(w, v, p)
      <4>1. SUFFICES ASSUME NEW q \in DOMAIN n, v \in Properties(w[q]) PROVE q = p
        BY ZenonT(30), <2>5 DEF Free
      <4>2. CASE q \in stay BY ZenonT(30), <1>5, <2>5, <4>1, <4>2
      <4>3. CASE q \notin stay
        <5>1. Free(n, v, p) /\ v \in Properties(n[q]) BY ZenonT(30), <1>6, <2>5, <4>1, <4>3
        <5> QED BY ZenonT(30), <5>1 DEF Free
      <4> QED BY ZenonT(30), <4>2, <4>3
    <3>4. changed \subseteq DOMAIN n BY Zenon
    <3> HIDE DEF changed
    <3> QED BY ZenonT(30), <1>4, <1>6, <2>5, <3>1, <3>2, <3>3, <3>4 DEF Updatable
  <2>8. \A p \in changed : w[p].internalId = id(p) /\ diffs[w[p].internalId] = StateDiff(w[p], n[p])
    <3>1. SUFFICES ASSUME NEW p \in changed
                   PROVE  w[p].internalId = id(p) /\ diffs[w[p].internalId] = StateDiff(w[p], n[p])
      BY Zenon
    <3>2. w[p].internalId = id(p) /\ w[p] = m[p] BY ZenonT(30), <1>5, <2>5
    <3>3. \A q \in changed : id(q) = id(p) => q = p BY Zenon, <1>4 DEF IdsDiffer
    <3>4. diffs[id(p)] = LET c == CHOOSE q \in changed : id(q) = id(p) IN StateDiff(m[c], n[c]) BY Zenon
    <3>5. (CHOOSE q \in changed : id(q) = id(p)) = p
      <4> HIDE DEF changed
      <4> QED BY ZenonT(30), <3>3
    <3> HIDE DEF diffs
    <3> QED BY ZenonT(30), <3>2, <3>4, <3>5
  <2>9. {w[p].internalId : p \in changed} = {id(p) : p \in changed}
    <3> HIDE DEF changed
    <3>1. \A p \in changed : w[p].internalId = n[p].internalId BY Zenon, <2>8
    <3> QED BY Zenon, <3>1
  <2>10. /\ IsList(r) /\ r.status = "ok" /\ r.nHeight = h
         /\ r.nTotalRegisteredCount = r2.nTotalRegisteredCount
         /\ r.mnMap = n /\ Exact(r.mnUniquePropertyMap, n)
    <3> HIDE DEF changed, updatedIds, diffs, n
    <3>1. Lists(updatedIds, {w[p].internalId : p \in changed}) BY ZenonT(30), <1>9, <2>9
    <3>2. \A p \in changed : diffs[w[p].internalId] = StateDiff(w[p], n[p]) BY Zenon, <2>8
    <3>3. /\ IsList(r) /\ r.status = "ok" /\ r.nHeight = r2.nHeight
          /\ r.nTotalRegisteredCount = r2.nTotalRegisteredCount
          /\ r.mnMap = n /\ Exact(r.mnUniquePropertyMap, n)
      BY ZenonT(30), <2>4, <2>5, <2>6, <2>7, <3>1, <3>2, UpdateAllFacts DEF w
    <3> QED BY ZenonT(30), <2>4, <3>3
  <2> HIDE DEF r
  <2>11. \A p \in DOMAIN n : n[p].internalId < r.nTotalRegisteredCount
    <3>1. TAKE p \in DOMAIN n
    <3>2. CASE p \in stay
      <4>1. m[p].internalId \in Nat /\ m[p].internalId < l.nTotalRegisteredCount
        BY ZenonT(30), <1>3, <3>2 DEF IdsDiffer
      <4>2. n[p].internalId = m[p].internalId BY ZenonT(30), <1>5, <3>2
      <4>3. /\ r.nTotalRegisteredCount \in Nat /\ l.nTotalRegisteredCount \in Nat
            /\ r.nTotalRegisteredCount >= l.nTotalRegisteredCount
        BY ZenonT(30), <1>3, <2>4, <2>10
      <4> HIDE DEF m, n, stay
      <4> QED BY <4>1, <4>2, <4>3
    <3>3. CASE p \notin stay BY ZenonT(30), <1>7, <2>4, <2>10, <3>3
    <3> QED BY ZenonT(30), <3>2, <3>3
  <2>12. ListOK(r) BY ZenonT(30), <1>4, <2>4, <2>10, <2>11 DEF ListOK
  <2> QED BY ZenonT(30), <1>1, <2>10, <2>12
<1> QED BY ZenonT(30), <1>11, <1>12, <1>13

=============================================================================
