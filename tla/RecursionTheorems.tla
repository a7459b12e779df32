-------------------------- MODULE RecursionTheorems --------------------------
(***************************************************************************)
(* Induction and recursion along a parent function, in a first-order form: *)
(* the predicate of an induction is a set, the step of a recursion a       *)
(* function.  The block trees, the sequences of blocks that are applied    *)
(* one after the other and the sums over caches are all instances.         *)
(***************************************************************************)
EXTENDS Integers, Sequences, FiniteSets, Functions, WellFoundedInduction, TLAPS

\* P leads from every element of N down to r: no set of elements is closed under it
\* without holding r.
Tree(N, r, P) ==
  /\ r \in N /\ P \in [N \ {r} -> N]
  /\ \A S \in SUBSET N : S # {} => \E n \in S : n = r \/ P[n] \notin S

\* T holds the root, and an element whenever it holds its parent.
Inductive(T, N, r, P) == r \in T /\ \A n \in N \ {r} : P[n] \in T => n \in T

\* Induction: a set that is inductive holds every element.
LEMMA TreeInduction ==
  ASSUME NEW N, NEW r, NEW P, Tree(N, r, P), NEW T, Inductive(T, N, r, P)
  PROVE  \A n \in N : n \in T
<1>1. SUFFICES ASSUME N \ T # {} PROVE FALSE BY Zenon
<1>2. PICK n \in N \ T : n = r \/ P[n] \notin N \ T BY Zenon, <1>1 DEF Tree
<1>3. n \in N \ {r} /\ P[n] \in N BY Zenon, <1>2 DEF Inductive, Tree
<1> QED BY Zenon, <1>2, <1>3 DEF Inductive

\* f is defined by recursion: a at the root, and G[n] applied to the value at n's parent.
Solution(f, N, r, P, V, a, G) ==
  f \in [N -> V] /\ \A n \in N : f[n] = IF n = r THEN a ELSE G[n][f[P[n]]]

Steps(N, r, V) == [N \ {r} -> [V -> V]]

\* A recursion along the parent function has a solution.
LEMMA TreeRecursion ==
  ASSUME NEW N, NEW r, NEW P, Tree(N, r, P),
         NEW V, NEW a \in V, NEW G \in Steps(N, r, V)
  PROVE  \E f : Solution(f, N, r, P, V, a, G)
<1> DEFINE Pairs == N \X V
           Closed(Q) == /\ <<r, a>> \in Q
                        /\ \A n \in N \ {r}, v \in V :
                             <<P[n], v>> \in Q => <<n, G[n][v]>> \in Q
           R == {p \in Pairs : \A Q \in SUBSET Pairs : Closed(Q) => p \in Q}
           One(n) == \E v \in V : <<n, v>> \in R /\ \A w \in V : <<n, w>> \in R => w = v
<1>1. r \in N /\ \A n \in N \ {r}, v \in V : P[n] \in N /\ G[n][v] \in V BY DEF Tree, Steps
<1>2. Closed(R)
  <2>1. <<r, a>> \in R BY Zenon, <1>1
  <2>2. ASSUME NEW n \in N \ {r}, NEW v \in V, <<P[n], v>> \in R
        PROVE  <<n, G[n][v]>> \in R
    <3>1. <<n, G[n][v]>> \in Pairs BY Zenon, <1>1
    <3>2. ASSUME NEW Q \in SUBSET Pairs, Closed(Q) PROVE <<n, G[n][v]>> \in Q
      BY Zenon, <2>2, <3>2
    <3> QED BY Zenon, <3>1, <3>2
  <2> QED BY Zenon, <2>1, <2>2
<1>3. ASSUME NEW Q \in SUBSET Pairs, Closed(Q) PROVE R \subseteq Q
  BY Zenon, <1>3
<1>4. R \in SUBSET Pairs BY Zenon
<1>5. One(r)
  <2>1. ASSUME NEW w \in V, <<r, w>> \in R, w # a PROVE FALSE
    <3> DEFINE Q == R \ {<<r, w>>}
    <3>1. <<r, a>> \in Q BY Zenon, <1>2, <2>1
    <3>2. ASSUME NEW n \in N \ {r}, NEW v \in V, <<P[n], v>> \in Q
          PROVE  <<n, G[n][v]>> \in Q
      <4>1. <<n, G[n][v]>> \in R BY Zenon, <1>2, <3>2
      <4> QED BY Zenon, <4>1
    <3>3. Closed(Q) BY Zenon, <3>1, <3>2
    <3> HIDE DEF R
    <3>4. R \subseteq Q BY Zenon, <1>3, <1>4, <3>3
    <3> QED BY Zenon, <2>1, <3>4
  <2>2. <<r, a>> \in R BY Zenon, <1>2
  <2> QED BY Zenon, <2>1, <2>2
<1>6. ASSUME NEW n \in N \ {r}, One(P[n]) PROVE One(n)
  <2>1. PICK v \in V : <<P[n], v>> \in R /\ \A u \in V : <<P[n], u>> \in R => u = v BY Zenon, <1>6
  <2>2. <<n, G[n][v]>> \in R /\ G[n][v] \in V BY Zenon, <1>1, <1>2, <2>1
  <2>3. ASSUME NEW w \in V, <<n, w>> \in R, w # G[n][v] PROVE FALSE
    <3> DEFINE Q == R \ {<<n, w>>}
    <3>1. <<r, a>> \in Q BY Zenon, <1>2
    <3>2. ASSUME NEW m \in N \ {r}, NEW u \in V, <<P[m], u>> \in Q
          PROVE  <<m, G[m][u]>> \in Q
      <4>1. <<m, G[m][u]>> \in R BY Zenon, <1>2, <3>2
      <4>2. m = n => u = v BY Zenon, <2>1, <3>2
      <4> QED BY Zenon, <4>1, <4>2, <2>3
    <3>3. Closed(Q) BY Zenon, <3>1, <3>2
    <3> HIDE DEF R
    <3>4. R \subseteq Q BY Zenon, <1>3, <1>4, <3>3
    <3> QED BY Zenon, <2>3, <3>4
  <2> QED BY Zenon, <2>2, <2>3
<1>7. \A n \in N : One(n)
  <2> DEFINE T == {n \in N : One(n)}
  <2> HIDE DEF One
  <2>1. r \in T BY Zenon, <1>1, <1>5
  <2>2. \A n \in N \ {r} : P[n] \in T => n \in T BY Zenon, <1>6
  <2>3. Inductive(T, N, r, P) BY Zenon, <2>1, <2>2 DEF Inductive
  <2> HIDE DEF T
  <2>4. \A n \in N : n \in T BY Zenon, TreeInduction, <2>3
  <2> QED BY Zenon, <2>4 DEF T
<1> DEFINE f == [n \in N |-> CHOOSE v \in V : <<n, v>> \in R]
<1>8. \A n \in N : f[n] \in V /\ <<n, f[n]>> \in R
  <2> HIDE DEF R
  <2> QED BY Zenon, <1>7
<1>9. \A n \in N, v \in V : <<n, v>> \in R => f[n] = v
  <2> HIDE DEF R, f
  <2> QED BY Zenon, <1>7, <1>8
<1>10. f[r] = a
  <2> HIDE DEF R, f
  <2> QED BY Zenon, <1>1, <1>2, <1>9
<1>11. ASSUME NEW n \in N \ {r} PROVE f[n] = G[n][f[P[n]]]
  <2>1. P[n] \in N BY Zenon, <1>1
  <2> HIDE DEF R, f
  <2>2. f[P[n]] \in V /\ <<P[n], f[P[n]]>> \in R BY Zenon, <1>8, <2>1
  <2>3. <<n, G[n][f[P[n]]]>> \in R /\ G[n][f[P[n]]] \in V BY Zenon, <1>1, <1>2, <2>2
  <2> QED BY Zenon, <1>9, <2>3
<1>12. f \in [N -> V] BY Zenon, <1>8
<1> HIDE DEF f
<1>13. Solution(f, N, r, P, V, a, G) BY Zenon, <1>10, <1>11, <1>12 DEF Solution
<1> QED BY Zenon, <1>13
-----------------------------------------------------------------------------
(* Natural numbers. *)

\* A set of natural numbers that is not empty has a least element.
LEMMA LeastExists ==
  ASSUME NEW S, S \subseteq Nat, S # {}
  PROVE  \E i \in S : \A j \in S : i <= j
<1>1. PICK i \in S : \A j \in S : ~(<<j, i>> \in OpToRel(<, Nat))
  BY Zenon, NatLessThanWellFounded, WFMin
<1>2. \A j \in S : ~(j < i) BY Zenon, <1>1 DEF OpToRel
<1>3. \A j \in S : i <= j
  <2>1. TAKE j \in S
  <2>2. i \in Nat /\ j \in Nat BY Zenon
  <2> QED BY <1>2, <2>2
<1> QED BY Zenon, <1>3

\* ... and, when it is bounded, a greatest one.
LEMMA GreatestExists ==
  ASSUME NEW n \in Nat, NEW S, S \subseteq 0..n, S # {}
  PROVE  \E i \in S : \A j \in S : j <= i
<1> DEFINE T == {n - i : i \in S}
<1>1. T \subseteq Nat /\ T # {}
  <2>1. PICK s \in S : TRUE BY Zenon
  <2>2. n - s \in T BY Zenon
  <2>3. ASSUME NEW t \in T PROVE t \in Nat
    <3>1. PICK i \in S : t = n - i BY Zenon, <2>3
    <3> QED BY <3>1
  <2> QED BY Zenon, <2>2, <2>3
<1>2. PICK t \in T : \A u \in T : t <= u
  <2> HIDE DEF T
  <2> QED BY Zenon, <1>1, LeastExists
<1>3. PICK i \in S : t = n - i BY Zenon, <1>2
<1>4. \A j \in S : j <= i
  <2>1. TAKE j \in S
  <2>2. n - j \in T /\ j \in 0..n /\ i \in 0..n BY Zenon, <1>3
  <2>3. n - i <= n - j BY Zenon, <1>2, <1>3, <2>2
  <2> QED BY <2>2, <2>3
<1> QED BY Zenon, <1>4

\* Induction up to n.
LEMMA RangeInduction ==
  ASSUME NEW n \in Nat, NEW T, 0 \in T, \A i \in 1..n : i - 1 \in T => i \in T
  PROVE  \A i \in 0..n : i \in T
<1> DEFINE S == (0..n) \ T
<1>1. SUFFICES ASSUME S # {} PROVE FALSE BY Zenon
<1>2. PICK i \in S : \A j \in S : i <= j
  <2>1. S \subseteq Nat OBVIOUS
  <2> HIDE DEF S
  <2> QED BY Zenon, <1>1, <2>1, LeastExists
<1>3. i \in 1..n /\ i - 1 \in 0..n BY <1>2
<1>4. i - 1 \notin S BY <1>2, <1>3
<1> QED BY Zenon, <1>2, <1>3, <1>4

-----------------------------------------------------------------------------
(* Recursion over the positions of a sequence. *)

\* h is a at 0 and applies one step of G after the other.
RangeSolution(h, n, V, a, G) ==
  h \in [0..n -> V] /\ \A i \in 0..n : h[i] = IF i = 0 THEN a ELSE G[i][h[i - 1]]

RangeSteps(n, V) == [1..n -> [V -> V]]

\* A recursion over 0..n has a solution.
LEMMA RangeRecursion ==
  ASSUME NEW n \in Nat, NEW V, NEW a \in V, NEW G \in RangeSteps(n, V)
  PROVE  \E h : RangeSolution(h, n, V, a, G)
<1> DEFINE N == 0..n
           P == [i \in N \ {0} |-> i - 1]
<1>1. N \ {0} = 1..n /\ 0 \in N /\ P \in [N \ {0} -> N] OBVIOUS
<1>2. ASSUME NEW S \in SUBSET N, S # {}
      PROVE  \E i \in S : i = 0 \/ P[i] \notin S
  <2>1. S \subseteq Nat BY <1>2
  <2>2. PICK i \in S : \A j \in S : i <= j BY Zenon, <1>2, <2>1, LeastExists
  <2>3. i # 0 => P[i] = i - 1 /\ i - 1 \notin S BY <2>1, <2>2
  <2> QED BY Zenon, <2>2, <2>3
<1>3. G \in Steps(N, 0, V) BY Zenon, <1>1 DEF Steps, RangeSteps
<1>4. \A i \in N \ {0} : P[i] = i - 1 BY Zenon
<1> HIDE DEF N, P
<1>5. Tree(N, 0, P) BY Zenon, <1>1, <1>2 DEF Tree
<1>6. PICK h : Solution(h, N, 0, P, V, a, G) BY Zenon, <1>3, <1>5, TreeRecursion
<1>7. h \in [N -> V] /\ \A i \in N : h[i] = IF i = 0 THEN a ELSE G[i][h[P[i]]]
  BY Zenon, <1>6 DEF Solution
<1>8. RangeSolution(h, n, V, a, G) BY Zenon, <1>4, <1>7 DEF RangeSolution, N
<1> QED BY Zenon, <1>8

-----------------------------------------------------------------------------
(* Finite sets. *)

\* R orders the elements of S: it relates two of them one way or the other.
Orders(R, S) ==
  /\ \A x, y \in S : x # y => <<x, y>> \in R \/ <<y, x>> \in R
  /\ \A x, y, z \in S : <<x, y>> \in R /\ <<y, z>> \in R => <<x, z>> \in R

HasGreatest(R, P) == \E m \in P : \A x \in P \ {m} : <<x, m>> \in R

\* Every nonempty subset of an ordered finite set has a greatest element.
LEMMA FiniteGreatest ==
  ASSUME NEW S, IsFiniteSet(S), NEW R, Orders(R, S)
  PROVE  \A P \in SUBSET S : P # {} => HasGreatest(R, P)
<1>1. PICK f \in Seq(S) : \A s \in S : \E i \in 1..Len(f) : f[i] = s BY Zenon DEF IsFiniteSet
<1> DEFINE n == Len(f)
           First(i) == {f[j] : j \in 1..i}
           T == {i \in 0..n : \A P \in SUBSET S : P # {} /\ P \subseteq First(i) => HasGreatest(R, P)}
<1>2. n \in Nat /\ \A i \in 1..n : f[i] \in S BY <1>1
<1> HIDE DEF n
<1>3. 0 \in T BY <1>2
<1>4. ASSUME NEW i \in 1..n, i - 1 \in T PROVE i \in T
  <2>1. SUFFICES ASSUME NEW P \in SUBSET S, P # {}, P \subseteq First(i) PROVE HasGreatest(R, P)
    BY <1>2
  <2> DEFINE x == f[i]
             Q == P \ {x}
  <2>2. Q \subseteq First(i - 1)
    <3>1. \A j \in 1..i : j = i \/ j \in 1..(i - 1) BY <1>2
    <3> QED BY Zenon, <2>1, <3>1
  <2>3. CASE Q = {}
    <3>1. P = {x} BY Zenon, <2>1, <2>3
    <3> QED BY Zenon, <3>1 DEF HasGreatest
  <2>4. CASE Q # {}
    <3>1. HasGreatest(R, Q)
      <4>1. \A U \in SUBSET S : U # {} /\ U \subseteq First(i - 1) => HasGreatest(R, U) BY Zenon, <1>4
      <4> QED BY Zenon, <2>1, <2>2, <2>4, <4>1
    <3>2. PICK m \in Q : \A y \in Q \ {m} : <<y, m>> \in R BY Zenon, <3>1 DEF HasGreatest
    <3>3. x \in S /\ m \in S /\ m # x BY Zenon, <1>2, <3>2
    <3> HIDE DEF x
    <3>4. CASE x \notin P
      <4>1. P = Q BY Zenon, <3>4
      <4> QED BY Zenon, <3>1, <4>1
    <3>5. CASE x \in P /\ <<x, m>> \in R BY Zenon, <3>2, <3>5 DEF HasGreatest
    <3>6. CASE x \in P /\ <<m, x>> \in R
      <4>1. \A y \in Q : <<y, x>> \in R BY Zenon, <3>2, <3>3, <3>6 DEF Orders
      <4> QED BY Zenon, <3>6, <4>1 DEF HasGreatest
    <3> QED BY Zenon, <3>3, <3>4, <3>5, <3>6 DEF Orders
  <2> QED BY Zenon, <2>3, <2>4
<1>5. \A i \in 0..n : i \in T
  <2> HIDE DEF T
  <2> QED BY Zenon, <1>2, <1>3, <1>4, RangeInduction
<1>6. n \in T
  <2>1. n \in 0..n BY <1>2
  <2> HIDE DEF T
  <2> QED BY Zenon, <1>5, <2>1
<1>7. S \subseteq First(n) BY Zenon, <1>1 DEF n
<1>8. \A P \in SUBSET S : P \subseteq First(n) BY Zenon, <1>7
<1> QED BY Zenon, <1>6, <1>8
-----------------------------------------------------------------------------
(* Sums over finite sets: SumFunction of the community module Functions. *)

HasMinimal(C) == \E m \in C : \A t \in C : t \subseteq m => t = m

\* A nonempty collection of subsets of a finite set has a minimal one.
LEMMA MinimalSubset ==
  ASSUME NEW S, IsFiniteSet(S)
  PROVE  \A C \in SUBSET SUBSET S : C # {} => HasMinimal(C)
<1>1. PICK f \in Seq(S) : \A s \in S : \E i \in 1..Len(f) : f[i] = s BY Zenon DEF IsFiniteSet
<1> DEFINE n == Len(f)
           First(i) == {f[j] : j \in 1..i}
           T == {i \in 0..n : \A C \in SUBSET SUBSET S :
                                (\E s \in C : s \subseteq First(i)) => HasMinimal(C)}
<1>2. n \in Nat /\ \A i \in 1..n : f[i] \in S BY <1>1
<1> HIDE DEF n
<1>3. 0 \in T
  <2>1. First(0) = {} OBVIOUS
  <2>2. ASSUME NEW C \in SUBSET SUBSET S, NEW s \in C, s \subseteq First(0) PROVE HasMinimal(C)
    <3>1. s = {} BY Zenon, <2>1, <2>2
    <3> QED BY <3>1 DEF HasMinimal
  <2> HIDE DEF First
  <2> QED BY <1>2, <2>2
<1>4. ASSUME NEW i \in 1..n, i - 1 \in T PROVE i \in T
  <2>1. SUFFICES ASSUME NEW C \in SUBSET SUBSET S, NEW s \in C, s \subseteq First(i)
                 PROVE  HasMinimal(C)
    <3> HIDE DEF First
    <3> QED BY <1>2
  <2> DEFINE x == f[i]
             B == {t \in C : t \subseteq First(i)}
             D == {t \ {x} : t \in B}
  <2>2. \A t : t \subseteq First(i) /\ x \notin t => t \subseteq First(i - 1)
    <3>1. \A j \in 1..i : j = i \/ j \in 1..(i - 1) BY <1>2
    <3> QED BY Zenon, <3>1
  <2>3. \A U \in SUBSET SUBSET S : (\E t \in U : t \subseteq First(i - 1)) => HasMinimal(U) BY Zenon, <1>4
  <2> HIDE DEF First, x
  <2>4. CASE \E t \in B : x \notin t
    <3> QED BY Zenon, <2>2, <2>3, <2>4
  <2>5. CASE \A t \in B : x \in t
    <3>1. D \in SUBSET SUBSET S OBVIOUS
    <3>2. s \ {x} \in D /\ s \ {x} \subseteq First(i - 1) BY Zenon, <2>1, <2>2
    <3>3. HasMinimal(D)
      <4> HIDE DEF D
      <4> QED BY Zenon, <2>3, <3>1, <3>2
    <3>4. PICK d \in D : \A t \in D : t \subseteq d => t = d BY Zenon, <3>3 DEF HasMinimal
    <3>5. PICK m \in B : d = m \ {x} BY Zenon, <3>4
    <3>6. ASSUME NEW t \in C, t \subseteq m PROVE t = m
      <4>1. t \in B BY Zenon, <3>6
      <4>2. x \in t /\ x \in m BY Zenon, <2>5, <4>1
      <4>3. t \ {x} \in D /\ t \ {x} \subseteq d BY Zenon, <3>5, <3>6, <4>1
      <4>4. t \ {x} = m \ {x} BY Zenon, <3>4, <3>5, <4>3
      <4>5. t = (t \ {x}) \cup {x} /\ m = (m \ {x}) \cup {x} BY Zenon, <4>2
      <4> QED BY Zenon, <4>4, <4>5
    <3> QED BY Zenon, <3>6 DEF HasMinimal
  <2> QED BY Zenon, <2>4, <2>5
<1>5. \A i \in 0..n : i \in T
  <2> HIDE DEF T
  <2> QED BY Zenon, <1>2, <1>3, <1>4, RangeInduction
<1>6. n \in T
  <2>1. n \in 0..n BY <1>2
  <2> HIDE DEF T
  <2> QED BY Zenon, <1>5, <2>1
<1>7. S \subseteq First(n) BY Zenon, <1>1 DEF n
<1>8. \A C \in SUBSET SUBSET S : C # {} => \E s \in C : s \subseteq First(n) BY Zenon, <1>7
<1>9. \A C \in SUBSET SUBSET S : (\E s \in C : s \subseteq First(n)) => HasMinimal(C) BY Zenon, <1>6
<1> HIDE DEF First
<1> QED BY Zenon, <1>8, <1>9

\* The element the folds of the community modules take out of a set first.
Elem(s) == CHOOSE x \in s : TRUE
Rest(S) == [s \in (SUBSET S) \ {{}} |-> s \ {Elem(s)}]

\* A set that is not empty holds that element.
LEMMA ElemIn == \A s : s # {} => Elem(s) \in s
BY Zenon DEF Elem

\* Taking elements out one by one leads from every subset down to the empty set.
LEMMA SubsetTree ==
  ASSUME NEW S, IsFiniteSet(S) PROVE Tree(SUBSET S, {}, Rest(S))
<1>1. Rest(S) \in [(SUBSET S) \ {{}} -> SUBSET S] BY Zenon DEF Rest
<1>2. ASSUME NEW C \in SUBSET SUBSET S, C # {}
      PROVE  \E s \in C : s = {} \/ Rest(S)[s] \notin C
  <2>1. PICK m \in C : \A t \in C : t \subseteq m => t = m
    <3>1. HasMinimal(C) BY Zenon, <1>2, MinimalSubset
    <3> QED BY Zenon, <3>1 DEF HasMinimal
  <2>2. m # {} => Rest(S)[m] = m \ {Elem(m)} /\ Elem(m) \in m BY Zenon, ElemIn DEF Rest
  <2> QED BY Zenon, <2>1, <2>2
<1> QED BY Zenon, <1>1, <1>2 DEF Tree

\* g[s] is the sum of f over s, for every subset s of S.
SumsOver(g, S, f) ==
  /\ g \in [SUBSET S -> Int] /\ g[{}] = 0
  /\ \A s \in (SUBSET S) \ {{}} : g[s] = f[Elem(s)] + g[Rest(S)[s]]

\* SumFunction is the last of the partial sums.
LEMMA PartialSums ==
  ASSUME NEW S, IsFiniteSet(S), NEW f \in [S -> Int]
  PROVE  \E g : SumsOver(g, S, f) /\ SumFunction(f) = g[S]
<1> DEFINE G == [s \in (SUBSET S) \ {{}} |-> [v \in Int |-> f[Elem(s)] + v]]
           Eq(g) == g = [s \in SUBSET S |-> IF s = {} THEN 0 ELSE f[Elem(s)] + g[s \ {Elem(s)}]]
           iter == CHOOSE g : Eq(g)
<1>1. G \in Steps(SUBSET S, {}, Int)
  <2>1. \A s \in (SUBSET S) \ {{}}, v \in Int : f[Elem(s)] + v \in Int BY ElemIn
  <2> QED BY Zenon, <2>1 DEF Steps
<1>2. PICK h : Solution(h, SUBSET S, {}, Rest(S), Int, 0, G)
  <2>1. 0 \in Int OBVIOUS
  <2> HIDE DEF G
  <2> QED BY Zenon, <1>1, <2>1, SubsetTree, TreeRecursion
<1>3. h \in [SUBSET S -> Int] /\ h[{}] = 0 BY Zenon, <1>2 DEF Solution
<1>4. ASSUME NEW s \in (SUBSET S) \ {{}} PROVE h[s] = f[Elem(s)] + h[s \ {Elem(s)}]
  <2>1. Rest(S)[s] = s \ {Elem(s)} /\ Rest(S)[s] \in SUBSET S BY Zenon DEF Rest
  <2>2. h[s] = G[s][h[Rest(S)[s]]] BY Zenon, <1>2 DEF Solution
  <2> QED BY Zenon, <1>3, <2>1, <2>2
<1>5. Eq(h) BY Zenon, <1>3, <1>4
<1>6. Eq(iter)
  <2> HIDE DEF Eq
  <2> QED BY Zenon, <1>5
<1> HIDE DEF iter
<1>7. iter = h
  <2> DEFINE T == {s \in SUBSET S : iter[s] = h[s]}
  <2>1. {} \in T BY Zenon, <1>3, <1>6
  <2>2. ASSUME NEW s \in (SUBSET S) \ {{}}, Rest(S)[s] \in T PROVE s \in T
    <3>1. Rest(S)[s] = s \ {Elem(s)} BY Zenon DEF Rest
    <3>2. iter[s] = f[Elem(s)] + iter[s \ {Elem(s)}] BY Zenon, <1>6
    <3> QED BY Zenon, <1>4, <2>2, <3>1, <3>2
  <2>3. Inductive(T, SUBSET S, {}, Rest(S)) BY Zenon, <2>1, <2>2 DEF Inductive
  <2>4. \A s \in SUBSET S : s \in T
    <3> HIDE DEF T
    <3> QED BY Zenon, <2>3, SubsetTree, TreeInduction
  <2>5. \A s \in SUBSET S : iter[s] = h[s] BY Zenon, <2>4
  <2>6. iter = [s \in SUBSET S |-> iter[s]] BY Zenon, <1>6
  <2> QED BY Zenon, <1>3, <2>5, <2>6
<1>8. SumFunction(f) = iter[S]
  <2>1. DOMAIN f = S BY Zenon
  <2> QED BY Zenon, <2>1 DEF iter, Elem, SumFunction, SumFunctionOnSet, FoldFunctionOnSet, MapThenFoldSet
<1>9. SumsOver(h, S, f)
  <2>1. \A s \in (SUBSET S) \ {{}} : Rest(S)[s] = s \ {Elem(s)} BY Zenon DEF Rest
  <2> QED BY ZenonT(30), <1>3, <1>4, <2>1 DEF SumsOver
<1> QED BY Zenon, <1>7, <1>8, <1>9

\* A sum of integers is an integer.
LEMMA SumInt ==
  ASSUME NEW S, IsFiniteSet(S), NEW f \in [S -> Int] PROVE SumFunction(f) \in Int
<1>1. PICK F : SumsOver(F, S, f) /\ SumFunction(f) = F[S] BY Zenon, PartialSums
<1> QED BY <1>1 DEF SumsOver

\* The sum of a pointwise sum is the sum of the sums.
LEMMA SumAdd ==
  ASSUME NEW S, IsFiniteSet(S), NEW f \in [S -> Int], NEW g \in [S -> Int], NEW h \in [S -> Int],
         \A x \in S : h[x] = f[x] + g[x]
  PROVE  /\ SumFunction(f) \in Int /\ SumFunction(g) \in Int
         /\ SumFunction(h) = SumFunction(f) + SumFunction(g)
<1>1. PICK F : SumsOver(F, S, f) /\ SumFunction(f) = F[S] BY Zenon, PartialSums
<1>2. PICK G : SumsOver(G, S, g) /\ SumFunction(g) = G[S] BY Zenon, PartialSums
<1>3. PICK H : SumsOver(H, S, h) /\ SumFunction(h) = H[S] BY Zenon, PartialSums
<1> DEFINE T == {s \in SUBSET S : H[s] = F[s] + G[s]}
<1>4. {} \in T BY <1>1, <1>2, <1>3 DEF SumsOver
<1>5. ASSUME NEW s \in (SUBSET S) \ {{}}, Rest(S)[s] \in T PROVE s \in T
  <2> DEFINE x == Elem(s)
             r == Rest(S)[s]
  <2>1. x \in S BY Zenon, ElemIn
  <2>2. r \in SUBSET S /\ H[r] = F[r] + G[r] BY Zenon, <1>5
  <2>3. H[s] = h[x] + H[r] /\ F[s] = f[x] + F[r] /\ G[s] = g[x] + G[r]
    BY Zenon, <1>1, <1>2, <1>3 DEF SumsOver
  <2>4. F[r] \in Int /\ G[r] \in Int BY Zenon, <1>1, <1>2, <2>2 DEF SumsOver
  <2>5. f[x] \in Int /\ g[x] \in Int /\ h[x] = f[x] + g[x] BY Zenon, <2>1
  <2> HIDE DEF x, r
  <2> QED BY <2>2, <2>3, <2>4, <2>5
<1>6. Inductive(T, SUBSET S, {}, Rest(S)) BY Zenon, <1>4, <1>5 DEF Inductive
<1>7. S \in T
  <2>1. S \in SUBSET S BY Zenon
  <2> HIDE DEF T
  <2> QED BY Zenon, <1>6, <2>1, SubsetTree, TreeInduction
<1> QED BY <1>1, <1>2, <1>3, <1>7 DEF SumsOver

\* Zero everywhere sums up to zero.
LEMMA SumZero ==
  ASSUME NEW S, IsFiniteSet(S) PROVE SumFunction([x \in S |-> 0]) = 0
<1> DEFINE z == [x \in S |-> 0]
<1>1. z \in [S -> Int] OBVIOUS
<1>2. \A x \in S : z[x] = z[x] + z[x] OBVIOUS
<1> HIDE DEF z
<1>3. SumFunction(z) \in Int /\ SumFunction(z) = SumFunction(z) + SumFunction(z)
  BY <1>1, <1>2, SumAdd
<1> DEFINE sum == SumFunction(z)
<1>4. sum \in Int /\ sum = sum + sum BY Zenon, <1>3
<1>5. sum = 0
  <2> HIDE DEF sum
  <2> QED BY <1>4
<1> QED BY Zenon, <1>5 DEF z

\* A function that is zero except at one point sums up to its value there.
LEMMA SumPoint ==
  ASSUME NEW S, IsFiniteSet(S), NEW f \in [S -> Int], NEW o \in S, \A x \in S \ {o} : f[x] = 0
  PROVE  SumFunction(f) = f[o]
<1>1. PICK F : SumsOver(F, S, f) /\ SumFunction(f) = F[S] BY Zenon, PartialSums
<1> DEFINE T == {s \in SUBSET S : F[s] = IF o \in s THEN f[o] ELSE 0}
<1>2. {} \in T BY Zenon, <1>1 DEF SumsOver
<1>3. ASSUME NEW s \in (SUBSET S) \ {{}}, Rest(S)[s] \in T PROVE s \in T
  <2>1. Elem(s) \in s /\ Elem(s) \in S BY Zenon, ElemIn
  <2>2. Rest(S)[s] = s \ {Elem(s)} BY Zenon DEF Rest
  <2>3. F[s] = f[Elem(s)] + F[s \ {Elem(s)}] BY Zenon, <1>1, <2>2 DEF SumsOver
  <2>4. F[s \ {Elem(s)}] = IF o \in s \ {Elem(s)} THEN f[o] ELSE 0 BY Zenon, <1>3, <2>2
  <2>5. f[o] \in Int BY Zenon
  <2>6. CASE Elem(s) = o BY <2>1, <2>3, <2>4, <2>5, <2>6
  <2>7. CASE Elem(s) # o
    <3>1. f[Elem(s)] = 0 BY Zenon, <2>1, <2>7
    <3>2. o \in s \ {Elem(s)} <=> o \in s BY Zenon, <2>7
    <3> QED BY <2>3, <2>4, <2>5, <3>1, <3>2
  <2> QED BY Zenon, <2>6, <2>7
<1>4. Inductive(T, SUBSET S, {}, Rest(S)) BY Zenon, <1>2, <1>3 DEF Inductive
<1>5. S \in T
  <2>1. S \in SUBSET S BY Zenon
  <2> HIDE DEF T
  <2> QED BY Zenon, <1>4, <2>1, SubsetTree, TreeInduction
<1> QED BY Zenon, <1>1, <1>5

\* Changing a function at one point changes the sum by as much.
LEMMA SumChange ==
  ASSUME NEW S, IsFiniteSet(S), NEW f \in [S -> Int], NEW h \in [S -> Int], NEW o \in S,
         \A x \in S \ {o} : h[x] = f[x]
  PROVE  SumFunction(f) \in Int /\ SumFunction(h) = SumFunction(f) - f[o] + h[o]
<1> DEFINE g == [x \in S |-> IF x = o THEN h[o] - f[o] ELSE 0]
<1>1. g \in [S -> Int] OBVIOUS
<1>2. g[o] = h[o] - f[o] /\ \A x \in S \ {o} : g[x] = 0 BY Zenon
<1> HIDE DEF g
<1>3. \A x \in S : h[x] = f[x] + g[x]
  <2> TAKE x \in S
  <2>1. f[x] \in Int /\ h[x] \in Int BY Zenon
  <2>2. CASE x = o BY <1>2, <2>1, <2>2
  <2>3. CASE x # o BY <1>2, <2>1, <2>3
  <2> QED BY Zenon, <2>2, <2>3
<1>4. SumFunction(f) \in Int /\ SumFunction(h) = SumFunction(f) + SumFunction(g)
  BY <1>1, <1>3, SumAdd
<1>5. SumFunction(g) = h[o] - f[o] BY <1>1, <1>2, SumPoint
<1>6. f[o] \in Int /\ h[o] \in Int BY Zenon
<1> QED BY <1>4, <1>5, <1>6

\* A sum of natural numbers is not negative.
LEMMA SumNat ==
  ASSUME NEW S, IsFiniteSet(S), NEW f \in [S -> Nat] PROVE SumFunction(f) \in Nat
<1>1. f \in [S -> Int] OBVIOUS
<1>2. PICK F : SumsOver(F, S, f) /\ SumFunction(f) = F[S] BY Zenon, <1>1, PartialSums
<1> DEFINE T == {s \in SUBSET S : F[s] \in Nat}
<1>3. {} \in T BY <1>2 DEF SumsOver
<1>4. ASSUME NEW s \in (SUBSET S) \ {{}}, Rest(S)[s] \in T PROVE s \in T
  <2>1. f[Elem(s)] \in Nat BY Zenon, ElemIn
  <2>2. F[s] = f[Elem(s)] + F[Rest(S)[s]] BY Zenon, <1>2 DEF SumsOver
  <2> QED BY <1>4, <2>1, <2>2
<1>5. Inductive(T, SUBSET S, {}, Rest(S)) BY Zenon, <1>3, <1>4 DEF Inductive
<1>6. S \in T
  <2>1. S \in SUBSET S BY Zenon
  <2> HIDE DEF T
  <2> QED BY Zenon, <1>5, <2>1, SubsetTree, TreeInduction
<1> QED BY Zenon, <1>2, <1>6

=============================================================================
