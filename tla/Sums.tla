--------------------------------- MODULE Sums ---------------------------------
(***************************************************************************)
(* Lemmas that the proofs of several components need: the least element of *)
(* a set of natural numbers, and sums over finite sets.                    *)
(***************************************************************************)
EXTENDS Integers, FiniteSetTheorems, WellFoundedInduction, TLAPS

(* A non-empty set of naturals has a least element.                        *)
LEMMA LeastNatural ==
    ASSUME NEW S \in SUBSET Nat, S # {}
    PROVE  \E x \in S : \A y \in S : x <= y
<1>1. PICK x \in S : \A y \in S : ~(<<y, x>> \in OpToRel(<, Nat))
  BY NatLessThanWellFounded, WFMin
<1>2. \A y \in S : ~(y < x)
  BY <1>1 DEF OpToRel
<1>3. x \in Nat /\ \A y \in S : y \in Nat
  OBVIOUS
<1> QED
  BY <1>2, <1>3

-----------------------------------------------------------------------------
(* Sums over a finite set, which the models take by a fold.  The fold      *)
(* picks the elements in an order of its own; the lemmas show that the     *)
(* order does not matter.                                                  *)
Pick(s) == CHOOSE x \in s : TRUE

LEMMA PickIsIn ==
    ASSUME NEW s, s # {}
    PROVE  Pick(s) \in s
BY DEF Pick

\* the recursion of FoldSet, with a function of the values to add
SumStep(it, v, s) == IF s = {} THEN 0 ELSE it[s \ {Pick(s)}] + v[Pick(s)]
Adds(it, v, S) == it = [s \in SUBSET S |-> SumStep(it, v, s)]
Sum(v, S) == (CHOOSE it : Adds(it, v, S))[S]

LEMMA SmallerRest ==
    ASSUME NEW s, IsFiniteSet(s), s # {}
    PROVE  /\ IsFiniteSet(s \ {Pick(s)})
           /\ Cardinality(s) \in Nat /\ Cardinality(s \ {Pick(s)}) \in Nat
           /\ Cardinality(s \ {Pick(s)}) = Cardinality(s) - 1
BY PickIsIn, FS_RemoveElement, FS_CardinalityType

AddsUpTo(it, v, S, n) == \A s \in SUBSET S : Cardinality(s) < n => it[s] = SumStep(it, v, s)

LEMMA AddsBelow ==
    ASSUME NEW v, NEW S, IsFiniteSet(S), NEW n \in Nat
    PROVE  \E it : AddsUpTo(it, v, S, n)
<1> DEFINE Right(it, m) == AddsUpTo(it, v, S, m)
           bad == {m \in Nat : ~ \E it : Right(it, m)}
<1>1. SUFFICES ASSUME bad # {} PROVE FALSE
  OBVIOUS
<1>2. \A s \in SUBSET S : IsFiniteSet(s) /\ Cardinality(s) \in Nat
  BY FS_Subset, FS_CardinalityType
<1>3. bad \in SUBSET Nat
  OBVIOUS
<1>4. PICK m \in bad : \A k \in bad : m <= k
  <2> HIDE DEF bad
  <2> QED BY <1>1, <1>3, LeastNatural
<1>5. m \in Nat /\ ~ \E it : Right(it, m)
  BY <1>4
<1>6. m # 0
  <2>1. ASSUME m = 0 PROVE Right(<<>>, m)
    BY <1>2, <2>1 DEF AddsUpTo
  <2>2. m = 0 => \E it : Right(it, m)
    <3> HIDE DEF Right
    <3> QED BY <2>1
  <2> QED BY <1>5, <2>2
<1>7. m - 1 \in Nat /\ m - 1 \notin bad
  BY <1>4, <1>5, <1>6
<1>8. PICK it : Right(it, m - 1)
  BY <1>7
<1> DEFINE next == [s \in SUBSET S |-> SumStep(it, v, s)]
<1>9. \A s \in SUBSET S : next[s] = SumStep(it, v, s)
  OBVIOUS
<1> HIDE DEF next, bad
<1>10. ASSUME NEW s \in SUBSET S, Cardinality(s) < m
       PROVE  next[s] = SumStep(next, v, s)
  <2>1. CASE s = {}
    BY <1>9, <2>1 DEF SumStep
  <2>2. CASE s # {}
    <3>1. Cardinality(s \ {Pick(s)}) < m - 1
      BY <1>2, <1>5, <1>10, <2>2, SmallerRest
    <3>2. s \ {Pick(s)} \in SUBSET S
      OBVIOUS
    <3>3. it[s \ {Pick(s)}] = next[s \ {Pick(s)}]
      BY <1>8, <1>9, <3>1, <3>2 DEF AddsUpTo
    <3> QED BY <1>9, <2>2, <3>3 DEF SumStep
  <2> QED BY <2>1, <2>2
<1>11. Right(next, m)
  BY <1>10 DEF AddsUpTo
<1> QED BY <1>5, <1>11

LEMMA AddsExists ==
    ASSUME NEW v, NEW S, IsFiniteSet(S)
    PROVE  \E it : Adds(it, v, S)
<1>1. Cardinality(S) + 1 \in Nat
  BY FS_CardinalityType
<1>2. PICK it : AddsUpTo(it, v, S, Cardinality(S) + 1)
  BY <1>1, AddsBelow
<1> DEFINE all == [s \in SUBSET S |-> it[s]]
<1>3. \A s \in SUBSET S : Cardinality(s) < Cardinality(S) + 1
  BY FS_Subset, FS_CardinalityType
<1>4. \A s \in SUBSET S : all[s] = it[s]
  OBVIOUS
<1>5. all = [s \in SUBSET S |-> all[s]]
  OBVIOUS
<1> HIDE DEF all
<1>6. \A s \in SUBSET S : all[s] = SumStep(all, v, s)
  <2>1. TAKE s \in SUBSET S
  <2>2. it[s] = SumStep(it, v, s)
    BY <1>2, <1>3 DEF AddsUpTo
  <2>3. all[s \ {Pick(s)}] = it[s \ {Pick(s)}]
    BY <1>4
  <2> QED BY <1>4, <2>2, <2>3 DEF SumStep
<1>7. Adds(all, v, S)
  BY <1>5, <1>6 DEF Adds
<1> QED BY <1>7

\* what is added up for a set depends on the values of its elements only
LEMMA AddsSame ==
    ASSUME NEW v, NEW w, NEW S, NEW T, NEW it, NEW jt, Adds(it, v, S), Adds(jt, w, T),
           NEW r \in SUBSET S, r \in SUBSET T, IsFiniteSet(r), \A x \in r : v[x] = w[x]
    PROVE  it[r] = jt[r]
<1> DEFINE bad == {n \in Nat : \E s \in SUBSET r : Cardinality(s) = n /\ it[s] # jt[s]}
<1>1. SUFFICES ASSUME it[r] # jt[r] PROVE FALSE
  OBVIOUS
<1>2. \A s \in SUBSET r : IsFiniteSet(s) /\ Cardinality(s) \in Nat
  BY FS_Subset, FS_CardinalityType
<1>3. bad \in SUBSET Nat /\ bad # {}
  BY <1>1, <1>2
<1>4. PICK n \in bad : \A k \in bad : n <= k
  <2> HIDE DEF bad
  <2> QED BY <1>3, LeastNatural
<1>5. PICK s \in SUBSET r : Cardinality(s) = n /\ it[s] # jt[s]
  BY <1>4
<1>6. s \in SUBSET S /\ s \in SUBSET T
  OBVIOUS
<1>7. it[s] = SumStep(it, v, s) /\ jt[s] = SumStep(jt, w, s)
  <2> DEFINE f == [u \in SUBSET S |-> SumStep(it, v, u)]
             g == [u \in SUBSET T |-> SumStep(jt, w, u)]
  <2>1. f[s] = SumStep(it, v, s) /\ g[s] = SumStep(jt, w, s)
    BY <1>6
  <2>2. it = f /\ jt = g
    BY DEF Adds
  <2> HIDE DEF f, g
  <2> QED BY <2>1, <2>2
<1>8. s # {}
  BY <1>5, <1>7 DEF SumStep
<1> DEFINE u == s \ {Pick(s)}
<1>9. Cardinality(u) \in Nat /\ Cardinality(u) < n /\ u \in SUBSET r
  BY <1>2, <1>5, <1>8, SmallerRest
<1>10. it[u] = jt[u]
  <2>1. Cardinality(u) \notin bad
    <3> HIDE DEF u, bad
    <3>1. n \in Nat
      BY <1>3, <1>4
    <3> QED BY <1>4, <1>9, <3>1
  <2> QED BY <1>9, <2>1
<1>11. v[Pick(s)] = w[Pick(s)]
  BY <1>8, PickIsIn
<1> QED BY <1>5, <1>7, <1>8, <1>10, <1>11 DEF SumStep

LEMMA SumAdds ==
    ASSUME NEW v, NEW S, IsFiniteSet(S), NEW it, Adds(it, v, S)
    PROVE  \A s \in SUBSET S : it[s] = Sum(v, s)
<1>1. TAKE s \in SUBSET S
<1>2. IsFiniteSet(s)
  BY FS_Subset
<1> DEFINE jt == CHOOSE f : Adds(f, v, s)
<1>3. Adds(jt, v, s)
  BY <1>2, AddsExists
<1>4. Sum(v, s) = jt[s]
  BY DEF Sum
<1> HIDE DEF jt
<1>5. it[s] = jt[s]
  BY <1>2, <1>3, AddsSame
<1> QED BY <1>4, <1>5

LEMMA SumSame ==
    ASSUME NEW v, NEW w, NEW S, IsFiniteSet(S), \A x \in S : v[x] = w[x]
    PROVE  Sum(v, S) = Sum(w, S)
<1>1. PICK it : Adds(it, v, S)
  BY AddsExists
<1>2. PICK jt : Adds(jt, w, S)
  BY AddsExists
<1>3. it[S] = Sum(v, S) /\ jt[S] = Sum(w, S)
  BY <1>1, <1>2, SumAdds
<1>4. it[S] = jt[S]
  BY <1>1, <1>2, AddsSame
<1> QED BY <1>3, <1>4

LEMMA SumFirst ==
    ASSUME NEW v, NEW S, IsFiniteSet(S)
    PROVE  Sum(v, S) = IF S = {} THEN 0 ELSE Sum(v, S \ {Pick(S)}) + v[Pick(S)]
<1>1. PICK it : Adds(it, v, S)
  BY AddsExists
<1>2. S \in SUBSET S /\ S \ {Pick(S)} \in SUBSET S
  OBVIOUS
<1>3. it[S] = Sum(v, S) /\ it[S \ {Pick(S)}] = Sum(v, S \ {Pick(S)})
  <2>1. \A s \in SUBSET S : it[s] = Sum(v, s)
    BY <1>1, SumAdds
  <2> QED BY <1>2, <2>1
<1>4. it[S] = SumStep(it, v, S)
  <2> DEFINE f == [u \in SUBSET S |-> SumStep(it, v, u)]
  <2>1. f[S] = SumStep(it, v, S)
    OBVIOUS
  <2>2. it = f
    BY <1>1 DEF Adds
  <2> HIDE DEF f
  <2> QED BY <2>1, <2>2
<1> QED BY <1>3, <1>4 DEF SumStep

LEMMA SumEmpty ==
    ASSUME NEW v
    PROVE  Sum(v, {}) = 0
BY SumFirst, FS_EmptySet

\* the sum of natural numbers, and how one element counts in it
LEMMA SumRemoves ==
    ASSUME NEW v, NEW S, IsFiniteSet(S), \A x \in S : v[x] \in Nat
    PROVE  /\ Sum(v, S) \in Nat
           /\ \A x \in S : Sum(v, S) = Sum(v, S \ {x}) + v[x]
<1> DEFINE Right(s) == /\ Sum(v, s) \in Nat
                       /\ \A x \in s : Sum(v, s) = Sum(v, s \ {x}) + v[x]
           bad == {n \in Nat : \E s \in SUBSET S : Cardinality(s) = n /\ ~Right(s)}
<1>1. SUFFICES ASSUME ~Right(S) PROVE FALSE
  OBVIOUS
<1>2. \A s \in SUBSET S : IsFiniteSet(s) /\ Cardinality(s) \in Nat
  BY FS_Subset, FS_CardinalityType
<1> HIDE DEF Right
<1>3. bad \in SUBSET Nat /\ bad # {}
  BY <1>1, <1>2
<1>4. PICK n \in bad : \A k \in bad : n <= k
  <2> HIDE DEF bad
  <2> QED BY <1>3, LeastNatural
<1>5. PICK s \in SUBSET S : Cardinality(s) = n /\ ~Right(s)
  BY <1>4
<1>6. n \in Nat
  BY <1>3, <1>4
<1>7. ASSUME NEW u \in SUBSET S, Cardinality(u) < n PROVE Right(u)
  <2>1. Cardinality(u) \notin bad /\ Cardinality(u) \in Nat
    <3> HIDE DEF bad
    <3> QED BY <1>2, <1>4, <1>6, <1>7
  <2> QED BY <2>1
<1> HIDE DEF bad
<1>8. ASSUME NEW x \in s PROVE s \ {x} \in SUBSET S /\ Cardinality(s \ {x}) < n
  BY <1>2, <1>5, <1>6, FS_RemoveElement
<1>9. s # {}
  <2>1. SUFFICES ASSUME s = {} PROVE Right(s)
    BY <1>5
  <2> QED BY <2>1, SumEmpty DEF Right
<1> DEFINE y == Pick(s)
           rest == s \ {y}
<1>10. y \in s
  BY <1>9, PickIsIn
<1>11. Sum(v, s) = Sum(v, rest) + v[y]
  BY <1>2, <1>9, SumFirst
<1> HIDE DEF y
<1>12. Right(rest)
  BY <1>7, <1>8, <1>10
<1>13. Sum(v, rest) \in Nat /\ v[y] \in Nat
  BY <1>10, <1>12 DEF Right
<1>14. ASSUME NEW x \in s PROVE Sum(v, s) = Sum(v, s \ {x}) + v[x]
  <2>1. CASE x = y
    BY <1>11, <2>1
  <2>2. CASE x # y
    <3> DEFINE both == rest \ {x}
    <3>1. Sum(v, rest) = Sum(v, both) + v[x]
      BY <1>12, <2>2 DEF Right
    <3>2. Right(s \ {x})
      BY <1>7, <1>8
    <3>3. y \in s \ {x} /\ (s \ {x}) \ {y} = both
      BY <1>10, <2>2
    <3>4. Sum(v, s \ {x}) = Sum(v, both) + v[y]
      BY <3>2, <3>3 DEF Right
    <3>5. Right(both)
      <4>1. both \in SUBSET S /\ Cardinality(both) < n
        <5>1. x \in rest /\ IsFiniteSet(rest) /\ Cardinality(rest) < n /\ Cardinality(rest) \in Nat
          BY <1>2, <1>8, <1>10, <2>2
        <5>2. Cardinality(both) = Cardinality(rest) - 1 /\ both \in SUBSET S
          BY <5>1, FS_RemoveElement
        <5> QED BY <1>2, <1>6, <5>1, <5>2
      <4> QED BY <1>7, <4>1
    <3>6. Sum(v, both) \in Nat /\ v[x] \in Nat
      BY <3>5 DEF Right
    <3> HIDE DEF both, rest
    <3> QED BY <1>11, <1>13, <3>1, <3>4, <3>6
  <2> QED BY <2>1, <2>2
<1>15. Sum(v, s) \in Nat
  BY <1>11, <1>13
<1> QED BY <1>5, <1>14, <1>15 DEF Right
===============================================================================
