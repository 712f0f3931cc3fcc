------------------------------- MODULE SumsProof -------------------------------
(***************************************************************************)
(* Sums over finite sets.  MapThenSumSet takes the elements in an order of  *)
(* its own choice; here are the facts that do not depend on the order, by   *)
(* induction on the number of elements.  The library's induction theorems   *)
(* take a predicate as a parameter; each induction here looks at a          *)
(* counterexample of least size instead.                                    *)
(***************************************************************************)
EXTENDS Integers, FiniteSetsExt, FiniteSetTheorems, WellFoundedInduction, TLAPS

(* A set of natural numbers has a least one.                                *)
LEMMA LeastNatural ==
    ASSUME NEW T \in SUBSET Nat, T # {}
    PROVE  \E n \in T : \A m \in T : n <= m
<1>1. PICK n \in T : \A m \in T : ~ (<<m, n>> \in OpToRel(<, Nat))
  BY NatLessThanWellFounded, WFMin
<1>2. \A m \in T : ~ (m < n)
  BY <1>1 DEF OpToRel
<1> QED
  BY <1>2

(* Among finite sets there is one of least size.                            *)
LEMMA LeastSet ==
    ASSUME NEW F, F # {}, \A s \in F : IsFiniteSet(s)
    PROVE  \E s \in F : \A t \in F : Cardinality(s) <= Cardinality(t)
<1> DEFINE T == {Cardinality(s) : s \in F}
<1>1. T \in SUBSET Nat /\ T # {}
  BY FS_CardinalityType
<1>2. PICK n \in T : \A m \in T : n <= m
  BY <1>1, LeastNatural
<1> QED
  BY <1>2

Pick(s) == CHOOSE x \in s : TRUE
Rest(s) == s \ {Pick(s)}

(* g gives the sum of w over every subset of S, as MapThenSumSet adds it up.*)
IsSum(g, w, S) ==
    g = [s \in SUBSET S |-> IF s = {} THEN 0 ELSE w[Pick(s)] + g[Rest(s)]]

(* One value of such a function.                                            *)
LEMMA SumAt ==
    ASSUME NEW w, NEW S, NEW g, IsSum(g, w, S), NEW s \in SUBSET S
    PROVE  g[s] = IF s = {} THEN 0 ELSE w[Pick(s)] + g[Rest(s)]
<1> DEFINE at(t) == IF t = {} THEN 0 ELSE w[Pick(t)] + g[Rest(t)]
<1>1. g = [t \in SUBSET S |-> at(t)]
  BY DEF IsSum
<1> HIDE DEF at
<1>2. g[s] = at(s)
  BY <1>1
<1> QED
  BY <1>2 DEF at

(* Taking one element out leaves a smaller set.                             *)
LEMMA RestSmaller ==
    ASSUME NEW s, IsFiniteSet(s), s # {}
    PROVE  /\ Pick(s) \in s /\ Rest(s) \subseteq s /\ IsFiniteSet(Rest(s))
           /\ Cardinality(Rest(s)) = Cardinality(s) - 1
           /\ Cardinality(s) \in Nat
<1>1. Pick(s) \in s
  BY DEF Pick
<1> QED
  BY <1>1, FS_RemoveElement, FS_CardinalityType DEF Rest

(* Sums over two sets agree on what both know.                              *)
LEMMA SumsAgree ==
    ASSUME NEW w, NEW S, NEW T, IsFiniteSet(S), NEW g, NEW h,
           IsSum(g, w, S), IsSum(h, w, T), NEW s \in SUBSET (S \cap T)
    PROVE  g[s] = h[s]
<1> DEFINE F == {t \in SUBSET (S \cap T) : g[t] # h[t]}
<1>1. SUFFICES ASSUME F # {} PROVE FALSE
  OBVIOUS
<1>2. \A t \in F : IsFiniteSet(t)
  BY FS_Subset
<1>3. PICK t \in F : \A u \in F : Cardinality(t) <= Cardinality(u)
  <2> HIDE DEF F
  <2> QED
    BY <1>1, <1>2, LeastSet
<1>4. /\ g[t] = IF t = {} THEN 0 ELSE w[Pick(t)] + g[Rest(t)]
      /\ h[t] = IF t = {} THEN 0 ELSE w[Pick(t)] + h[Rest(t)]
  <2>1. t \in SUBSET S /\ t \in SUBSET T
    BY <1>3
  <2> HIDE DEF F
  <2> QED
    BY <2>1, SumAt
<1>5. t # {} /\ g[t] = w[Pick(t)] + g[Rest(t)] /\ h[t] = w[Pick(t)] + h[Rest(t)]
  BY <1>3, <1>4
<1>6. /\ Rest(t) \subseteq t /\ Cardinality(Rest(t)) = Cardinality(t) - 1
      /\ Cardinality(t) \in Nat
  BY <1>2, <1>3, <1>5, RestSmaller
<1>7. Rest(t) \notin F
  BY <1>3, <1>6
<1> QED
  BY <1>3, <1>5, <1>6, <1>7

(* Every finite set has its sums.                                           *)
LEMMA SumExists ==
    ASSUME NEW w, NEW S, IsFiniteSet(S)
    PROVE  \E g : IsSum(g, w, S)
<1> DEFINE F == {T \in SUBSET S : ~ \E g : IsSum(g, w, T)}
<1>1. SUFFICES ASSUME F # {} PROVE FALSE
  OBVIOUS
<1>2. \A t \in F : IsFiniteSet(t)
  BY FS_Subset
<1>3. PICK T \in F : \A u \in F : Cardinality(T) <= Cardinality(u)
  <2> HIDE DEF F
  <2> QED
    BY <1>1, <1>2, LeastSet
<1> DEFINE Sum(t) == CHOOSE g : IsSum(g, w, t)
           below(t) == IF t = {} THEN 0 ELSE w[Pick(t)] + Sum(Rest(t))[Rest(t)]
           g == [t \in SUBSET T |-> below(t)]
<1>4. ASSUME NEW t \in SUBSET T, t # T PROVE IsSum(Sum(t), w, t)
  <2>1. IsFiniteSet(T) /\ t \in SUBSET S
    BY <1>2, <1>3
  <2>2. /\ Cardinality(t) < Cardinality(T)
        /\ Cardinality(t) \in Nat /\ Cardinality(T) \in Nat
    BY <1>4, <2>1, FS_Subset, FS_CardinalityType
  <2>3. t \notin F
    BY <1>3, <2>2
  <2> QED
    BY <2>1, <2>3
<1>5. ASSUME NEW t \in SUBSET T, t # {} PROVE g[Rest(t)] = Sum(Rest(t))[Rest(t)]
  <2>1. IsFiniteSet(T) /\ IsFiniteSet(t)
    BY <1>2, <1>3, FS_Subset
  <2>2. Pick(t) \in t /\ Rest(t) \subseteq t /\ IsFiniteSet(Rest(t))
    BY <1>5, <2>1, RestSmaller
  <2> DEFINE u == Rest(t)
  <2>3. u \in SUBSET T /\ u # T
    BY <2>2 DEF Rest
  <2>4. IsSum(Sum(u), w, u)
    BY <1>4, <2>3
  <2> HIDE DEF u, Sum
  <2>5. Sum(u)[u] = below(u)
    <3>1. CASE u = {}
      BY <2>4, <3>1, SumAt
    <3>2. CASE u # {}
      <4>1. Pick(u) \in u /\ Rest(u) \subseteq u /\ IsFiniteSet(Rest(u)) /\ IsFiniteSet(u)
        BY <2>2, <3>2, RestSmaller DEF u
      <4>2. Rest(u) \in SUBSET T /\ Rest(u) # T
        BY <2>3, <4>1 DEF Rest
      <4>3. IsSum(Sum(Rest(u)), w, Rest(u))
        BY <1>4, <4>2
      <4>4. Sum(u)[Rest(u)] = Sum(Rest(u))[Rest(u)]
        <5>1. Rest(u) \in SUBSET (u \cap Rest(u))
          BY <4>1
        <5> QED
          BY ONLY <2>4, <4>1, <4>3, <5>1, SumsAgree, SMT
      <4>5. Sum(u)[u] = w[Pick(u)] + Sum(u)[Rest(u)]
        BY <2>4, <3>2, SumAt
      <4> QED
        BY <3>2, <4>4, <4>5
    <3> QED
      BY <3>1, <3>2
  <2> QED
    BY <2>3, <2>5 DEF u
<1>6. IsSum(g, w, T)
  <2>1. \A t \in SUBSET T : below(t) = IF t = {} THEN 0 ELSE w[Pick(t)] + g[Rest(t)]
    <3> SUFFICES ASSUME NEW t \in SUBSET T
                 PROVE  below(t) = IF t = {} THEN 0 ELSE w[Pick(t)] + g[Rest(t)]
      OBVIOUS
    <3> HIDE DEF g, Sum
    <3>1. t # {} => g[Rest(t)] = Sum(Rest(t))[Rest(t)]
      BY <1>5
    <3> QED
      BY <3>1
  <2> HIDE DEF below
  <2> QED
    BY <2>1 DEF IsSum
<1> QED
  BY <1>3, <1>6

Weighs(w, S) == \A x \in S : w[x] \in Nat
Additive(g, w, S) == \A s \in SUBSET S : \A x \in S \ s : g[s \cup {x}] = g[s] + w[x]
Joins(g, S) == \A s \in SUBSET S : \A r \in SUBSET (S \ s) : g[s \cup r] = g[s] + g[r]

(* A sum of natural numbers is a natural number.                            *)
LEMMA SumType ==
    ASSUME NEW w, NEW S, IsFiniteSet(S), NEW g, IsSum(g, w, S),
           Weighs(w, S), NEW s \in SUBSET S
    PROVE  g[s] \in Nat
<1> DEFINE F == {t \in SUBSET S : g[t] \notin Nat}
<1>1. SUFFICES ASSUME F # {} PROVE FALSE
  OBVIOUS
<1>2. \A t \in F : IsFiniteSet(t)
  BY FS_Subset
<1>3. PICK t \in F : \A u \in F : Cardinality(t) <= Cardinality(u)
  <2> HIDE DEF F
  <2> QED
    BY <1>1, <1>2, LeastSet
<1>4. g[t] = IF t = {} THEN 0 ELSE w[Pick(t)] + g[Rest(t)]
  BY SumAt
<1>5. t # {}
  BY <1>3, <1>4
<1>6. /\ Pick(t) \in t /\ Rest(t) \subseteq t /\ Cardinality(Rest(t)) = Cardinality(t) - 1
      /\ Cardinality(t) \in Nat
  BY <1>2, <1>3, <1>5, RestSmaller
<1>7. Rest(t) \notin F
  BY <1>3, <1>6
<1>8. w[Pick(t)] \in Nat /\ g[Rest(t)] \in Nat
  BY <1>6, <1>7 DEF Weighs
<1> QED
  BY <1>3, <1>4, <1>5, <1>8

(* It does not matter which element is added last.                          *)
LEMMA SumAdd ==
    ASSUME NEW w, NEW S, IsFiniteSet(S), NEW g, IsSum(g, w, S),
           Weighs(w, S)
    PROVE  Additive(g, w, S)
<1> DEFINE F == {t \in SUBSET S : \E y \in S \ t : g[t \cup {y}] # g[t] + w[y]}
<1>1. SUFFICES ASSUME F # {} PROVE FALSE
  BY DEF Additive
<1>2. \A t \in F : IsFiniteSet(t)
  BY FS_Subset
<1>3. PICK t \in F : \A u \in F : Cardinality(t) <= Cardinality(u)
  <2> HIDE DEF F
  <2> QED
    BY <1>1, <1>2, LeastSet
<1>4. PICK z \in S \ t : g[t \cup {z}] # g[t] + w[z]
  BY <1>3
<1> DEFINE all == t \cup {z}
           y == Pick(all)
           u == t \ {y}
<1>5. /\ all \in SUBSET S /\ all # {} /\ z \notin t /\ t \in SUBSET S /\ y \in all
  BY DEF Pick
<1>6. g[all] = w[y] + g[Rest(all)]
  <2> HIDE DEF all
  <2> QED
    BY <1>5, SumAt DEF y
<1>7. w[z] \in Nat /\ g[t] \in Nat /\ g[all] # g[t] + w[z]
  BY <1>4, <1>5, SumType DEF Weighs
<1>8. y # z
  <2>1. SUFFICES ASSUME y = z PROVE Rest(all) = t
    BY <1>6, <1>7
  <2> QED
    BY <1>5, <2>1 DEF Rest
<1>9. /\ y \in t /\ u \in SUBSET S /\ t = u \cup {y}
      /\ y \in S \ u /\ z \in S \ u /\ Rest(all) = u \cup {z}
  BY <1>5, <1>8 DEF Rest
<1>10. Cardinality(u) = Cardinality(t) - 1 /\ Cardinality(t) \in Nat
  <2>1. IsFiniteSet(t)
    BY <1>2
  <2> HIDE DEF F, y
  <2> QED
    BY <1>9, <2>1, FS_RemoveElement, FS_CardinalityType
<1>11. u \notin F
  <2>1. ~ (Cardinality(t) <= Cardinality(u))
    <3> HIDE DEF u
    <3> QED
      BY ONLY <1>10, SMT
  <2> HIDE DEF F, u
  <2> QED
    BY ONLY <1>3, <2>1, Zenon
<1>12. g[u \cup {z}] = g[u] + w[z] /\ g[u \cup {y}] = g[u] + w[y]
  <2> HIDE DEF u, y
  <2>1. \A v \in S \ u : g[u \cup {v}] = g[u] + w[v]
    BY <1>9, <1>11
  <2> QED
    BY <1>9, <2>1
<1>13. w[y] \in Nat
  BY <1>9 DEF Weighs
<1>14. g[u] \in Nat
  <2> HIDE DEF u
  <2> QED
    BY <1>9, SumType
<1> HIDE DEF u, y, all
<1> QED
  BY <1>6, <1>7, <1>9, <1>12, <1>13, <1>14

(* The sum over two disjoint sets is the sum of their sums.                 *)
LEMMA SumUnion ==
    ASSUME NEW w, NEW S, IsFiniteSet(S), NEW g, IsSum(g, w, S),
           Weighs(w, S)
    PROVE  Joins(g, S)
<1> SUFFICES ASSUME NEW s \in SUBSET S
             PROVE  \A r \in SUBSET (S \ s) : g[s \cup r] = g[s] + g[r]
  BY DEF Joins
<1> DEFINE F == {t \in SUBSET (S \ s) : g[s \cup t] # g[s] + g[t]}
<1>1. SUFFICES ASSUME F # {} PROVE FALSE
  OBVIOUS
<1>2. \A t \in F : IsFiniteSet(t)
  BY FS_Subset
<1>3. PICK t \in F : \A u \in F : Cardinality(t) <= Cardinality(u)
  <2> HIDE DEF F
  <2> QED
    BY <1>1, <1>2, LeastSet
<1>4. g[s] \in Nat
  BY SumType
<1>5. t # {}
  <2> SUFFICES ASSUME t = {} PROVE FALSE
    OBVIOUS
  <2>1. g[{}] = 0
    BY SumAt
  <2>2. s \cup t = s
    OBVIOUS
  <2>3. g[s \cup t] = g[s] /\ g[t] = 0
    BY <2>1, <2>2
  <2>4. g[s \cup t] # g[s] + g[t]
    BY <1>3
  <2> QED
    BY ONLY <1>4, <2>3, <2>4, SMT
<1> DEFINE u == Rest(t)
           x == Pick(t)
<1>6. /\ x \in t /\ u \subseteq t /\ Cardinality(u) = Cardinality(t) - 1
      /\ Cardinality(t) \in Nat
  BY <1>2, <1>3, <1>5, RestSmaller
<1>7. u = t \ {x}
  BY DEF Rest
<1> HIDE DEF u, x
<1>8. /\ u \in SUBSET (S \ s) /\ u \in SUBSET S /\ s \cup u \in SUBSET S
      /\ x \in S \ u /\ x \in S \ (s \cup u)
      /\ t = u \cup {x} /\ s \cup t = (s \cup u) \cup {x}
  BY <1>3, <1>6, <1>7
<1>9. u \notin F
  BY <1>3, <1>6
<1>10. g[s \cup u] = g[s] + g[u]
  BY <1>8, <1>9
<1>11. g[t] = g[u] + w[x] /\ g[s \cup t] = g[s \cup u] + w[x]
  <2>1. \A v \in SUBSET S : \A y \in S \ v : g[v \cup {y}] = g[v] + w[y]
    <3>1. Additive(g, w, S)
      BY SumAdd
    <3> QED
      BY <3>1 DEF Additive
  <2>2. g[u \cup {x}] = g[u] + w[x]
    BY <1>8, <2>1
  <2>3. g[(s \cup u) \cup {x}] = g[s \cup u] + w[x]
    BY <1>8, <2>1
  <2> QED
    BY <1>8, <2>2, <2>3
<1>12. w[x] \in Nat /\ g[u] \in Nat
  BY <1>8, SumType DEF Weighs
<1> QED
  BY <1>3, <1>4, <1>10, <1>11, <1>12

-----------------------------------------------------------------------------
(* The same for MapThenSumSet.                                             *)
Total(w, S) == MapThenSumSet(LAMBDA x : w[x], S)

(* What MapThenSumSet gives is that sum.                                    *)
LEMMA TotalIsSum ==
    ASSUME NEW w, NEW U, IsFiniteSet(U), NEW g, IsSum(g, w, U), NEW S \in SUBSET U
    PROVE  Total(w, S) = g[S]
<1>1. IsFiniteSet(S)
  BY FS_Subset
<1>2. \E h : IsSum(h, w, S)
  BY <1>1, SumExists
<1>3. \E h : IsSum(h, w, S) /\ Total(w, S) = h[S]
  BY <1>2 DEF Total, MapThenSumSet, MapThenFoldSet, IsSum, Pick, Rest
<1>4. PICK h : IsSum(h, w, S) /\ Total(w, S) = h[S]
  BY <1>3
<1>5. S \in SUBSET (S \cap U)
  OBVIOUS
<1>6. h[S] = g[S]
  BY <1>1, <1>4, <1>5, SumsAgree
<1> QED
  BY <1>4, <1>6

(* Nothing weighs nothing.                                                 *)
LEMMA TotalEmpty ==
    ASSUME NEW w
    PROVE  Total(w, {}) = 0
<1>1. IsFiniteSet({})
  BY FS_EmptySet
<1>2. PICK g : IsSum(g, w, {})
  BY <1>1, SumExists
<1>3. Total(w, {}) = g[{}] /\ g[{}] = 0
  BY <1>1, <1>2, TotalIsSum, SumAt
<1> QED
  BY <1>3

(* Totals of disjoint sets add up.                                         *)
LEMMA TotalUnion ==
    ASSUME NEW w, NEW S, NEW T, IsFiniteSet(S), IsFiniteSet(T), S \cap T = {},
           Weighs(w, S \cup T)
    PROVE  /\ Total(w, S \cup T) = Total(w, S) + Total(w, T)
           /\ Total(w, S) \in Nat /\ Total(w, T) \in Nat
<1> DEFINE U == S \cup T
<1>1. IsFiniteSet(U) /\ S \in SUBSET U /\ T \in SUBSET (U \ S) /\ T \in SUBSET U /\ U \in SUBSET U
  BY FS_Union
<1>2. Weighs(w, U)
  OBVIOUS
<1> HIDE DEF U
<1>3. PICK g : IsSum(g, w, U)
  BY <1>1, SumExists
<1>4. Total(w, U) = g[U] /\ Total(w, S) = g[S] /\ Total(w, T) = g[T]
  BY <1>1, <1>3, TotalIsSum
<1>5. g[S \cup T] = g[S] + g[T]
  <2>1. Joins(g, U)
    BY <1>1, <1>2, <1>3, SumUnion
  <2> QED
    BY <1>1, <2>1 DEF Joins
<1>6. g[S] \in Nat /\ g[T] \in Nat
  BY <1>1, <1>2, <1>3, SumType
<1> QED
  BY <1>4, <1>5, <1>6 DEF U

(* One element more or less.                                               *)
LEMMA TotalAdd ==
    ASSUME NEW w, NEW S, IsFiniteSet(S), NEW z, z \notin S, Weighs(w, S \cup {z})
    PROVE  Total(w, S \cup {z}) = Total(w, S) + w[z] /\ Total(w, S) \in Nat
<1> DEFINE U == S \cup {z}
<1>1. IsFiniteSet(U) /\ S \in SUBSET U /\ z \in U \ S /\ U \in SUBSET U
  BY FS_AddElement
<1>2. Weighs(w, U)
  OBVIOUS
<1> HIDE DEF U
<1>3. PICK g : IsSum(g, w, U)
  BY <1>1, SumExists
<1>4. Total(w, U) = g[U] /\ Total(w, S) = g[S]
  BY <1>1, <1>3, TotalIsSum
<1>5. g[S \cup {z}] = g[S] + w[z]
  <2>1. Additive(g, w, U)
    BY <1>1, <1>2, <1>3, SumAdd
  <2> QED
    BY <1>1, <2>1 DEF Additive
<1>6. g[S] \in Nat
  BY <1>1, <1>2, <1>3, SumType
<1> QED
  BY <1>4, <1>5, <1>6 DEF U
================================================================================
