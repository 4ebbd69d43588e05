------------------------------- MODULE SumTheorems -------------------------------
(***************************************************************************)
(* What SumOver computes, for every finite set of natural numbers: the     *)
(* recursive function behind it has one solution, and it counts the pairs  *)
(* <<x, k>> with k in 1..f[x] (SumCounts).  Everything else about sums     *)
(* follows from what is known of cardinalities.  The induction is done     *)
(* with minimal counterexamples of the order on finite subsets, which      *)
(* needs no operator as a parameter.                                       *)
(***************************************************************************)
EXTENDS Sums, FiniteSetTheorems, TLAPS

Pick(S) == CHOOSE x \in S : TRUE

\* How a sum is computed: one element at a time.
Summing(f, s, sum) == IF s = {} THEN 0 ELSE f[Pick(s)] + sum[s \ {Pick(s)}]
Solves(f, S, sum) == sum = [s \in SUBSET S |-> Summing(f, s, sum)]

\* One pair for each unit that is summed.
Units(f, S) == UNION {{x} \X (1..f[x]) : x \in S}

\* SumOver is the recursive function the community modules define it by.
LEMMA SumIsRecursive ==
  ASSUME NEW f, NEW S
  PROVE  SumOver(f, S) = (CHOOSE sum : Solves(f, S, sum))[S]
BY DEF SumOver, MapThenSumSet, MapThenFoldSet, Pick, Summing, Solves

\* The units of one element, counted.
LEMMA UnitsOfOne ==
  ASSUME NEW x, NEW n \in Nat
  PROVE  IsFiniteSet({x} \X (1..n)) /\ Cardinality({x} \X (1..n)) = n
<1>1. IsFiniteSet({x}) /\ Cardinality({x}) = 1
  BY FS_Singleton
<1>2. IsFiniteSet(1..n) /\ Cardinality(1..n) = n
  BY FS_Interval
<1>3. Cardinality({x} \X (1..n)) = 1 * n
  BY <1>1, <1>2, FS_Product
<1> QED
  <2>1. IsFiniteSet({x} \X (1..n))
    BY <1>1, <1>2, FS_Product
  <2>2. 1 * n = n
    OBVIOUS
  <2> QED
    BY <1>3, <2>1, <2>2

\* The units of a finite set are finite.
LEMMA UnitsFinite ==
  ASSUME NEW f, NEW S, IsFiniteSet(S), \A x \in S : f[x] \in Nat
  PROVE  IsFiniteSet(Units(f, S))
<1> DEFINE g == [x \in S |-> {x} \X (1..f[x])]
           T == {{x} \X (1..f[x]) : x \in S}
<1>1. g \in Surjection(S, T)
  BY DEF Surjection
<1> HIDE DEF g
<1>2. IsFiniteSet(T)
  BY <1>1, FS_Surjection
<1>3. ASSUME NEW U \in T PROVE IsFiniteSet(U)
  <2>1. PICK x \in S : U = {x} \X (1..f[x])
    OBVIOUS
  <2> QED
    BY <2>1, UnitsOfOne
<1> QED
  BY <1>2, <1>3, FS_UNION DEF Units

\* One element more or less.
LEMMA UnitsWithout ==
  ASSUME NEW f, NEW S, IsFiniteSet(S), \A x \in S : f[x] \in Nat, NEW x \in S
  PROVE  Cardinality(Units(f, S)) = f[x] + Cardinality(Units(f, S \ {x}))
<1> DEFINE U == Units(f, S \ {x})
           V == {x} \X (1..f[x])
<1>1. IsFiniteSet(U)
  BY UnitsFinite, FS_RemoveElement
<1>2. IsFiniteSet(V) /\ Cardinality(V) = f[x]
  BY UnitsOfOne
<1>3. Units(f, S) = U \cup V
  BY DEF Units
<1>4. U \cap V = {}
  BY DEF Units
<1> HIDE DEF U, V
<1>5. Cardinality(U \cup V) = Cardinality(U) + Cardinality(V) - Cardinality(U \cap V)
  BY <1>1, <1>2, FS_Union
<1>6. Cardinality(U) \in Nat /\ Cardinality(U \cap V) = 0
  BY <1>1, <1>4, FS_CardinalityType, FS_EmptySet
<1> QED
  BY <1>2, <1>3, <1>5, <1>6 DEF U

\* The count of the units solves the recursion.
LEMMA CountSolves ==
  ASSUME NEW f, NEW S, IsFiniteSet(S), \A x \in S : f[x] \in Nat
  PROVE  Solves(f, S, [s \in SUBSET S |-> Cardinality(Units(f, s))])
<1> DEFINE count == [s \in SUBSET S |-> Cardinality(Units(f, s))]
<1>1. ASSUME NEW s \in SUBSET S PROVE Cardinality(Units(f, s)) = Summing(f, s, count)
  <2>1. CASE s = {}
    <3>1. Units(f, s) = {}
      BY <2>1 DEF Units
    <3> QED
      BY <2>1, <3>1, FS_EmptySet DEF Summing
  <2>2. CASE s # {}
    <3>1. Pick(s) \in s /\ s \ {Pick(s)} \in SUBSET S
      BY <2>2 DEF Pick
    <3>2. IsFiniteSet(s) /\ \A x \in s : f[x] \in Nat
      BY FS_Subset
    <3>3. Cardinality(Units(f, s)) = f[Pick(s)] + Cardinality(Units(f, s \ {Pick(s)}))
      BY <3>1, <3>2, UnitsWithout
    <3>4. count[s \ {Pick(s)}] = Cardinality(Units(f, s \ {Pick(s)}))
      BY <3>1
    <3> HIDE DEF count
    <3> QED
      BY <2>2, <3>3, <3>4 DEF Summing
  <2> QED
    BY <2>1, <2>2
<1> QED
  BY <1>1 DEF Solves

\* It is the only solution: the smallest set two solutions differ on is not empty,
\* and without its picked element they agree.
LEMMA SolutionUnique ==
  ASSUME NEW f, NEW S, IsFiniteSet(S), NEW a, NEW b, Solves(f, S, a), Solves(f, S, b)
  PROVE  a = b
<1> DEFINE D == {s \in SUBSET S : a[s] # b[s]}
           R == StrictSubsetOrdering(S)
<1>1. /\ a = [s \in SUBSET S |-> a[s]] /\ b = [s \in SUBSET S |-> b[s]]
      /\ \A s \in SUBSET S : a[s] = Summing(f, s, a) /\ b[s] = Summing(f, s, b)
  BY DEF Solves
<1>2. IsWellFoundedOn(R, SUBSET S)
  BY FS_StrictSubsetOrderingWellFounded, FS_FiniteSubsetsOfFinite
<1>3. ASSUME D # {} PROVE FALSE
  <2>1. PICK s \in D : \A t \in D : <<t, s>> \notin R
    <3>1. D \subseteq SUBSET S
      OBVIOUS
    <3> HIDE DEF D, R
    <3> QED
      BY <1>2, <1>3, <3>1, WFMin
  <2>2. s # {} /\ Pick(s) \in s
    BY <1>1 DEF Summing, Pick
  <2>3. s \ {Pick(s)} \in SUBSET S /\ <<s \ {Pick(s)}, s>> \in R
    BY <2>2 DEF StrictSubsetOrdering
  <2>4. a[s \ {Pick(s)}] = b[s \ {Pick(s)}]
    BY <2>1, <2>3
  <2> QED
    BY <1>1, <2>4 DEF Summing
<1> QED
  BY <1>1, <1>3

\* A sum is the number of its units.
THEOREM SumCounts ==
  ASSUME NEW f, NEW S, IsFiniteSet(S), \A x \in S : f[x] \in Nat
  PROVE  SumOver(f, S) = Cardinality(Units(f, S))
<1> DEFINE count == [s \in SUBSET S |-> Cardinality(Units(f, s))]
           sum == CHOOSE it : Solves(f, S, it)
<1>1. Solves(f, S, count)
  BY CountSolves
<1>2. count[S] = Cardinality(Units(f, S))
  OBVIOUS
<1> HIDE DEF count
<1>3. Solves(f, S, sum)
  BY <1>1
<1>4. sum = count
  BY <1>1, <1>3, SolutionUnique
<1> QED
  BY <1>2, <1>4, SumIsRecursive

----------------------------------------------------------------------------
(* What the proofs about budgets need.                                     *)

\* A sum of naturals is a natural number.
THEOREM SumType ==
  ASSUME NEW f, NEW S, IsFiniteSet(S), \A x \in S : f[x] \in Nat
  PROVE  SumOver(f, S) \in Nat
BY SumCounts, UnitsFinite, FS_CardinalityType

\* Nothing sums to 0.
THEOREM SumEmpty == ASSUME NEW f PROVE SumOver(f, {}) = 0
<1>1. IsFiniteSet({}) /\ \A x \in {} : f[x] \in Nat
  BY FS_EmptySet
<1>2. Units(f, {}) = {}
  BY DEF Units
<1> QED
  BY <1>1, <1>2, SumCounts, FS_EmptySet

\* One element less.
THEOREM SumWithout ==
  ASSUME NEW f, NEW S, IsFiniteSet(S), \A x \in S : f[x] \in Nat, NEW x \in S
  PROVE  SumOver(f, S) = SumOver(f, S \ {x}) + f[x]
<1>1. IsFiniteSet(S \ {x})
  BY FS_RemoveElement
<1>2. /\ SumOver(f, S) = Cardinality(Units(f, S))
      /\ SumOver(f, S \ {x}) = Cardinality(Units(f, S \ {x}))
  BY <1>1, SumCounts
<1>3. SumOver(f, S \ {x}) \in Nat
  BY <1>1, SumType
<1> QED
  BY <1>2, <1>3, UnitsWithout

\* One element more.
THEOREM SumWith ==
  ASSUME NEW f, NEW S, IsFiniteSet(S), \A y \in S : f[y] \in Nat,
         NEW x, x \notin S, f[x] \in Nat
  PROVE  SumOver(f, S \cup {x}) = SumOver(f, S) + f[x]
<1>1. IsFiniteSet(S \cup {x}) /\ (S \cup {x}) \ {x} = S
  BY FS_AddElement
<1> QED
  BY <1>1, SumWithout

\* A part sums to no more than the whole.
THEOREM SumSubset ==
  ASSUME NEW f, NEW S, IsFiniteSet(S), \A x \in S : f[x] \in Nat, NEW T \in SUBSET S
  PROVE  SumOver(f, T) <= SumOver(f, S)
<1>1. IsFiniteSet(T) /\ \A x \in T : f[x] \in Nat
  BY FS_Subset
<1>2. Units(f, T) \in SUBSET Units(f, S)
  BY DEF Units
<1> QED
  BY <1>1, <1>2, SumCounts, UnitsFinite, FS_Subset

\* One element is its own sum.
THEOREM SumOne ==
  ASSUME NEW f, NEW x, f[x] \in Nat
  PROVE  SumOver(f, {x}) = f[x]
<1>1. IsFiniteSet({x}) /\ {x} \ {x} = {}
  BY FS_Singleton
<1>2. SumOver(f, {x}) = SumOver(f, {x} \ {x}) + f[x]
  BY <1>1, SumWithout
<1> QED
  BY <1>1, <1>2, SumEmpty

\* Larger values have a larger sum.
THEOREM SumMonotone ==
  ASSUME NEW f, NEW g, NEW S, IsFiniteSet(S), \A x \in S : f[x] \in Nat /\ g[x] \in Nat,
         \A x \in S : f[x] <= g[x]
  PROVE  SumOver(f, S) <= SumOver(g, S)
<1>1. Units(f, S) \in SUBSET Units(g, S)
  <2>1. \A x \in S : 1..f[x] \subseteq 1..g[x]
    OBVIOUS
  <2> QED
    BY <2>1 DEF Units
<1> QED
  BY <1>1, SumCounts, UnitsFinite, FS_Subset

\* Only the values over the set count.
THEOREM SumSame ==
  ASSUME NEW f, NEW g, NEW S, IsFiniteSet(S), \A x \in S : f[x] \in Nat /\ g[x] = f[x]
  PROVE  SumOver(g, S) = SumOver(f, S)
<1>1. Units(f, S) = Units(g, S)
  BY DEF Units
<1> QED
  BY <1>1, SumCounts

\* The value of one element is changed.
THEOREM SumChanged ==
  ASSUME NEW f, NEW g, NEW S, IsFiniteSet(S), NEW x \in S,
         \A y \in S : f[y] \in Nat, g[x] \in Nat, \A y \in S \ {x} : g[y] = f[y]
  PROVE  SumOver(g, S) = SumOver(f, S) - f[x] + g[x]
<1>1. IsFiniteSet(S \ {x}) /\ \A y \in S : g[y] \in Nat
  BY FS_RemoveElement
<1>2. SumOver(f, S) = SumOver(f, S \ {x}) + f[x]
  BY SumWithout
<1>3. SumOver(g, S) = SumOver(g, S \ {x}) + g[x]
  BY <1>1, SumWithout
<1>4. SumOver(g, S \ {x}) = SumOver(f, S \ {x}) /\ SumOver(f, S \ {x}) \in Nat
  BY <1>1, SumSame, SumType
<1> QED
  BY <1>2, <1>3, <1>4

\* Values up to b sum to at most b for each element.
THEOREM SumBound ==
  ASSUME NEW f, NEW S, IsFiniteSet(S), NEW b \in Nat, \A x \in S : f[x] \in 0..b
  PROVE  SumOver(f, S) <= Cardinality(S) * b
<1>1. \A x \in S : f[x] \in Nat
  OBVIOUS
<1>2. Units(f, S) \in SUBSET (S \X (1..b))
  BY DEF Units
<1>3. IsFiniteSet(1..b) /\ Cardinality(1..b) = b
  BY FS_Interval
<1>4. IsFiniteSet(S \X (1..b)) /\ Cardinality(S \X (1..b)) = Cardinality(S) * b
  BY <1>3, FS_Product
<1> QED
  BY <1>1, <1>2, <1>4, SumCounts, FS_Subset

\* Two sets that have nothing in common.
THEOREM SumDisjoint ==
  ASSUME NEW f, NEW S, IsFiniteSet(S), NEW T, IsFiniteSet(T), S \cap T = {},
         \A x \in S \cup T : f[x] \in Nat
  PROVE  SumOver(f, S \cup T) = SumOver(f, S) + SumOver(f, T)
<1>1. IsFiniteSet(S \cup T)
  BY FS_Union
<1>2. Units(f, S \cup T) = Units(f, S) \cup Units(f, T)
  BY DEF Units
<1>3. Units(f, S) \cap Units(f, T) = {}
  BY DEF Units
<1>4. IsFiniteSet(Units(f, S)) /\ IsFiniteSet(Units(f, T))
  BY UnitsFinite
<1> DEFINE U == Units(f, S)
           V == Units(f, T)
<1>5. /\ SumOver(f, S \cup T) = Cardinality(U \cup V)
      /\ SumOver(f, S) = Cardinality(U) /\ SumOver(f, T) = Cardinality(V)
  BY <1>1, <1>2, SumCounts
<1> HIDE DEF U, V
<1>6. Cardinality(U \cup V) = Cardinality(U) + Cardinality(V) - Cardinality(U \cap V)
  BY <1>4, FS_Union DEF U, V
<1>7. Cardinality(U \cap V) = 0
  BY <1>3, FS_EmptySet DEF U, V
<1>8. Cardinality(U) \in Nat /\ Cardinality(V) \in Nat
  BY <1>4, FS_CardinalityType DEF U, V
<1> QED
  BY <1>5, <1>6, <1>7, <1>8

\* A sum is 0 when all its values are.
THEOREM SumZero ==
  ASSUME NEW f, NEW S, IsFiniteSet(S), \A x \in S : f[x] = 0
  PROVE  SumOver(f, S) = 0
<1>1. Units(f, S) = {}
  BY DEF Units
<1> QED
  BY <1>1, SumCounts, FS_EmptySet

\* Counting is summing ones.
THEOREM SumOfOnes ==
  ASSUME NEW S, IsFiniteSet(S)
  PROVE  SumOver([x \in S |-> 1], S) = Cardinality(S)
<1> DEFINE ones == [x \in S |-> 1]
<1>1. \A x \in S : ones[x] \in Nat
  OBVIOUS
<1>2. Units(ones, S) = S \X (1..1)
  BY DEF Units
<1> HIDE DEF ones
<1>3. SumOver(ones, S) = Cardinality(S \X (1..1))
  BY <1>1, <1>2, SumCounts
<1>4. IsFiniteSet(1..1) /\ Cardinality(1..1) = 1
  <2>1. 1..1 = {1}
    OBVIOUS
  <2> QED
    BY <2>1, FS_Singleton
<1>5. Cardinality(S \X (1..1)) = Cardinality(S) * 1
  BY <1>4, FS_Product
<1>6. Cardinality(S) \in Nat
  BY FS_CardinalityType
<1>7. SumOver(ones, S) = Cardinality(S)
  BY <1>3, <1>5, <1>6
<1> QED
  BY <1>7 DEF ones

\* The part of a set that g maps to v, and the sum over each part.
Part(g, S, v) == {x \in S : g[x] = v}
PartSums(f, g, S, V) == [v \in V |-> SumOver(f, Part(g, S, v))]

\* One element more goes to one part.
LEMMA PartSumsWithout ==
  ASSUME NEW f, NEW g, NEW S, IsFiniteSet(S), \A x \in S : f[x] \in Nat,
         NEW V, IsFiniteSet(V), NEW x \in S, g[x] \in V
  PROVE  SumOver(PartSums(f, g, S, V), V) = SumOver(PartSums(f, g, S \ {x}, V), V) + f[x]
<1> DEFINE a == PartSums(f, g, S \ {x}, V)
           b == PartSums(f, g, S, V)
<1>1. ASSUME NEW v \in V
      PROVE  /\ IsFiniteSet(Part(g, S, v)) /\ IsFiniteSet(Part(g, S \ {x}, v))
             /\ SumOver(f, Part(g, S, v)) \in Nat /\ SumOver(f, Part(g, S \ {x}, v)) \in Nat
  <2>1. Part(g, S, v) \subseteq S /\ Part(g, S \ {x}, v) \subseteq S
    BY DEF Part
  <2>2. IsFiniteSet(Part(g, S, v)) /\ IsFiniteSet(Part(g, S \ {x}, v))
    BY <2>1, FS_Subset
  <2> QED
    BY <2>1, <2>2, SumType
<1>2. \A v \in V : a[v] \in Nat /\ b[v] \in Nat
  BY <1>1 DEF PartSums
<1>3. \A v \in V \ {g[x]} : b[v] = a[v]
  <2>1. \A v \in V \ {g[x]} : Part(g, S, v) = Part(g, S \ {x}, v)
    BY DEF Part
  <2> QED
    BY <2>1 DEF PartSums
<1>4. b[g[x]] = a[g[x]] + f[x]
  <2> DEFINE P == Part(g, S, g[x])
  <2>1. x \in P /\ P \subseteq S /\ P \ {x} = Part(g, S \ {x}, g[x])
    BY DEF Part
  <2>2. IsFiniteSet(P)
    BY <2>1, FS_Subset
  <2> HIDE DEF P
  <2>3. SumOver(f, P) = SumOver(f, P \ {x}) + f[x]
    BY <2>1, <2>2, SumWithout
  <2> QED
    BY <2>1, <2>3 DEF PartSums, P
<1> HIDE DEF a, b
<1>5. SumOver(b, V) = SumOver(a, V) - a[g[x]] + b[g[x]]
  BY <1>2, <1>3, SumChanged
<1>6. SumOver(a, V) \in Nat
  BY <1>2, SumType
<1>7. SumOver(b, V) = SumOver(a, V) + f[x]
  BY <1>2, <1>4, <1>5, <1>6
<1> QED
  BY <1>7 DEF a, b

\* A sum is the sum of the sums over its parts: the smallest set for which it were not
\* is not empty, and has an element without which it would be.
THEOREM SumByParts ==
  ASSUME NEW f, NEW g, NEW S, IsFiniteSet(S), \A x \in S : f[x] \in Nat,
         NEW V, IsFiniteSet(V), \A x \in S : g[x] \in V
  PROVE  SumOver(PartSums(f, g, S, V), V) = SumOver(f, S)
<1> DEFINE D == {s \in SUBSET S : SumOver(PartSums(f, g, s, V), V) # SumOver(f, s)}
           R == StrictSubsetOrdering(S)
<1>1. IsWellFoundedOn(R, SUBSET S)
  BY FS_StrictSubsetOrderingWellFounded, FS_FiniteSubsetsOfFinite
<1>2. ASSUME D # {} PROVE FALSE
  <2>1. PICK s \in D : \A t \in D : <<t, s>> \notin R
    <3>1. D \subseteq SUBSET S
      OBVIOUS
    <3> HIDE DEF D, R
    <3> QED
      BY <1>1, <1>2, <3>1, WFMin
  <2>2. IsFiniteSet(s) /\ s \subseteq S
    BY FS_Subset
  <2>3. CASE s = {}
    <3>1. \A v \in V : PartSums(f, g, s, V)[v] = 0
      <4>1. \A v \in V : Part(g, s, v) = {}
        BY <2>3 DEF Part
      <4> QED
        BY <4>1, SumEmpty DEF PartSums
    <3>2. SumOver(PartSums(f, g, s, V), V) = 0
      BY <3>1, SumZero
    <3> QED
      BY <2>3, <3>2, SumEmpty
  <2>4. CASE s # {}
    <3>1. PICK x \in s : TRUE
      BY <2>4
    <3>2. s \ {x} \in SUBSET S /\ <<s \ {x}, s>> \in R
      BY <2>2 DEF StrictSubsetOrdering
    <3>3. SumOver(PartSums(f, g, s \ {x}, V), V) = SumOver(f, s \ {x})
      BY <2>1, <3>2
    <3>4. SumOver(f, s) = SumOver(f, s \ {x}) + f[x]
      BY <2>2, SumWithout
    <3>5. SumOver(PartSums(f, g, s, V), V) = SumOver(PartSums(f, g, s \ {x}, V), V) + f[x]
      BY <2>2, PartSumsWithout
    <3> QED
      BY <3>3, <3>4, <3>5
  <2> QED
    BY <2>3, <2>4
<1> QED
  BY <1>2

============================================================================
