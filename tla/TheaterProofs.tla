--------------------------- MODULE TheaterProofs ---------------------------
(***************************************************************************)
(* What the theater, the evaluator and the screens compute from the rows of *)
(* a run, for any number of students and of rows: lemmas that StageProofs  *)
(* needs when it compares what the pages say.  Sums and sorted sequences   *)
(* are defined by recursion over a set; here they are counted: a sum is    *)
(* the number of its units (TotalCounts), and the sequence that is sorted  *)
(* has every position once (SortedIsOrdered).  What holds of every set is  *)
(* shown by the smallest that it would not hold of (SmallestSubset).       *)
(***************************************************************************)
EXTENDS Screens, FiniteSetTheorems, TLAPS

-----------------------------------------------------------------------------
(* Sums.                                                                    *)

\* Of the subsets of a finite set that are not as claimed, one is minimal.
LEMMA SmallestSubset ==
  ASSUME NEW S, IsFiniteSet(S), NEW Bad \in SUBSET SUBSET S, Bad # {}
  PROVE  \E T \in Bad : \A U \in Bad : U \subseteq T => U = T
<1>1. Bad \subseteq FiniteSubsetsOf(S)
  BY FS_FiniteSubsetsOfFinite
<1>2. \E T \in Bad : \A U \in Bad : <<U, T>> \notin StrictSubsetOrdering(S)
  BY <1>1, FS_StrictSubsetOrderingWellFounded, WFMin
<1> QED
  BY <1>2 DEF StrictSubsetOrdering

\* A sum of natural numbers counts pairs.
Units(value, S) == {u \in S \X Nat : 1 <= u[2] /\ u[2] <= value[u[1]]}
\* What is summed is finitely many natural numbers.
Counts(value, S) == IsFiniteSet(S) /\ \A e \in S : value[e] \in Nat

\* One more summand adds its own units.
LEMMA UnitsOfOneMore ==
  ASSUME NEW value, NEW S, Counts(value, S), NEW x \in S,
         IsFiniteSet(Units(value, S \ {x}))
  PROVE  /\ IsFiniteSet(Units(value, S))
         /\ Cardinality(Units(value, S)) = value[x] + Cardinality(Units(value, S \ {x}))
<1> DEFINE rest == Units(value, S \ {x})
           own == {x} \X (1 .. value[x])
<1>1. Units(value, S) = rest \cup own
  BY DEF Units, Counts
<1>2. IsFiniteSet(own) /\ Cardinality(own) = value[x]
  <2>1. IsFiniteSet({x}) /\ Cardinality({x}) = 1
    BY FS_Singleton
  <2>2. value[x] \in Nat
    BY DEF Counts
  <2>4. IsFiniteSet(1 .. value[x]) /\ Cardinality(1 .. value[x]) = value[x]
    BY <2>2, FS_Interval
  <2>3. IsFiniteSet(own) /\ Cardinality(own) = Cardinality({x}) * Cardinality(1 .. value[x])
    BY <2>1, <2>4, FS_Product, Zenon
  <2> QED BY <2>1, <2>2, <2>3, <2>4
<1>3. rest \cap own = {}
  BY DEF Units
<1>4. IsFiniteSet(rest \cup own)
      /\ Cardinality(rest \cup own) = Cardinality(rest) + Cardinality(own) - Cardinality(rest \cap own)
  BY <1>2, FS_Union
<1> HIDE DEF rest, own
<1>5. Cardinality(rest) \in Nat /\ Cardinality(own) \in Nat
  BY <1>2, FS_CardinalityType DEF rest
<1> QED
  <2>1. rest = Units(value, S \ {x}) /\ Cardinality(rest \cap own) = 0
    BY <1>3, FS_EmptySet DEF rest
  <2>2. value[x] \in Nat
    BY DEF Counts
  <2> QED BY <1>1, <1>2, <1>4, <1>5, <2>1, <2>2

\* Finitely many natural numbers have finitely many units.
LEMMA UnitsAreFinite ==
  ASSUME NEW value, NEW S, Counts(value, S)
  PROVE  IsFiniteSet(Units(value, S))
<1> DEFINE Bad == {T \in SUBSET S : ~IsFiniteSet(Units(value, T))}
<1> SUFFICES ASSUME Bad # {} PROVE FALSE
  OBVIOUS
<1>1. PICK T \in Bad : \A U \in Bad : U \subseteq T => U = T
  <2>1. IsFiniteSet(S) /\ Bad \in SUBSET SUBSET S
    BY DEF Counts
  <2> HIDE DEF Bad
  <2> QED BY <2>1, SmallestSubset
<1>2. Counts(value, T)
  BY FS_Subset DEF Counts
<1>3. CASE T = {}
  BY <1>3, FS_EmptySet DEF Units
<1>4. ASSUME NEW x \in T PROVE FALSE
  <2>1. T \ {x} \notin Bad
    BY <1>1
  <2> QED BY <1>2, <2>1, UnitsOfOneMore
<1> QED BY <1>3, <1>4

\* What the community modules define a sum by: h sums each subset of S.
Adds(value, S, h) ==
  h = [s \in SUBSET S |->
         IF s = {} THEN 0
         ELSE value[CHOOSE x \in s : TRUE] + h[s \ {CHOOSE x \in s : TRUE}]]

\* A sum is one of these functions, at the whole set, if there is one.
LEMMA TotalAdds ==
  ASSUME NEW S, NEW value, NEW g, Adds(value, S, g)
  PROVE  \E h : Adds(value, S, h) /\ Total(value, S) = h[S]
<1> DEFINE it == CHOOSE h : Adds(value, S, h)
<1>1. Adds(value, S, it)
  OBVIOUS
<1>2. Total(value, S) = it[S]
  BY Zenon DEF Total, SumFunctionOnSet, FoldFunctionOnSet, MapThenFoldSet, Adds
<1> QED
  BY <1>1, <1>2

\* A sum is the number of its units.  All that follows is about units.
LEMMA TotalCounts ==
  ASSUME NEW value, NEW S, Counts(value, S)
  PROVE  Total(value, S) = Cardinality(Units(value, S))
<1> DEFINE g == [s \in SUBSET S |-> Cardinality(Units(value, s))]
<1>0. \A s \in SUBSET S : Counts(value, s) /\ IsFiniteSet(Units(value, s))
  BY FS_Subset, UnitsAreFinite DEF Counts
<1>1. \A s \in SUBSET S : s # {} =>
         g[s] = value[CHOOSE x \in s : TRUE] + g[s \ {CHOOSE x \in s : TRUE}]
  <2> TAKE s \in SUBSET S
  <2> HAVE s # {}
  <2> DEFINE c == CHOOSE x \in s : TRUE
  <2>1. c \in s
    OBVIOUS
  <2> HIDE DEF c
  <2>2. s \ {c} \in SUBSET S
    OBVIOUS
  <2>3. Cardinality(Units(value, s)) = value[c] + Cardinality(Units(value, s \ {c}))
    BY <1>0, <2>1, <2>2, UnitsOfOneMore
  <2>4. g[s] = value[c] + g[s \ {c}]
    BY <2>2, <2>3
  <2> QED BY <2>4 DEF c
<1>2. g[{}] = 0
  BY FS_EmptySet DEF Units
<1>3. Adds(value, S, g)
  BY <1>1, <1>2 DEF Adds
<1>4. PICK h : Adds(value, S, h) /\ Total(value, S) = h[S]
  BY <1>3, TotalAdds
<1> HIDE DEF g
<1> DEFINE Bad == {s \in SUBSET S : h[s] # g[s]}
<1>5. Bad = {}
  <2> SUFFICES ASSUME Bad # {} PROVE FALSE
    OBVIOUS
  <2>1. PICK T \in Bad : \A U \in Bad : U \subseteq T => U = T
    <3>1. IsFiniteSet(S) /\ Bad \in SUBSET SUBSET S
      BY DEF Counts
    <3> HIDE DEF Bad
    <3> QED BY <3>1, SmallestSubset
  <2>2. T # {}
    BY <1>4, <1>2 DEF Adds
  <2> DEFINE c == CHOOSE x \in T : TRUE
  <2>3. c \in T
    BY <2>2
  <2>4. h[T] = value[c] + h[T \ {c}] /\ g[T] = value[c] + g[T \ {c}]
    BY <1>1, <1>4, <2>2 DEF Adds
  <2> HIDE DEF c
  <2>5. h[T \ {c}] = g[T \ {c}]
    BY <2>1, <2>3
  <2> QED BY <2>4, <2>5
<1> QED BY <1>4, <1>5 DEF g

\* What Total is: nothing, or one value and the rest.
LEMMA TotalOfNothing ==
  ASSUME NEW value PROVE Total(value, {}) = 0
<1>1. Counts(value, {}) /\ Units(value, {}) = {}
  BY FS_EmptySet DEF Counts, Units
<1> QED BY <1>1, TotalCounts, FS_EmptySet

\* A summand may be taken out, any of them.
LEMMA TotalOfOneMore ==
  ASSUME NEW value, NEW S, Counts(value, S), NEW x \in S
  PROVE  /\ Total(value, S) \in Nat /\ Total(value, S \ {x}) \in Nat
         /\ Total(value, S) = value[x] + Total(value, S \ {x})
<1>1. Counts(value, S \ {x})
  BY FS_Subset DEF Counts
<1>2. IsFiniteSet(Units(value, S)) /\ IsFiniteSet(Units(value, S \ {x}))
  BY <1>1, UnitsAreFinite
<1> QED
  BY <1>1, <1>2, UnitsOfOneMore, TotalCounts, FS_CardinalityType

\* A sum of natural numbers is one.
LEMMA TotalIsNatural ==
  ASSUME NEW value, NEW S, Counts(value, S) PROVE Total(value, S) \in Nat
BY UnitsAreFinite, TotalCounts, FS_CardinalityType

\* Equal summands have equal sums.
LEMMA TotalOfEqual ==
  ASSUME NEW v, NEW w, NEW S, Counts(v, S), Counts(w, S),
         \A e \in S : v[e] = w[e]
  PROVE  Total(v, S) = Total(w, S)
<1>1. Units(v, S) = Units(w, S)
  BY DEF Units
<1> QED BY <1>1, TotalCounts

\* Smaller summands have no larger sum.
LEMMA TotalOfLess ==
  ASSUME NEW v, NEW w, NEW S, Counts(v, S), Counts(w, S),
         \A e \in S : v[e] <= w[e]
  PROVE  Total(v, S) <= Total(w, S)
<1>1. Units(v, S) \subseteq Units(w, S)
  BY DEF Units, Counts
<1> QED BY <1>1, TotalCounts, UnitsAreFinite, FS_Subset

\* Who got nothing can be left out of a sum.
LEMMA TotalWithoutNothings ==
  ASSUME NEW value, NEW S, Counts(value, S), NEW T \in SUBSET S,
         \A e \in S \ T : value[e] = 0
  PROVE  Counts(value, T) /\ Total(value, S) = Total(value, T)
<1>1. Counts(value, T)
  BY FS_Subset DEF Counts
<1>2. Units(value, S) = Units(value, T)
  BY DEF Units, Counts
<1> QED BY <1>1, <1>2, TotalCounts

\* What is summed in two parts may be summed at once.
LEMMA TotalOfSum ==
  ASSUME NEW u, NEW v, NEW w, NEW S, Counts(u, S), Counts(v, S), Counts(w, S),
         \A e \in S : u[e] = v[e] + w[e]
  PROVE  Total(u, S) = Total(v, S) + Total(w, S)
<1> DEFINE Bad == {T \in SUBSET S : Total(u, T) # Total(v, T) + Total(w, T)}
<1> SUFFICES ASSUME Bad # {} PROVE FALSE
  OBVIOUS
<1>1. PICK T \in Bad : \A U \in Bad : U \subseteq T => U = T
  <2>1. IsFiniteSet(S) /\ Bad \in SUBSET SUBSET S
    BY DEF Counts
  <2> HIDE DEF Bad
  <2> QED BY <2>1, SmallestSubset
<1>2. Counts(u, T) /\ Counts(v, T) /\ Counts(w, T)
  BY FS_Subset DEF Counts
<1>3. CASE T = {}
  BY <1>3, TotalOfNothing
<1>4. ASSUME NEW x \in T PROVE FALSE
  <2>1. Total(u, T \ {x}) = Total(v, T \ {x}) + Total(w, T \ {x})
    BY <1>1
  <2>2. /\ Total(u, T) = u[x] + Total(u, T \ {x})
        /\ Total(v, T) = v[x] + Total(v, T \ {x}) /\ Total(v, T \ {x}) \in Nat
        /\ Total(w, T) = w[x] + Total(w, T \ {x}) /\ Total(w, T \ {x}) \in Nat
    BY <1>2, TotalOfOneMore
  <2>3. u[x] = v[x] + w[x] /\ v[x] \in Nat /\ w[x] \in Nat
    BY DEF Counts
  <2>4. Total(u, T) = Total(v, T) + Total(w, T)
    BY <2>1, <2>2, <2>3
  <2> QED BY <2>4
<1> QED BY <1>3, <1>4

\* A sum of ones counts.
LEMMA TotalOfOnes ==
  ASSUME NEW value, NEW S, IsFiniteSet(S), \A e \in S : value[e] = 1
  PROVE  Counts(value, S) /\ Total(value, S) = Cardinality(S)
<1>0. Counts(value, S)
  BY DEF Counts
<1> DEFINE Bad == {T \in SUBSET S : Total(value, T) # Cardinality(T)}
<1>5. Bad = {}
  <2> SUFFICES ASSUME Bad # {} PROVE FALSE
    OBVIOUS
  <2>1. PICK T \in Bad : \A U \in Bad : U \subseteq T => U = T
    <3>1. Bad \in SUBSET SUBSET S
      OBVIOUS
    <3> HIDE DEF Bad
    <3> QED BY <3>1, SmallestSubset
  <2>2. Counts(value, T) /\ IsFiniteSet(T)
    BY FS_Subset DEF Counts
  <2>3. CASE T = {}
    BY <2>3, TotalOfNothing, FS_EmptySet
  <2>4. ASSUME NEW x \in T PROVE FALSE
    <3>1. Total(value, T \ {x}) = Cardinality(T \ {x})
      BY <2>1
    <3>2. Total(value, T) = 1 + Total(value, T \ {x})
      BY <2>2, TotalOfOneMore
    <3>3. Cardinality(T \ {x}) = Cardinality(T) - 1 /\ Cardinality(T) \in Nat
      BY <2>2, FS_RemoveElement, FS_CardinalityType
    <3> QED BY <3>1, <3>2, <3>3
  <2> QED BY <2>3, <2>4
<1> QED BY <1>0, <1>5

-----------------------------------------------------------------------------
(* Sorting.                                                                 *)

\* A finite set, listed: each of its members once.
LEMMA SequenceOfSet ==
  ASSUME NEW S, IsFiniteSet(S)
  PROVE  /\ SetToSeq(S) \in [1 .. Cardinality(S) -> S]
         /\ IsInjective(SetToSeq(S))
         /\ \A x \in S : \E i \in 1 .. Cardinality(S) : SetToSeq(S)[i] = x
<1>1. Cardinality(S) \in Nat /\ ExistsBijection(1 .. Cardinality(S), S)
  BY FS_CardinalityType
<1>2. \E f \in [1 .. Cardinality(S) -> S] : IsInjective(f)
  BY <1>1 DEF ExistsBijection, Bijection, Injection
<1>3. SetToSeq(S) \in [1 .. Cardinality(S) -> S] /\ IsInjective(SetToSeq(S))
  BY <1>2 DEF SetToSeq
<1>4. SetToSeq(S) \in Injection(1 .. Cardinality(S), S)
  BY <1>3 DEF Injection
<1>5. IsFiniteSet(1 .. Cardinality(S)) /\ Cardinality(1 .. Cardinality(S)) = Cardinality(S)
  BY <1>1, FS_Interval
<1>6. SetToSeq(S) \in Surjection(1 .. Cardinality(S), S)
  BY <1>4, <1>5, FS_Injection
<1> QED BY <1>3, <1>6 DEF Surjection

\* Positions in order: each once, ascending.
LEMMA SortedIsOrdered ==
  ASSUME NEW S \in SUBSET Nat, IsFiniteSet(S)
  PROVE  LET s == Sorted(S)
             n == Cardinality(S)
         IN  /\ n \in Nat /\ s \in [1 .. n -> S]
             /\ \A j, k \in 1 .. n : j < k => s[j] < s[k]
             /\ \A x \in S : \E k \in 1 .. n : s[k] = x
<1> DEFINE n == Cardinality(S)
           Up(p) == {q \in S : q <= p}
           rank == [p \in S |-> Cardinality(Up(p))]
<1>0. n \in Nat
  BY FS_CardinalityType
<1>1. \A p \in S : IsFiniteSet(Up(p)) /\ Cardinality(Up(p)) \in 1 .. n
  <2> TAKE p \in S
  <2>1. IsFiniteSet(Up(p)) /\ Cardinality(Up(p)) <= n
    BY FS_Subset
  <2>2. Cardinality(Up(p)) \in Nat /\ Cardinality(Up(p)) # 0
    <3>1. p \in Up(p)
      OBVIOUS
    <3> HIDE DEF Up
    <3> QED BY <2>1, <3>1, FS_CardinalityType, FS_EmptySet
  <2> QED BY <1>0, <2>1, <2>2
<1>2. \A p, q \in S : p < q => rank[p] < rank[q]
  <2> TAKE p, q \in S
  <2> HAVE p < q
  <2>1. Up(p) \in SUBSET Up(q) /\ Up(p) # Up(q)
    <3>1. p \in Nat /\ q \in Nat /\ \A x \in S : x \in Nat
      OBVIOUS
    <3>2. q \in Up(q) /\ q \notin Up(p)
      BY <3>1
    <3>3. \A x \in Up(p) : x \in Up(q)
      BY <3>1
    <3> QED BY <3>2, <3>3
  <2>2. Cardinality(Up(p)) <= Cardinality(Up(q)) /\ Cardinality(Up(p)) # Cardinality(Up(q))
    BY <1>1, <2>1, FS_Subset
  <2> QED BY <1>1, <2>2
<1>3. rank \in [S -> 1 .. n]
  BY <1>1
<1> HIDE DEF rank, Up
<1>4. rank \in Injection(S, 1 .. n)
  BY <1>2, <1>3 DEF Injection, IsInjective
<1>5. IsFiniteSet(1 .. n) /\ Cardinality(1 .. n) = n
  BY <1>0, FS_Interval
<1>6. rank \in Surjection(S, 1 .. n)
  BY <1>4, <1>5, FS_Injection
<1> DEFINE at == [k \in 1 .. n |-> CHOOSE p \in S : rank[p] = k]
<1>7. \A k \in 1 .. n : at[k] \in S /\ rank[at[k]] = k
  BY <1>6 DEF Surjection
<1>8. at \in [1 .. n -> S] /\ \A j, k \in 1 .. n : j < k => at[j] < at[k]
  <2>1. at \in [1 .. n -> S]
    BY <1>7
  <2>2. ASSUME NEW j \in 1 .. n, NEW k \in 1 .. n, j < k PROVE at[j] < at[k]
    <3>1. at[j] \in S /\ at[k] \in S /\ rank[at[j]] = j /\ rank[at[k]] = k
      BY <1>7
    <3> HIDE DEF at
    <3>5. j \in Nat /\ k \in Nat
      BY <1>0
    <3>6. \A x \in S : x \in Nat
      OBVIOUS
    <3>2. j \in Nat /\ k \in Nat /\ at[j] \in Nat /\ at[k] \in Nat
      BY <3>1, <3>5, <3>6
    <3>3. at[k] # at[j]
      BY <2>2, <3>1, <3>2
    <3>4. ~(at[k] < at[j])
      <4>1. at[k] < at[j] => rank[at[k]] < rank[at[j]]
        BY <1>2, <3>1
      <4> QED BY <2>2, <3>1, <3>2, <4>1
    <3> QED BY <3>2, <3>3, <3>4
  <2> QED BY <2>1, <2>2
<1> HIDE DEF at
<1>9. Sorted(S) \in [1 .. n -> S] /\ \A j, k \in 1 .. n : j < k => Sorted(S)[j] < Sorted(S)[k]
  BY <1>8 DEF Sorted
<1>10. Sorted(S) \in Injection(1 .. n, S)
  <2>1. ASSUME NEW j \in 1 .. n, NEW k \in 1 .. n, j # k PROVE Sorted(S)[j] # Sorted(S)[k]
    <3>1. j < k \/ k < j
      BY <1>0, <2>1
    <3>2. Sorted(S)[j] \in Nat /\ Sorted(S)[k] \in Nat
      BY <1>9
    <3> QED BY <1>9, <3>1, <3>2
  <2> QED BY <1>9, <2>1 DEF Injection, IsInjective
<1>11. Sorted(S) \in Surjection(1 .. n, S)
  BY <1>5, <1>10, FS_Injection
<1>12. \A x \in S : \E k \in 1 .. n : Sorted(S)[k] = x
  BY <1>11 DEF Surjection
<1> QED BY <1>0, <1>9, <1>12

-----------------------------------------------------------------------------
(* Rows and what is counted of them.                                        *)

\* The deliveries of a run as the API lists them.
Rows == Seq(DeliveryRows)

\* Among finitely many positions one is the first.
LEMMA SmallestPosition ==
  ASSUME NEW S \in SUBSET Nat, IsFiniteSet(S), S # {}
  PROVE  \E i \in S : \A j \in S : i <= j
<1>1. LET s == Sorted(S)
          n == Cardinality(S)
      IN  /\ n \in Nat /\ s \in [1 .. n -> S]
          /\ \A j, k \in 1 .. n : j < k => s[j] < s[k]
          /\ \A x \in S : \E k \in 1 .. n : s[k] = x
  BY SortedIsOrdered, Zenon
<1>2. Cardinality(S) # 0
  BY FS_EmptySet
<1>3. Cardinality(S) \in Nat /\ 1 \in 1 .. Cardinality(S) /\ Sorted(S)[1] \in S
  BY <1>1, <1>2
<1>4. ASSUME NEW x \in S PROVE Sorted(S)[1] <= x
  <2>1. PICK k \in 1 .. Cardinality(S) : Sorted(S)[k] = x
    BY <1>1
  <2>2. k = 1 \/ Sorted(S)[1] < Sorted(S)[k]
    <3>1. k = 1 \/ 1 < k
      BY <1>3
    <3> QED BY <1>1, <1>3, <3>1
  <2>3. \A y \in S : y \in Nat
    OBVIOUS
  <2>4. Sorted(S)[1] \in Nat /\ x \in Nat
    BY <1>3, <2>3
  <2> QED BY <2>1, <2>2, <2>4
<1> QED BY <1>3, <1>4

\* What a row is.
LEMMA RowsAreTyped ==
  ASSUME NEW rows \in Rows
  PROVE  /\ DOMAIN rows = 1 .. Len(rows) /\ Len(rows) \in Nat
         /\ \A i \in DOMAIN rows : rows[i].entitlement \in Entitlements /\ rows[i].outcome \in RowOutcomes
<1>1. DOMAIN rows = 1 .. Len(rows) /\ Len(rows) \in Nat /\ \A i \in 1 .. Len(rows) : rows[i] \in DeliveryRows
  BY DEF Rows
<1> QED BY <1>1 DEF DeliveryRows

\* Two sets without a common member, counted together.
LEMMA DisjointUnion ==
  ASSUME NEW S, NEW T, IsFiniteSet(S), IsFiniteSet(T), S \cap T = {}
  PROVE  IsFiniteSet(S \cup T) /\ Cardinality(S \cup T) = Cardinality(S) + Cardinality(T)
<1>1. Cardinality(S) \in Nat /\ Cardinality(T) \in Nat /\ Cardinality(S \cap T) = 0
  BY FS_CardinalityType, FS_EmptySet
<1>2. IsFiniteSet(S \cup T)
      /\ Cardinality(S \cup T) = Cardinality(S) + Cardinality(T) - Cardinality(S \cap T)
  BY FS_Union
<1> QED BY <1>1, <1>2

\* A list has finitely many positions.
LEMMA PositionsAreFinite ==
  ASSUME NEW rows \in Rows, NEW P \in SUBSET DOMAIN rows
  PROVE  /\ DOMAIN rows = 1 .. Len(rows) /\ Len(rows) \in Nat
         /\ P \in SUBSET Nat /\ IsFiniteSet(P) /\ Cardinality(P) \in Nat
<1>1. DOMAIN rows = 1 .. Len(rows) /\ Len(rows) \in Nat
  BY DEF Rows
<1>2. IsFiniteSet(1 .. Len(rows))
  BY <1>1, FS_Interval
<1>3. IsFiniteSet(P)
  BY <1>1, <1>2, FS_Subset
<1> QED BY <1>1, <1>3, FS_CardinalityType

\* How often a student was paid, and that it is 0 when no payment is listed.
LEMMA PaidIsNatural ==
  ASSUME NEW rows \in Rows, NEW e
  PROVE  /\ Paid(rows, e) \in Nat
         /\ Paid(rows, e) = 0 <=> RowsOf(rows, e, "COMMITTED") = {}
<1>1. RowsOf(rows, e, "COMMITTED") \in SUBSET DOMAIN rows
  BY DEF RowsOf
<1>2. IsFiniteSet(RowsOf(rows, e, "COMMITTED")) /\ Cardinality(RowsOf(rows, e, "COMMITTED")) \in Nat
  BY <1>1, PositionsAreFinite
<1> QED BY <1>2, FS_EmptySet DEF Paid

\* Every row has one of three outcomes, so the bars of the outcomes make up the whole.
LEMMA OutcomesAddUp ==
  ASSUME NEW rows \in Rows
  PROVE  /\ \A o \in RowOutcomes : Cardinality(WithOutcome(rows, o)) \in Nat
         /\ Cardinality(WithOutcome(rows, "COMMITTED"))
            + Cardinality(WithOutcome(rows, "DUPLICATE_SUPPRESSED"))
            + Cardinality(WithOutcome(rows, "BUDGET_EXHAUSTED")) = Len(rows)
<1> DEFINE c == WithOutcome(rows, "COMMITTED")
           d == WithOutcome(rows, "DUPLICATE_SUPPRESSED")
           b == WithOutcome(rows, "BUDGET_EXHAUSTED")
<1>1. c \in SUBSET DOMAIN rows /\ d \in SUBSET DOMAIN rows /\ b \in SUBSET DOMAIN rows
  BY DEF WithOutcome
<1>2. c \cap d = {} /\ (c \cup d) \cap b = {}
  BY DEF WithOutcome
<1>3. c \cup d \cup b = DOMAIN rows
  BY RowsAreTyped DEF WithOutcome, RowOutcomes
<1> HIDE DEF c, d, b
<1>4. /\ IsFiniteSet(c) /\ IsFiniteSet(d) /\ IsFiniteSet(b)
      /\ Cardinality(c) \in Nat /\ Cardinality(d) \in Nat /\ Cardinality(b) \in Nat
  BY <1>1, PositionsAreFinite
<1>5. IsFiniteSet(c \cup d) /\ Cardinality(c \cup d) = Cardinality(c) + Cardinality(d)
  BY <1>2, <1>4, DisjointUnion
<1>6. Cardinality(c \cup d \cup b) = Cardinality(c) + Cardinality(d) + Cardinality(b)
  <2>1. Cardinality(c \cup d \cup b) = Cardinality(c \cup d) + Cardinality(b)
    BY <1>2, <1>4, <1>5, DisjointUnion
  <2> QED BY <1>5, <2>1
<1>7. Cardinality(DOMAIN rows) = Len(rows)
  <2>1. DOMAIN rows = 1 .. Len(rows) /\ Len(rows) \in Nat
    BY RowsAreTyped
  <2>2. \A n \in Nat : Cardinality(1 .. n) = n
    BY FS_Interval
  <2> QED BY <2>1, <2>2
<1> QED BY <1>3, <1>4, <1>6, <1>7 DEF c, d, b, RowOutcomes

\* Each payment is one student's: what the students received is what was paid.
LEMMA PaymentsCount ==
  ASSUME NEW rows \in Rows, NEW f, \A e \in Entitlements : f[e] = Paid(rows, e)
  PROVE  /\ Counts(f, Entitlements)
         /\ Total(f, Entitlements) = Cardinality(WithOutcome(rows, "COMMITTED"))
<1>0. Counts(f, Entitlements)
  BY TheaterAssumption, PaidIsNatural DEF Counts
<1> DEFINE Of(T) == {i \in WithOutcome(rows, "COMMITTED") : rows[i].entitlement \in T}
           Bad == {T \in SUBSET Entitlements : Total(f, T) # Cardinality(Of(T))}
<1>1. Bad = {}
  <2> SUFFICES ASSUME Bad # {} PROVE FALSE
    OBVIOUS
  <2>1. PICK T \in Bad : \A U \in Bad : U \subseteq T => U = T
    <3>1. Bad \in SUBSET SUBSET Entitlements /\ IsFiniteSet(Entitlements)
      BY TheaterAssumption
    <3> HIDE DEF Bad
    <3> QED BY <3>1, SmallestSubset
  <2>2. Counts(f, T)
    BY <1>0, FS_Subset DEF Counts
  <2>3. CASE T = {}
    BY <2>3, TotalOfNothing, FS_EmptySet
  <2>4. ASSUME NEW x \in T PROVE FALSE
    <3>1. Total(f, T \ {x}) = Cardinality(Of(T \ {x}))
      BY <2>1
    <3>2. Total(f, T) = Cardinality(RowsOf(rows, x, "COMMITTED")) + Total(f, T \ {x})
      BY <2>2, TotalOfOneMore DEF Paid
    <3>3. /\ Of(T) = Of(T \ {x}) \cup RowsOf(rows, x, "COMMITTED")
          /\ Of(T \ {x}) \cap RowsOf(rows, x, "COMMITTED") = {}
      BY DEF RowsOf, WithOutcome
    <3>4. /\ Of(T \ {x}) \in SUBSET DOMAIN rows
          /\ RowsOf(rows, x, "COMMITTED") \in SUBSET DOMAIN rows
      BY DEF RowsOf, WithOutcome
    <3> HIDE DEF Of
    <3>5. /\ IsFiniteSet(Of(T \ {x})) /\ Cardinality(Of(T \ {x})) \in Nat
          /\ IsFiniteSet(RowsOf(rows, x, "COMMITTED"))
          /\ Cardinality(RowsOf(rows, x, "COMMITTED")) \in Nat
      BY <3>4, PositionsAreFinite
    <3>6. Cardinality(Of(T)) = Cardinality(Of(T \ {x})) + Cardinality(RowsOf(rows, x, "COMMITTED"))
      BY <3>3, <3>5, DisjointUnion
    <3>7. Total(f, T) = Cardinality(Of(T))
      BY <3>1, <3>2, <3>5, <3>6
    <3> QED BY <2>1, <3>7
  <2> QED BY <2>3, <2>4
<1>2. Of(Entitlements) = WithOutcome(rows, "COMMITTED")
  BY RowsAreTyped DEF WithOutcome
<1> QED BY <1>0, <1>1, <1>2

-----------------------------------------------------------------------------
(* The theater beside the evaluation.                                       *)

\* Once the run is evaluated, a grid that counts rows and one that the backend
\* made are the same: who was not paid was refused.
LEMMA UnpaidWereRefused ==
  ASSUME NEW rows \in Rows, Resolved(rows), NEW e \in Entitlements, Paid(rows, e) = 0
  PROVE  Refused(rows, e)
<1>1. PICK i \in DOMAIN rows : rows[i].entitlement = e
  BY DEF Resolved
<1>2. RowsOf(rows, e, "COMMITTED") = {}
  BY PaidIsNatural
<1>3. rows[i].outcome # "COMMITTED"
  BY <1>1, <1>2 DEF RowsOf
<1>4. rows[i].outcome # "DUPLICATE_SUPPRESSED"
  <2> SUFFICES ASSUME rows[i].outcome = "DUPLICATE_SUPPRESSED" PROVE FALSE
    OBVIOUS
  <2>1. Paid(rows, e) > 0
    BY <1>1 DEF Resolved, WithOutcome
  <2> QED BY <2>1
<1>5. rows[i].outcome = "BUDGET_EXHAUSTED"
  BY <1>3, <1>4, RowsAreTyped DEF RowOutcomes
<1> QED BY <1>1, <1>5 DEF Refused, RowsOf

\* When all rows are there the browser's tiles are the backend's, whichever rows they
\* are.
LEMMA TilesAreTheBackends ==
  ASSUME NEW rows \in Rows, Resolved(rows)
  PROVE  [e \in Entitlements |-> tileState(Paid(rows, e), Refused(rows, e))] = studentTiles(rows, TRUE)
<1>1. ASSUME NEW e \in Entitlements
      PROVE  tileState(Paid(rows, e), Refused(rows, e)) = stateFor(Paid(rows, e), Refused(rows, e), TRUE)
  BY UnpaidWereRefused, PaidIsNatural DEF tileState, stateFor
<1> QED BY <1>1 DEF studentTiles

\* What the tiles of an evaluated run are.
LEMMA TilesOfPayments ==
  ASSUME NEW rows \in Rows, NEW e \in Entitlements
  PROVE  LET t == studentTiles(rows, TRUE)[e]
         IN  /\ t = "paid_twice" <=> Paid(rows, e) > 1
             /\ t = "paid_once" <=> Paid(rows, e) = 1
             /\ t = "unpaid" <=> Paid(rows, e) = 0
             /\ t # "pending"
BY PaidIsNatural DEF studentTiles, stateFor

\* The legend, and who was paid twice or not at all, are what the evaluator says.
LEMMA CountsOfPayments ==
  ASSUME NEW rows \in Rows
  PROVE  LET t == studentTiles(rows, TRUE)
             s == evaluate(rows)
         IN  /\ In(t, "paid_twice") = s.double_paid_ids
             /\ In(t, "unpaid") = s.unpaid_ids
             /\ In(t, "pending") = {}
             /\ countStates(t) = [paid_once |-> s.paid_once, paid_twice |-> s.double_paid,
                                  unpaid |-> s.unpaid, pending |-> 0]
<1> DEFINE t == studentTiles(rows, TRUE)
           s == evaluate(rows)
<1>1. /\ In(t, "paid_twice") = {e \in Entitlements : Paid(rows, e) > 1}
      /\ In(t, "unpaid") = {e \in Entitlements : Paid(rows, e) = 0}
      /\ In(t, "paid_once") = {e \in Entitlements : Paid(rows, e) = 1}
      /\ In(t, "pending") = {}
  BY TilesOfPayments DEF In
<1>2. /\ s.double_paid_ids = In(t, "paid_twice") /\ s.double_paid = Cardinality(In(t, "paid_twice"))
      /\ s.unpaid_ids = In(t, "unpaid") /\ s.unpaid = Cardinality(In(t, "unpaid"))
      /\ s.paid_once = Cardinality(In(t, "paid_once"))
  BY <1>1 DEF evaluate
<1> HIDE DEF t, s
<1>3. countStates(t) = [paid_once |-> Cardinality(In(t, "paid_once")),
                        paid_twice |-> Cardinality(In(t, "paid_twice")),
                        unpaid |-> Cardinality(In(t, "unpaid")), pending |-> Cardinality(In(t, "pending"))]
  BY DEF countStates, TileStates
<1> QED BY <1>1, <1>2, <1>3, FS_EmptySet DEF t, s

\* Every payment is the first to somebody or repeats one.
LEMMA MoneyAddsUp ==
  ASSUME NEW rows \in Rows,
         NEW first, first = [e \in Entitlements |-> IF Paid(rows, e) > 0 THEN Amount[e] ELSE 0],
         NEW repeat, repeat = [e \in Entitlements |-> Repeats(rows, e) * Amount[e]]
  PROVE  LET s == evaluate(rows)
         IN  /\ Total(first, Entitlements) \in Nat /\ Total(repeat, Entitlements) \in Nat
             /\ Total(first, Entitlements) + Total(repeat, Entitlements) = s.spent
             /\ Total(repeat, Entitlements) = s.misallocated
             /\ Total(first, Entitlements) <= TotalBudget
<1> DEFINE spent == [e \in Entitlements |-> Paid(rows, e) * Amount[e]]
           doubles == {e \in Entitlements : Paid(rows, e) > 1}
           beyond == [e \in doubles |-> (Paid(rows, e) - 1) * Amount[e]]
<1>1. IsFiniteSet(Entitlements) /\ \A e \in Entitlements : Amount[e] \in Nat /\ Paid(rows, e) \in Nat
  BY TheaterAssumption, PaidIsNatural
<1>2. \A e \in Entitlements :
         /\ first[e] \in Nat /\ repeat[e] \in Nat /\ spent[e] \in Nat
         /\ spent[e] = first[e] + repeat[e] /\ first[e] <= Amount[e]
  <2> TAKE e \in Entitlements
  <2>1. CASE Paid(rows, e) > 1
    <3>1. Repeats(rows, e) = Paid(rows, e) - 1
      BY <1>1, <2>1 DEF Repeats, Less
    <3>2. first[e] = Amount[e] /\ repeat[e] = (Paid(rows, e) - 1) * Amount[e]
      BY <1>1, <2>1, <3>1
    <3>3. \A n, m \in Nat : n > 1 => n * m = m + (n - 1) * m /\ (n - 1) * m \in Nat /\ n * m \in Nat
      OBVIOUS
    <3> QED BY <1>1, <2>1, <3>2, <3>3
  <2>2. CASE Paid(rows, e) = 1
    <3>1. Repeats(rows, e) = 0
      BY <2>2 DEF Repeats, Less
    <3>2. first[e] = Amount[e] /\ repeat[e] = 0 * Amount[e] /\ spent[e] = 1 * Amount[e]
      BY <2>2, <3>1
    <3>3. \A m \in Nat : 0 * m = 0 /\ 1 * m = m
      OBVIOUS
    <3> QED BY <1>1, <3>2, <3>3
  <2>3. CASE Paid(rows, e) = 0
    BY <1>1, <2>3 DEF Repeats, Less
  <2>4. Paid(rows, e) > 1 \/ Paid(rows, e) = 1 \/ Paid(rows, e) = 0
    BY <1>1
  <2> HIDE DEF spent
  <2> QED BY <2>1, <2>2, <2>3, <2>4, Zenon
<1>3. doubles \in SUBSET Entitlements /\ \A e \in Entitlements \ doubles : repeat[e] = 0
  BY <1>1 DEF Repeats, Less
<1>4. \A e \in doubles : beyond[e] = repeat[e]
  BY <1>1 DEF Repeats, Less
<1>5. /\ evaluate(rows).spent = Total(spent, Entitlements)
      /\ evaluate(rows).misallocated = Total(beyond, doubles)
  BY DEF evaluate
<1> HIDE DEF spent, doubles, beyond
<1>6. Counts(first, Entitlements) /\ Counts(repeat, Entitlements) /\ Counts(spent, Entitlements)
      /\ Counts(Amount, Entitlements)
  BY <1>1, <1>2 DEF Counts
<1>7. Counts(repeat, doubles) /\ Total(repeat, Entitlements) = Total(repeat, doubles)
  BY <1>3, <1>6, TotalWithoutNothings
<1>8. Counts(beyond, doubles)
  BY <1>4, <1>7 DEF Counts
<1>9. Total(repeat, doubles) = Total(beyond, doubles)
  BY <1>4, <1>7, <1>8, TotalOfEqual
<1>10. Total(spent, Entitlements) = Total(first, Entitlements) + Total(repeat, Entitlements)
  BY <1>2, <1>6, TotalOfSum
<1>11. Total(first, Entitlements) <= TotalBudget
  BY <1>2, <1>6, TotalOfLess, TheaterAssumption DEF Total
<1> QED BY <1>5, <1>6, <1>7, <1>9, <1>10, <1>11, TotalIsNatural

\* Everybody was paid once, twice or not at all, which the evaluator counts apart.
LEMMA StudentsAddUp ==
  ASSUME NEW rows \in Rows
  PROVE  LET s == evaluate(rows)
         IN  /\ s.double_paid_ids \in SUBSET Entitlements /\ s.unpaid_ids \in SUBSET Entitlements
             /\ s.double_paid \in Nat /\ (s.double_paid = 0 <=> s.double_paid_ids = {})
             /\ s.unpaid \in Nat /\ (s.unpaid = 0 <=> s.unpaid_ids = {})
             /\ s.paid_once \in Nat /\ s.ledger_effects \in Nat
             /\ s.paid_once + s.double_paid + s.unpaid = s.eligible
             /\ s.paid_once + s.double_paid = Cardinality({e \in Entitlements : Paid(rows, e) > 0})
<1> DEFINE once == {e \in Entitlements : Paid(rows, e) = 1}
           twice == {e \in Entitlements : Paid(rows, e) > 1}
           never == {e \in Entitlements : Paid(rows, e) = 0}
           paid == {e \in Entitlements : Paid(rows, e) > 0}
<1>1. /\ evaluate(rows).double_paid_ids = twice /\ evaluate(rows).double_paid = Cardinality(twice)
      /\ evaluate(rows).unpaid_ids = never /\ evaluate(rows).unpaid = Cardinality(never)
      /\ evaluate(rows).paid_once = Cardinality(once)
      /\ evaluate(rows).eligible = Cardinality(Entitlements)
      /\ evaluate(rows).ledger_effects = Cardinality(WithOutcome(rows, "COMMITTED"))
  BY DEF evaluate
<1>2. /\ once \cap twice = {} /\ once \cup twice = paid
      /\ paid \cap never = {} /\ paid \cup never = Entitlements
  BY PaidIsNatural
<1>3. once \in SUBSET Entitlements /\ twice \in SUBSET Entitlements /\ never \in SUBSET Entitlements
      /\ paid \in SUBSET Entitlements
  OBVIOUS
<1> HIDE DEF once, twice, never, paid
<1>4. /\ IsFiniteSet(once) /\ IsFiniteSet(twice) /\ IsFiniteSet(never) /\ IsFiniteSet(paid)
      /\ Cardinality(once) \in Nat /\ Cardinality(twice) \in Nat /\ Cardinality(never) \in Nat
  BY <1>3, FS_Subset, FS_CardinalityType, TheaterAssumption
<1>5. Cardinality(paid) = Cardinality(once) + Cardinality(twice)
  BY <1>2, <1>4, DisjointUnion
<1>6. Cardinality(Entitlements) = Cardinality(paid) + Cardinality(never)
  BY <1>2, <1>4, DisjointUnion
<1>7. /\ Cardinality(twice) = 0 <=> twice = {}
      /\ Cardinality(never) = 0 <=> never = {}
  BY <1>4, FS_EmptySet
<1>8. evaluate(rows).ledger_effects \in Nat
  BY <1>1, OutcomesAddUp DEF RowOutcomes
<1> QED BY <1>1, <1>3, <1>4, <1>5, <1>6, <1>7, <1>8 DEF paid

\* The repeats of the single students are the payments beyond one for each who was paid.
LEMMA RepeatsAddUp ==
  ASSUME NEW rows \in Rows,
         NEW repeated, repeated = [e \in Entitlements |-> Repeats(rows, e)]
  PROVE  LET s == evaluate(rows)
         IN  /\ Total(repeated, Entitlements) \in Nat
             /\ Total(repeated, Entitlements) = Less(s.ledger_effects, s.paid_once + s.double_paid)
<1> DEFINE one == [e \in Entitlements |-> IF Paid(rows, e) > 0 THEN 1 ELSE 0]
           all == [e \in Entitlements |-> Paid(rows, e)]
           paid == {e \in Entitlements : Paid(rows, e) > 0}
<1>1. \A e \in Entitlements :
         /\ one[e] \in Nat /\ repeated[e] \in Nat /\ all[e] \in Nat
         /\ all[e] = one[e] + repeated[e] /\ all[e] = Paid(rows, e)
  BY PaidIsNatural DEF Repeats, Less
<1>2. paid \in SUBSET Entitlements /\ (\A e \in paid : one[e] = 1) /\ \A e \in Entitlements \ paid : one[e] = 0
  OBVIOUS
<1> HIDE DEF one, all, paid
<1>3. IsFiniteSet(Entitlements) /\ IsFiniteSet(paid)
  BY <1>2, TheaterAssumption, FS_Subset
<1>4. Counts(one, Entitlements) /\ Counts(repeated, Entitlements) /\ Counts(all, Entitlements)
  BY <1>1, <1>3 DEF Counts
<1>5. Total(all, Entitlements) = Total(one, Entitlements) + Total(repeated, Entitlements)
  BY <1>1, <1>4, TotalOfSum
<1>6. Total(one, Entitlements) = Total(one, paid) /\ Total(one, paid) = Cardinality(paid)
  BY <1>2, <1>3, <1>4, TotalWithoutNothings, TotalOfOnes
<1>7. Total(all, Entitlements) = Cardinality(WithOutcome(rows, "COMMITTED"))
  BY <1>1, PaymentsCount
<1>8. Cardinality(paid) = evaluate(rows).paid_once + evaluate(rows).double_paid
  BY StudentsAddUp DEF paid
<1>9. evaluate(rows).ledger_effects = Cardinality(WithOutcome(rows, "COMMITTED"))
  BY DEF evaluate
<1>10. Total(repeated, Entitlements) \in Nat /\ Total(one, Entitlements) \in Nat
  BY <1>4, TotalIsNatural
<1> QED BY <1>5, <1>6, <1>7, <1>8, <1>9, <1>10 DEF Less

\* The numbers of the theater when every row has arrived.
LEMMA TheaterOfTheWhole ==
  ASSUME NEW rows \in Rows, Resolved(rows)
  PROVE  LET state == deriveTheater(rows, Len(rows))
             s == evaluate(rows)
         IN  /\ state.tiles = studentTiles(rows, TRUE)
             /\ state.arrived = s.deliveries /\ state.payments = s.ledger_effects
             /\ state.paidTwice = s.double_paid /\ state.unpaid = s.unpaid
             /\ state.repeatsRefused = s.duplicates_suppressed
             /\ state.budgetRefusals = s.budget_exhausted
             /\ state.spentFirst + state.spentRepeat = s.spent
             /\ state.spentRepeat = s.misallocated
<1> DEFINE shown == SubSeq(rows, 1, Min({Len(rows), Len(rows)}))
           first == [e \in Entitlements |-> IF Paid(rows, e) > 0 THEN Amount[e] ELSE 0]
           repeat == [e \in Entitlements |-> Repeats(rows, e) * Amount[e]]
           tiles == [e \in Entitlements |-> tileState(Paid(rows, e), Refused(rows, e))]
           state == deriveTheater(rows, Len(rows))
<1>1. shown = rows
  <2>1. Min({Len(rows), Len(rows)}) = Len(rows)
    BY RowsAreTyped DEF Min
  <2> QED BY <2>1 DEF Rows
<1>2. /\ state.tiles = tiles
      /\ state.arrived = Len(rows) /\ state.payments = Cardinality(WithOutcome(rows, "COMMITTED"))
      /\ state.paidTwice = Cardinality(In(tiles, "paid_twice"))
      /\ state.unpaid = Cardinality(In(tiles, "unpaid"))
      /\ state.repeatsRefused = Cardinality(WithOutcome(rows, "DUPLICATE_SUPPRESSED"))
      /\ state.budgetRefusals = Cardinality(WithOutcome(rows, "BUDGET_EXHAUSTED"))
      /\ state.spentFirst = Total(first, Entitlements)
      /\ state.spentRepeat = Total(repeat, Entitlements)
  BY <1>1 DEF deriveTheater
<1>3. tiles = studentTiles(rows, TRUE)
  BY TilesAreTheBackends
<1> HIDE DEF state, tiles, first, repeat
<1>4. /\ Total(first, Entitlements) + Total(repeat, Entitlements) = evaluate(rows).spent
      /\ Total(repeat, Entitlements) = evaluate(rows).misallocated
  BY MoneyAddsUp DEF first, repeat
<1>5. LET s == evaluate(rows)
      IN  /\ s.deliveries = Len(rows) /\ s.ledger_effects = Cardinality(WithOutcome(rows, "COMMITTED"))
          /\ s.duplicates_suppressed = Cardinality(WithOutcome(rows, "DUPLICATE_SUPPRESSED"))
          /\ s.budget_exhausted = Cardinality(WithOutcome(rows, "BUDGET_EXHAUSTED"))
          /\ s.double_paid = Cardinality(s.double_paid_ids) /\ s.unpaid = Cardinality(s.unpaid_ids)
  BY DEF evaluate
<1>6. /\ In(tiles, "paid_twice") = evaluate(rows).double_paid_ids
      /\ In(tiles, "unpaid") = evaluate(rows).unpaid_ids
  BY <1>3, CountsOfPayments
<1> QED BY <1>2, <1>3, <1>4, <1>5, <1>6 DEF state

\* The examples of "Why it failed" exist exactly when there is something to
\* explain, and they are students whose tiles say so.
LEMMA MinIsSmallest ==
  ASSUME NEW S \in SUBSET Nat, IsFiniteSet(S), S # {}
  PROVE  Min(S) \in S /\ \A j \in S : Min(S) <= j
BY SmallestPosition DEF Min

\* inspect() finds an example of a double payment, and one of a refusal, exactly when the
\* evaluator counted one.
LEMMA ExamplesExplain ==
  ASSUME NEW rows \in Rows, Resolved(rows)
  PROVE  LET why == inspect(rows)
             s == evaluate(rows)
         IN  /\ why.doublePaid \subseteq s.double_paid_ids
             /\ (why.doublePaid # {}) = (s.double_paid > 0)
             /\ {rows[i].entitlement : i \in why.unpaid} \subseteq s.unpaid_ids
             /\ (why.unpaid # {}) = (s.unpaid > 0)
             /\ why.unpaidStudents = s.unpaid
<1> DEFINE doubles == {e \in Entitlements : Paid(rows, e) > 1}
           first(e) == Min(RowsOf(rows, e, "COMMITTED"))
           refusals == {i \in WithOutcome(rows, "BUDGET_EXHAUSTED") : Paid(rows, rows[i].entitlement) = 0}
           never == {e \in Entitlements : Paid(rows, e) = 0}
<1>1. /\ inspect(rows).doublePaid = {e \in doubles : \A f \in doubles : first(e) <= first(f)}
      /\ inspect(rows).unpaid = {i \in refusals : \A j \in refusals : i <= j}
      /\ inspect(rows).unpaidStudents = Cardinality(never)
  BY DEF inspect
<1>2. /\ evaluate(rows).double_paid_ids = doubles /\ evaluate(rows).unpaid_ids = never
      /\ evaluate(rows).unpaid = Cardinality(never)
  BY DEF evaluate
<1>3. ASSUME doubles # {} PROVE \E e \in doubles : \A f \in doubles : first(e) <= first(f)
  <2> DEFINE at == {i \in DOMAIN rows : \E e \in doubles : i = first(e)}
  <2>1. ASSUME NEW e \in doubles PROVE first(e) \in DOMAIN rows
    <3>1. RowsOf(rows, e, "COMMITTED") # {}
      BY PaidIsNatural
    <3>2. RowsOf(rows, e, "COMMITTED") \in SUBSET DOMAIN rows
      BY DEF RowsOf
    <3>3. RowsOf(rows, e, "COMMITTED") \in SUBSET Nat /\ IsFiniteSet(RowsOf(rows, e, "COMMITTED"))
      BY <3>2, PositionsAreFinite
    <3> QED BY <3>1, <3>2, <3>3, MinIsSmallest
  <2>2. at # {}
    BY <1>3, <2>1
  <2>3. at \in SUBSET DOMAIN rows
    OBVIOUS
  <2>4. at \in SUBSET Nat /\ IsFiniteSet(at)
    <3> HIDE DEF at
    <3> QED BY <2>3, PositionsAreFinite
  <2>5. PICK i \in at : \A j \in at : i <= j
    <3> HIDE DEF at
    <3> QED BY <2>2, <2>4, SmallestPosition
  <2>6. PICK e \in doubles : i = first(e)
    OBVIOUS
  <2>7. \A f \in doubles : first(f) \in at
    BY <2>1
  <2> HIDE DEF at, first, doubles
  <2> QED BY <2>5, <2>6, <2>7
<1>4. refusals \in SUBSET DOMAIN rows
  BY DEF WithOutcome
<1>5. ASSUME refusals # {} PROVE \E i \in refusals : \A j \in refusals : i <= j
  <2>1. refusals \in SUBSET Nat /\ IsFiniteSet(refusals)
    <3> HIDE DEF refusals
    <3> QED BY <1>4, PositionsAreFinite
  <2> HIDE DEF refusals
  <2> QED BY <1>5, <2>1, SmallestPosition
<1>6. refusals # {} <=> never # {}
  <2>1. ASSUME NEW i \in refusals PROVE never # {}
    <3>1. rows[i].entitlement \in Entitlements
      BY <1>4, RowsAreTyped
    <3> QED BY <3>1
  <2>2. ASSUME NEW e \in never PROVE refusals # {}
    <3>1. Refused(rows, e)
      BY UnpaidWereRefused
    <3>2. PICK i \in DOMAIN rows : rows[i].entitlement = e /\ rows[i].outcome = "BUDGET_EXHAUSTED"
      BY <3>1 DEF Refused, RowsOf
    <3>3. i \in refusals
      BY <3>2 DEF WithOutcome
    <3> QED BY <3>3
  <2> QED BY <2>1, <2>2
<1>7. \A i \in refusals : rows[i].entitlement \in never
  BY <1>4, RowsAreTyped
<1>8. /\ evaluate(rows).double_paid > 0 <=> doubles # {}
      /\ evaluate(rows).unpaid > 0 <=> never # {}
  <2> HIDE DEF doubles, never
  <2>1. /\ evaluate(rows).double_paid \in Nat
        /\ evaluate(rows).double_paid = 0 <=> evaluate(rows).double_paid_ids = {}
        /\ evaluate(rows).unpaid \in Nat
        /\ evaluate(rows).unpaid = 0 <=> evaluate(rows).unpaid_ids = {}
    BY StudentsAddUp
  <2> QED BY <1>2, <2>1
<1> HIDE DEF doubles, refusals, never, first
<1> QED BY <1>1, <1>2, <1>3, <1>5, <1>6, <1>7, <1>8

\* A batch's budget is what its students are to get: who overspends it pays
\* somebody twice.
LEMMA FailuresAreNamed ==
  ASSUME NEW rows \in Rows
  PROVE  LET s == evaluate(rows)
         IN  /\ verdictOf(s) = IF s.double_paid = 0 /\ s.unpaid = 0 THEN "PASS" ELSE "FAIL"
             /\ s.double_paid = 0 => s.misallocated = 0 /\ s.spent <= TotalBudget
<1> DEFINE first == [e \in Entitlements |-> IF Paid(rows, e) > 0 THEN Amount[e] ELSE 0]
           repeat == [e \in Entitlements |-> Repeats(rows, e) * Amount[e]]
           s == evaluate(rows)
<1>1. /\ Total(first, Entitlements) \in Nat /\ Total(first, Entitlements) <= TotalBudget
      /\ Total(first, Entitlements) + Total(repeat, Entitlements) = s.spent
      /\ Total(repeat, Entitlements) = s.misallocated
  <2> HIDE DEF s
  <2> QED BY MoneyAddsUp DEF s
<1>2. ASSUME s.double_paid = 0 PROVE s.misallocated = 0
  <2> DEFINE doubles == {e \in Entitlements : Paid(rows, e) > 1}
             beyond == [e \in doubles |-> (Paid(rows, e) - 1) * Amount[e]]
  <2>1. s.misallocated = Total(beyond, doubles) /\ doubles = s.double_paid_ids
    BY DEF evaluate
  <2>2. s.double_paid_ids = {}
    <3> HIDE DEF s
    <3> QED BY <1>2, StudentsAddUp DEF s
  <2> HIDE DEF s, beyond, doubles
  <2> QED BY <2>1, <2>2, TotalOfNothing
<1> HIDE DEF first, repeat
<1>3. s.double_paid = 0 => s.misallocated = 0 /\ s.spent <= TotalBudget
  <2> HIDE DEF s
  <2> QED BY <1>1, <1>2
<1>4. verdictOf(s) = IF s.double_paid = 0 /\ s.unpaid = 0 THEN "PASS" ELSE "FAIL"
  <2> HIDE DEF s
  <2>1. checks(s) = [one_payment_per_entitlement |-> s.double_paid = 0,
                     every_eligible_paid |-> s.unpaid = 0,
                     budget_guard |-> s.spent <= TotalBudget]
    BY DEF checks
  <2>2. (\A id \in DOMAIN checks(s) : checks(s)[id])
           <=> s.double_paid = 0 /\ s.unpaid = 0 /\ s.spent <= TotalBudget
    <3>1. DOMAIN checks(s) = {"one_payment_per_entitlement", "every_eligible_paid", "budget_guard"}
      BY <2>1
    <3>2. /\ checks(s)["one_payment_per_entitlement"] = (s.double_paid = 0)
          /\ checks(s)["every_eligible_paid"] = (s.unpaid = 0)
          /\ checks(s)["budget_guard"] = (s.spent <= TotalBudget)
      BY <2>1
    <3> QED BY <3>1, <3>2, Zenon
  <2> QED BY <1>3, <2>2 DEF verdictOf
<1> QED BY <1>3, <1>4

-----------------------------------------------------------------------------
(* Rows that were recorded so far.                                          *)

\* The rows at some positions, in the order of the script.
LEMMA RowsAtPositions ==
  ASSUME NEW rows \in Rows, NEW P \in SUBSET DOMAIN rows
  PROVE  LET at == RowsAt(rows, P)
             n == Cardinality(P)
             s == Sorted(P)
         IN  /\ at \in Rows /\ n \in Nat /\ DOMAIN at = 1 .. n /\ Len(at) = n
             /\ s \in [1 .. n -> P] /\ \A k \in 1 .. n : at[k] = rows[s[k]]
             /\ \A j, k \in 1 .. n : j < k => s[j] < s[k]
             /\ \A i \in P : \E k \in 1 .. n : s[k] = i
<1>1. P \in SUBSET Nat /\ IsFiniteSet(P)
  BY PositionsAreFinite
<1>2. LET s == Sorted(P)
          n == Cardinality(P)
      IN  /\ n \in Nat /\ s \in [1 .. n -> P]
          /\ \A j, k \in 1 .. n : j < k => s[j] < s[k]
          /\ \A x \in P : \E k \in 1 .. n : s[k] = x
  BY <1>1, SortedIsOrdered, Zenon
<1>3. \A i \in DOMAIN rows : rows[i] \in DeliveryRows
  BY DEF Rows
<1>4. RowsAt(rows, P) \in [1 .. Cardinality(P) -> DeliveryRows]
  BY <1>2, <1>3 DEF RowsAt
<1>5. RowsAt(rows, P) \in Rows /\ Len(RowsAt(rows, P)) = Cardinality(P)
  BY <1>2, <1>4 DEF Rows
<1>6. \A k \in 1 .. Cardinality(P) : RowsAt(rows, P)[k] = rows[Sorted(P)[k]]
  BY DEF RowsAt
<1> QED BY <1>2, <1>4, <1>5, <1>6

\* With all positions it is the script.
LEMMA AllRowsInOrder ==
  ASSUME NEW rows \in Rows
  PROVE  RowsAt(rows, DOMAIN rows) = rows
<1> DEFINE n == Len(rows)
           s == Sorted(DOMAIN rows)
<1>1. DOMAIN rows = 1 .. n /\ n \in Nat /\ Cardinality(1 .. n) = n
  <2>1. DOMAIN rows = 1 .. n /\ n \in Nat
    BY RowsAreTyped
  <2> HIDE DEF n
  <2>2. \A m \in Nat : Cardinality(1 .. m) = m
    BY FS_Interval
  <2> QED BY <2>1, <2>2
<1>2. /\ s \in [1 .. n -> 1 .. n]
      /\ \A j, k \in 1 .. n : j < k => s[j] < s[k]
      /\ \A i \in 1 .. n : \E k \in 1 .. n : s[k] = i
  BY <1>1, RowsAtPositions
<1> DEFINE Bad == {k \in 1 .. n : s[k] # k}
<1>3. Bad = {}
  <2> SUFFICES ASSUME Bad # {} PROVE FALSE
    OBVIOUS
  <2>1. Bad \in SUBSET Nat /\ IsFiniteSet(Bad)
    <3>1. Bad \in SUBSET DOMAIN rows
      BY <1>1
    <3> HIDE DEF Bad
    <3> QED BY <3>1, PositionsAreFinite
  <2>2. PICK k \in Bad : \A j \in Bad : k <= j
    <3> HIDE DEF Bad
    <3> QED BY <2>1, SmallestPosition
  <2> HIDE DEF s, n
  <2>3. k \in 1 .. n /\ s[k] # k /\ s[k] \in 1 .. n
    BY <1>2
  <2>4. \A j \in 1 .. n : j < k => s[j] = j
    BY <1>1, <2>2
  <2>5. PICK m \in 1 .. n : s[m] = k
    BY <1>2, <2>3
  <2>6. ~(s[k] < k)
    <3> SUFFICES ASSUME s[k] < k PROVE FALSE
      OBVIOUS
    <3>1. s[s[k]] = s[k]
      BY <2>3, <2>4
    <3>2. s[s[k]] < s[k]
      BY <1>2, <2>3
    <3>3. s[k] \in Nat
      BY <1>1, <2>3
    <3> QED BY <3>1, <3>2, <3>3
  <2>7. k \in Nat /\ m \in Nat /\ s[k] \in Nat
    BY <1>1, <2>3
  <2>8. m = k \/ m < k \/ k < m
    BY <2>7
  <2>9. ~(k < m)
    <3> SUFFICES ASSUME k < m PROVE FALSE
      OBVIOUS
    <3>1. s[k] < k
      BY <1>2, <2>3, <2>5
    <3> QED BY <2>6, <3>1
  <2>10. ~(m < k)
    <3> SUFFICES ASSUME m < k PROVE FALSE
      OBVIOUS
    <3>1. m = k
      BY <2>4, <2>5
    <3> QED BY <2>7, <3>1
  <2> QED BY <2>3, <2>5, <2>8, <2>9, <2>10
<1>4. \A k \in 1 .. n : s[k] = k
  BY <1>3
<1>5. RowsAt(rows, DOMAIN rows) = [k \in 1 .. n |-> rows[k]]
  BY <1>1, <1>4 DEF RowsAt
<1>6. rows = [k \in 1 .. n |-> rows[k]]
  BY <1>1 DEF Rows
<1> QED BY <1>5, <1>6

\* Whom the rows at P are about, counted among all rows.
LEMMA RowsOfPositions ==
  ASSUME NEW rows \in Rows, NEW P \in SUBSET DOMAIN rows, NEW e, NEW o
  PROVE  /\ IsFiniteSet(P \cap RowsOf(rows, e, o))
         /\ Cardinality(RowsOf(RowsAt(rows, P), e, o)) = Cardinality(P \cap RowsOf(rows, e, o))
         /\ RowsOf(RowsAt(rows, P), e, o) = {} <=> P \cap RowsOf(rows, e, o) = {}
<1> DEFINE at == RowsAt(rows, P)
           n == Cardinality(P)
           s == Sorted(P)
           here == RowsOf(at, e, o)
           there == P \cap RowsOf(rows, e, o)
           f == [k \in here |-> s[k]]
<1>1. /\ n \in Nat /\ DOMAIN at = 1 .. n
      /\ s \in [1 .. n -> P] /\ \A k \in 1 .. n : at[k] = rows[s[k]]
      /\ \A j, k \in 1 .. n : j < k => s[j] < s[k]
      /\ \A i \in P : \E k \in 1 .. n : s[k] = i
  BY RowsAtPositions
<1> HIDE DEF at, n, s
<1>2. here = {k \in 1 .. n : at[k].entitlement = e /\ at[k].outcome = o}
  BY <1>1 DEF RowsOf
<1>3. there = {i \in P : rows[i].entitlement = e /\ rows[i].outcome = o}
  BY DEF RowsOf
<1>4. f \in [here -> there]
  BY <1>1, <1>2, <1>3
<1>5. \A i \in there : \E k \in here : f[k] = i
  BY <1>1, <1>2, <1>3
<1>6. \A j, k \in here : f[j] = f[k] => j = k
  <2> SUFFICES ASSUME NEW j \in here, NEW k \in here, j # k PROVE f[j] # f[k]
    OBVIOUS
  <2>1. j \in 1 .. n /\ k \in 1 .. n
    BY <1>2
  <2>2. j < k \/ k < j
    BY <1>1, <2>1
  <2>3. s[j] < s[k] \/ s[k] < s[j]
    BY <1>1, <2>1, <2>2
  <2>4. s[j] \in Nat /\ s[k] \in Nat
    <3>1. \A i \in P : i \in Nat
      BY PositionsAreFinite
    <3> QED BY <1>1, <2>1, <3>1
  <2>5. s[j] # s[k]
    BY <2>3, <2>4
  <2> QED BY <2>5
<1>7. IsFiniteSet(there)
  BY PositionsAreFinite DEF RowsOf
<1>8. IsFiniteSet(here)
  <2>1. IsFiniteSet(1 .. n) /\ here \in SUBSET (1 .. n)
    BY <1>1, <1>2, FS_Interval
  <2> QED BY <2>1, FS_Subset
<1> HIDE DEF here, there, f
<1>9. f \in Bijection(here, there)
  BY <1>4, <1>5, <1>6 DEF Bijection, Injection, Surjection, IsInjective
<1>10. Cardinality(there) = Cardinality(here)
  BY <1>8, <1>9, FS_Bijection DEF ExistsBijection
<1> QED BY <1>4, <1>5, <1>7, <1>10 DEF here, there, at

\* A grid that shows all the rows it has, tile by tile.
LEMMA TileOfAllRows ==
  ASSUME NEW rows \in Rows, NEW e \in Entitlements
  PROVE  deriveTheater(rows, Len(rows)).tiles[e] = tileState(Paid(rows, e), Refused(rows, e))
<1>1. Len(rows) \in Nat /\ Min({Len(rows), Len(rows)}) = Len(rows)
  <2>1. Len(rows) \in Nat
    BY RowsAreTyped
  <2>2. {Len(rows), Len(rows)} = {Len(rows)} /\ IsFiniteSet({Len(rows)})
    BY FS_Singleton
  <2>3. Min({Len(rows)}) \in {Len(rows)}
    BY <2>1, <2>2, MinIsSmallest
  <2> QED BY <2>1, <2>2, <2>3
<1>2. SubSeq(rows, 1, Len(rows)) = rows
  BY RowsAreTyped DEF Rows
<1> QED BY <1>1, <1>2 DEF deriveTheater

\* With more rows, nobody is paid less often, and who was refused stays refused.
LEMMA MoreRowsPayMore ==
  ASSUME NEW rows \in Rows, NEW P \in SUBSET DOMAIN rows, NEW Q \in SUBSET DOMAIN rows, P \subseteq Q,
         NEW e
  PROVE  /\ Paid(RowsAt(rows, P), e) \in Nat /\ Paid(RowsAt(rows, Q), e) \in Nat
         /\ Paid(RowsAt(rows, P), e) <= Paid(RowsAt(rows, Q), e)
         /\ Refused(RowsAt(rows, P), e) => Refused(RowsAt(rows, Q), e)
<1>1. /\ IsFiniteSet(Q \cap RowsOf(rows, e, "COMMITTED"))
      /\ Paid(RowsAt(rows, P), e) = Cardinality(P \cap RowsOf(rows, e, "COMMITTED"))
      /\ Paid(RowsAt(rows, Q), e) = Cardinality(Q \cap RowsOf(rows, e, "COMMITTED"))
  BY RowsOfPositions DEF Paid
<1>2. RowsAt(rows, P) \in Rows /\ RowsAt(rows, Q) \in Rows
  BY RowsAtPositions
<1>3. Cardinality(P \cap RowsOf(rows, e, "COMMITTED")) <= Cardinality(Q \cap RowsOf(rows, e, "COMMITTED"))
  BY <1>1, FS_Subset
<1>4. Refused(RowsAt(rows, P), e) => Refused(RowsAt(rows, Q), e)
  BY RowsOfPositions DEF Refused
<1> QED BY <1>1, <1>2, <1>3, <1>4, PaidIsNatural

\* The theater of a run whose verdict is shown, given all of its rows.
LEMMA TheaterOfAVerdict ==
  ASSUME NEW rows \in Rows, Resolved(rows), NEW run, run.verdict # None, NEW isComplete, isComplete = TRUE
  PROVE  LET students == studentTiles(rows, TRUE)
             all == RunTheater(run, {students}, {rows}, Len(rows), isComplete, {}, FALSE)
         IN  /\ all.state = {deriveTheater(rows, Len(rows))}
             /\ all.tiles = {students}
             /\ all.legend = {countStates(students)}
<1> DEFINE students == studentTiles(rows, TRUE)
           state == deriveTheater(rows, Len(rows))
<1> HIDE DEF students, state
<1>1. RunTheater(run, {students}, {rows}, Len(rows), isComplete, {}, FALSE).state = {deriveTheater(rows, Len(rows))}
  BY DEF RunTheater
<1>2. RunTheater(run, {students}, {rows}, Len(rows), isComplete, {}, FALSE).tiles = {students}
  BY DEF RunTheater
<1>3. RunTheater(run, {students}, {rows}, Len(rows), isComplete, {}, FALSE).legend = {countStates(students)}
  <2>1. RunTheater(run, {students}, {rows}, Len(rows), isComplete, {}, FALSE).legend
          = {countStates(t) : t \in RunTheater(run, {students}, {rows}, Len(rows), isComplete, {}, FALSE).tiles}
    BY DEF RunTheater
  <2> QED BY <1>2, <2>1
<1> QED BY <1>1, <1>2, <1>3 DEF students, state

-----------------------------------------------------------------------------
(* A run that is done: what names it, finds it and lists it.               *)

\* A run that is done, as the API describes it.
Done(run, rows) ==
    run.status = "COMPLETED" /\ run.summary = evaluate(rows) /\ run.verdict = verdictOf(evaluate(rows))

\* A verdict is one of the two.
LEMMA VerdictIsNotNull ==
  ASSUME NEW s PROVE verdictOf(s) \in {"PASS", "FAIL"} /\ verdictOf(s) # None
BY ScreensAssumption DEF verdictOf

\* The search box finds a run by a student exactly when the student was affected.
LEMMA SearchFindsTheAffected ==
  ASSUME NEW rows \in Rows, NEW run, Done(run, rows), NEW e \in Entitlements
  PROVE  (HistoryRows({run}, statusOf(run), {e}) # {}) = (e \in affected(studentTiles(rows, TRUE)))
<1> DEFINE t == studentTiles(rows, TRUE)
           s == run.summary
<1>1. In(t, "paid_twice") = s.double_paid_ids /\ In(t, "unpaid") = s.unpaid_ids
  BY CountsOfPayments DEF Done
<1>2. run.verdict # None
  BY VerdictIsNotNull DEF Done
<1>3. affected(t) = s.double_paid_ids \cup s.unpaid_ids
  <2> HIDE DEF t, s
  <2> QED BY <1>1 DEF affected
<1>4. HistoryRows({run}, statusOf(run), {e})
        = {x \in {run} : {e} \cap (s.double_paid_ids \cup s.unpaid_ids) # {}}
  <2>1. ASSUME NEW x, x = run
        PROVE  ( /\ statusOf(run) \in {"all", statusOf(x)}
                 /\ {e} = {} \/ (x.verdict # None /\ {e} \cap (x.summary.double_paid_ids \cup x.summary.unpaid_ids) # {}))
               <=> {e} \cap (s.double_paid_ids \cup s.unpaid_ids) # {}
    BY <1>2, <2>1
  <2> QED BY <2>1 DEF HistoryRows
<1> DEFINE found == HistoryRows({run}, statusOf(run), {e})
           named == s.double_paid_ids \cup s.unpaid_ids
<1> HIDE DEF t, s, found, named
<1>5. found = {x \in {run} : {e} \cap named # {}}
  BY <1>4 DEF found, named
<1>6. (found # {}) = (e \in named)
  BY <1>5
<1> QED BY <1>3, <1>6 DEF t, found, named

\* A list of n entries that has every member of L and no other.
Lists(runs, n, L) ==
    n \in Nat /\ runs \in [1 .. n -> L] /\ \A x \in L : \E i \in 1 .. n : runs[i] = x

\* find returns one of the wanted, when the list has one.
LEMMA FindOfAList ==
  ASSUME NEW L, NEW n, NEW runs, Lists(runs, n, L), NEW W \in SUBSET L
  PROVE  /\ find(runs, W) \subseteq W
         /\ find(runs, W) = {} <=> W = {}
<1> USE DEF Lists
<1>1. find(runs, W) \subseteq W
  BY DEF find
<1>2. ASSUME W # {} PROVE find(runs, W) # {}
  <2> DEFINE S == {j \in 1 .. n : runs[j] \in W}
  <2>1. S # {}
    BY <1>2
  <2>2. S \in SUBSET Nat /\ IsFiniteSet(S)
    <3>1. IsFiniteSet(1 .. n)
      BY FS_Interval
    <3>2. S \in SUBSET (1 .. n)
      OBVIOUS
    <3> QED BY <3>1, <3>2, FS_Subset
  <2> HIDE DEF S
  <2>3. PICK i \in S : \A j \in S : i <= j
    BY <2>1, <2>2, SmallestPosition
  <2>4. i \in 1 .. n /\ runs[i] \in W
    BY <2>3 DEF S
  <2>5. \A k \in 1 .. i - 1 : runs[k] \notin W
    <3> SUFFICES ASSUME NEW k \in 1 .. i - 1, runs[k] \in W PROVE FALSE
      OBVIOUS
    <3>1. k \in 1 .. n /\ k < i
      BY <2>4
    <3>2. k \in S
      BY <3>1 DEF S
    <3> QED BY <2>3, <2>4, <3>1, <3>2
  <2>6. runs[i] \in find(runs, W)
    BY <2>4, <2>5 DEF find
  <2> QED BY <2>6
<1> QED BY <1>1, <1>2

\* Who is in a list.
LEMMA RangeOfAList ==
  ASSUME NEW L, NEW n, NEW runs, Lists(runs, n, L)
  PROVE  Range(runs) = L
BY DEF Range, Lists

\* A run that is done is one that the pages take for evaluated.
LEMMA DoneIsEvaluated ==
  ASSUME NEW run, NEW rows, Done(run, rows) PROVE evaluated(run)
BY VerdictIsNotNull DEF Done, evaluated

-----------------------------------------------------------------------------
(* The students of a run that is done.                                      *)

\* Two payments of the same rows, one before the other.
LEMMA TwoPayments ==
  ASSUME NEW rows \in Rows, NEW e
  PROVE  Paid(rows, e) > 1 <=> \E i, j \in RowsOf(rows, e, "COMMITTED") : j < i
<1> DEFINE S == RowsOf(rows, e, "COMMITTED")
<1>1. S \in SUBSET DOMAIN rows
  BY DEF RowsOf
<1>2. S \in SUBSET Nat /\ IsFiniteSet(S) /\ Cardinality(S) \in Nat /\ Paid(rows, e) = Cardinality(S)
  BY <1>1, PositionsAreFinite DEF Paid
<1> HIDE DEF S
<1>3. ASSUME Cardinality(S) > 1 PROVE \E i, j \in S : j < i
  <2>1. S # {}
    BY <1>3, FS_EmptySet
  <2>2. PICK j \in S : \A k \in S : j <= k
    BY <1>2, <2>1, SmallestPosition
  <2>3. S # {j}
    BY <1>3, FS_Singleton
  <2>4. PICK i \in S : i # j
    BY <2>2, <2>3
  <2>5. \A k \in S : k \in Nat
    BY <1>2
  <2>6. j <= i /\ i # j /\ i \in Nat /\ j \in Nat
    BY <2>2, <2>4, <2>5
  <2> QED BY <2>6
<1>4. ASSUME NEW i \in S, NEW j \in S, j < i PROVE Cardinality(S) > 1
  <2>1. i # j
    BY <1>2, <1>4
  <2>2. Cardinality({i, j}) = 2
    <3>1. IsFiniteSet({j}) /\ Cardinality({j}) = 1
      BY FS_Singleton
    <3>2. i \notin {j}
      BY <2>1
    <3>3. Cardinality({j} \cup {i}) = 1 + 1
      BY <3>1, <3>2, FS_AddElement
    <3>4. {j} \cup {i} = {i, j}
      OBVIOUS
    <3> QED BY <3>3, <3>4
  <2>3. Cardinality({i, j}) <= Cardinality(S)
    <3>1. {i, j} \in SUBSET S
      OBVIOUS
    <3> QED BY <1>2, <3>1, FS_Subset
  <2> QED BY <1>2, <2>2, <2>3
<1> QED BY <1>2, <1>3, <1>4 DEF S

\* The rows of one student: an instruction is marked as a repeat when one before
\* it brought money.
LEMMA RepeatsAreMarked ==
  ASSUME NEW mine \in Rows, NEW e, \A i \in DOMAIN mine : mine[i].entitlement = e
  PROVE  (\E i \in DOMAIN mine : ToneOf(mine, i) = "twice") <=> Paid(mine, e) > 1
<1>0. DOMAIN mine = 1 .. Len(mine) /\ Len(mine) \in Nat
      /\ \A i \in DOMAIN mine : mine[i].outcome \in RowOutcomes
  BY RowsAreTyped
<1>1. ASSUME NEW i \in DOMAIN mine
      PROVE  ToneOf(mine, i) = "twice" <=>
                /\ i \in RowsOf(mine, e, "COMMITTED")
                /\ \E j \in RowsOf(mine, e, "COMMITTED") : j < i
  <2> DEFINE before == SubSeq(mine, 1, i - 1)
  <2>1. before \in Rows /\ DOMAIN before = 1 .. i - 1 /\ \A j \in 1 .. i - 1 : before[j] = mine[j]
    BY <1>0 DEF Rows
  <2>2. Paid(before, e) = 0 <=> RowsOf(before, e, "COMMITTED") = {}
    BY <2>1, PaidIsNatural
  <2>3. i \in 1 .. Len(mine)
    BY <1>0
  <2>4. RowsOf(before, e, "COMMITTED") = {j \in RowsOf(mine, e, "COMMITTED") : j < i}
    <3>1. \A j : j \in 1 .. i - 1 <=> j \in 1 .. Len(mine) /\ j < i
      BY <1>0, <2>3
    <3> HIDE DEF before
    <3> QED BY <1>0, <2>1, <3>1 DEF RowsOf
  <2>5. ToneOf(mine, i) = "twice" <=> mine[i].outcome = "COMMITTED" /\ Paid(before, e) # 0
    BY <1>0 DEF ToneOf, RowOutcomes
  <2>6. mine[i].outcome = "COMMITTED" <=> i \in RowsOf(mine, e, "COMMITTED")
    BY DEF RowsOf
  <2> HIDE DEF before
  <2> QED BY <2>2, <2>4, <2>5, <2>6
<1>2. Paid(mine, e) > 1 <=> \E i, j \in RowsOf(mine, e, "COMMITTED") : j < i
  BY TwoPayments
<1>3. RowsOf(mine, e, "COMMITTED") \subseteq DOMAIN mine
  BY DEF RowsOf
<1> QED BY <1>1, <1>2, <1>3

\* GET /students/{id} lists the rows of one student, all of them.
RowsFor(rows, e) == RowsAt(rows, {i \in DOMAIN rows : rows[i].entitlement = e})
\* They are of this student, and have every payment and, if there is one, a refusal.
LEMMA RowsOfAStudent ==
  ASSUME NEW rows \in Rows, NEW e
  PROVE  /\ RowsFor(rows, e) \in Rows
         /\ \A i \in DOMAIN RowsFor(rows, e) : RowsFor(rows, e)[i].entitlement = e
         /\ Paid(RowsFor(rows, e), e) = Paid(rows, e)
         /\ Refused(rows, e) => WithOutcome(RowsFor(rows, e), "BUDGET_EXHAUSTED") # {}
<1> DEFINE P == {i \in DOMAIN rows : rows[i].entitlement = e}
<1>1. P \in SUBSET DOMAIN rows /\ \A i \in P : rows[i].entitlement = e
  OBVIOUS
<1>2. \A o : P \cap RowsOf(rows, e, o) = RowsOf(rows, e, o)
  BY DEF RowsOf
<1> HIDE DEF P
<1>3. LET at == RowsAt(rows, P)
          n == Cardinality(P)
          s == Sorted(P)
      IN  /\ at \in Rows /\ DOMAIN at = 1 .. n
          /\ s \in [1 .. n -> P] /\ \A k \in 1 .. n : at[k] = rows[s[k]]
  BY <1>1, RowsAtPositions
<1>4. \A i \in DOMAIN RowsAt(rows, P) : RowsAt(rows, P)[i].entitlement = e
  BY <1>1, <1>3
<1>5. Paid(RowsAt(rows, P), e) = Paid(rows, e)
  BY <1>1, <1>2, RowsOfPositions DEF Paid
<1>6. Refused(rows, e) => WithOutcome(RowsAt(rows, P), "BUDGET_EXHAUSTED") # {}
  <2>1. RowsOf(RowsAt(rows, P), e, "BUDGET_EXHAUSTED") = {} <=> RowsOf(rows, e, "BUDGET_EXHAUSTED") = {}
    BY <1>1, <1>2, RowsOfPositions
  <2>2. RowsOf(RowsAt(rows, P), e, "BUDGET_EXHAUSTED") \subseteq WithOutcome(RowsAt(rows, P), "BUDGET_EXHAUSTED")
    BY DEF RowsOf, WithOutcome
  <2> QED BY <2>1, <2>2 DEF Refused
<1> QED BY <1>3, <1>4, <1>5, <1>6 DEF RowsFor, P

\* The drawer of one student of a run that is done.
LEMMA DrawerOfAStudent ==
  ASSUME NEW rows \in Rows, Resolved(rows), NEW run, Done(run, rows), NEW e \in Entitlements
  PROVE  LET tiles == studentTiles(rows, TRUE)
             drawer == StudentDrawer(student_detail(run, rows, e), {})
         IN  /\ drawer.figures[1] = Paid(rows, e)
             /\ \A column \in drawer.columns :
                   /\ column.received = drawer.figures[1]
                   /\ (drawer.status = "paid_twice") = (\E i \in DOMAIN column.results : column.results[i] = "twice")
             /\ drawer.cause \in
                   {<<"the repeats used the budget", inspect(rows).repeatPayments>>,
                    <<"pays every instruction">>, <<"the record already existed">>, <<>>}
             /\ tiles[e] = "unpaid" =>
                   drawer.whyNothing /\ drawer.paidMeanwhile = In(tiles, "paid_twice")
<1> DEFINE tiles == studentTiles(rows, TRUE)
           mine == RowsFor(rows, e)
           detail == student_detail(run, rows, e)
           drawer == StudentDrawer(detail, {})
<1>1. run.verdict # None /\ run.summary = evaluate(rows)
  BY VerdictIsNotNull DEF Done
<1>2. /\ detail.run = run /\ detail.state = tiles[e] /\ detail.deliveries = mine
      /\ detail.payments = Paid(rows, e)
      /\ detail.double_paid = IF tiles[e] = "unpaid" THEN In(tiles, "paid_twice") ELSE {}
  <2>1. (run.verdict # None) = TRUE
    BY <1>1
  <2> QED BY <2>1 DEF student_detail, RowsFor
<1>3. /\ mine \in Rows /\ \A i \in DOMAIN mine : mine[i].entitlement = e
      /\ Paid(mine, e) = Paid(rows, e)
      /\ Refused(rows, e) => WithOutcome(mine, "BUDGET_EXHAUSTED") # {}
  BY RowsOfAStudent
<1>4. /\ tiles[e] = "paid_twice" <=> Paid(rows, e) > 1
      /\ tiles[e] = "unpaid" <=> Paid(rows, e) = 0
  BY TilesOfPayments
<1>5. tiles[e] = "unpaid" => Refused(rows, e)
  BY <1>4, UnpaidWereRefused
<1> HIDE DEF tiles, mine, detail
<1>6. /\ drawer.status = tiles[e] /\ drawer.figures[1] = Paid(rows, e)
      /\ drawer.columns = {RunColumn(detail)} /\ drawer.cause = RootCause(detail)
      /\ drawer.whyNothing = (WithOutcome(mine, "BUDGET_EXHAUSTED") # {})
      /\ drawer.paidMeanwhile = IF WithOutcome(mine, "BUDGET_EXHAUSTED") # {} THEN detail.double_paid ELSE {}
  BY <1>2 DEF StudentDrawer
<1>7. /\ RunColumn(detail).received = Paid(rows, e)
      /\ DOMAIN RunColumn(detail).results = DOMAIN mine
      /\ \A i \in DOMAIN mine : RunColumn(detail).results[i] = ToneOf(mine, i)
  BY <1>2 DEF RunColumn
<1>8. (\E i \in DOMAIN mine : ToneOf(mine, i) = "twice") <=> Paid(mine, e) > 1
  BY <1>3, RepeatsAreMarked
<1>9. RootCause(detail) \in
         {<<"the repeats used the budget", inspect(rows).repeatPayments>>,
          <<"pays every instruction">>, <<"the record already existed">>, <<>>}
  <2> DEFINE s == evaluate(rows)
             repeats == Less(s.ledger_effects, s.paid_once + s.double_paid)
             starved == detail.state = "unpaid" /\ detail.run.verdict # None
             refused == \E i \in DOMAIN detail.deliveries :
                           detail.deliveries[i].outcome = "DUPLICATE_SUPPRESSED"
  <2>1. inspect(rows).repeatPayments = repeats
    <3> DEFINE repeated == [x \in Entitlements |-> Repeats(rows, x)]
    <3>1. inspect(rows).repeatPayments = Total(repeated, Entitlements)
      BY DEF inspect
    <3>2. Total(repeated, Entitlements) = repeats
      BY RepeatsAddUp
    <3> QED BY <3>1, <3>2
  <2>2. detail.run.summary = s
    BY <1>1, <1>2
  <2> HIDE DEF s
  <2>3. RootCause(detail) =
          CASE detail.state = "paid_twice" -> <<"pays every instruction">>
            [] starved -> <<"the repeats used the budget", repeats>>
            [] detail.state # "paid_twice" /\ ~starved /\ refused -> <<"the record already existed">>
            [] OTHER -> <<>>
    BY <2>2 DEF RootCause
  <2> HIDE DEF repeats
  <2>4. RootCause(detail) \in {<<"the repeats used the budget", repeats>>,
          <<"pays every instruction">>, <<"the record already existed">>, <<>>}
    <3>1. CASE detail.state = "paid_twice"
      BY <2>3, <3>1
    <3>2. CASE detail.state # "paid_twice" /\ starved
      BY <2>3, <3>2
    <3>3. CASE detail.state # "paid_twice" /\ ~starved /\ refused
      BY <2>3, <3>3
    <3>4. CASE detail.state # "paid_twice" /\ ~starved /\ ~refused
      BY <2>3, <3>4
    <3> QED BY <3>1, <3>2, <3>3, <3>4
  <2> QED BY <2>1, <2>4
<1> HIDE DEF drawer
<1>10. \A column \in drawer.columns :
         /\ column.received = drawer.figures[1]
         /\ (drawer.status = "paid_twice") = (\E i \in DOMAIN column.results : column.results[i] = "twice")
  <2> DEFINE results == RunColumn(detail).results
  <2>1. (\E i \in DOMAIN results : results[i] = "twice") <=> Paid(mine, e) > 1
    <3> HIDE DEF results
    <3>1. DOMAIN results = DOMAIN mine /\ \A i \in DOMAIN mine : results[i] = ToneOf(mine, i)
      BY <1>7 DEF results
    <3> QED BY <1>8, <3>1
  <2>2. (drawer.status = "paid_twice") <=> Paid(mine, e) > 1
    BY <1>3, <1>4, <1>6
  <2>3. (drawer.status = "paid_twice") = (\E i \in DOMAIN results : results[i] = "twice")
    BY <2>1, <2>2
  <2> DEFINE column == RunColumn(detail)
             SaysTwice(c) == (drawer.status = "paid_twice") = (\E i \in DOMAIN c.results : c.results[i] = "twice")
  <2>4. SaysTwice(column) /\ column.received = drawer.figures[1]
    BY <1>6, <1>7, <2>3
  <2> HIDE DEF SaysTwice, column
  <2>5. \A c \in drawer.columns : c.received = drawer.figures[1] /\ SaysTwice(c)
    BY <1>6, <2>4 DEF column
  <2> QED BY <2>5 DEF SaysTwice
<1>11. tiles[e] = "unpaid" => drawer.whyNothing /\ drawer.paidMeanwhile = In(tiles, "paid_twice")
  BY <1>2, <1>3, <1>5, <1>6
<1> QED BY <1>6, <1>9, <1>10, <1>11 DEF tiles, drawer, detail
=============================================================================
