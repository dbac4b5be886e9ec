--------------------------- MODULE PointSums_proofs ---------------------------
(***************************************************************************)
(* What a step that rewrites one row does to a sum of points, what sums    *)
(* over parts and sums of sums amount to, and the least and greatest       *)
(* elements of sets of naturals.                                           *)
(***************************************************************************)
EXTENDS PointSums, FiniteSetTheorems, FunctionTheorems, WellFoundedInduction, TLAPS

\* One row holds f[x] units, finitely many.
LEMMA UnitsOfCardinality ==
  ASSUME NEW f, NEW x, f[x] \in Nat
  PROVE  IsFiniteSet(UnitsOf(f, x)) /\ Cardinality(UnitsOf(f, x)) = f[x]
<1>1. IsFiniteSet({x}) /\ Cardinality({x}) = 1
  BY FS_Singleton
<1>2. IsFiniteSet(1 .. f[x]) /\ Cardinality(1 .. f[x]) = f[x]
  BY FS_Interval, SMTT(40)
<1>3. /\ IsFiniteSet({x} \X (1 .. f[x]))
      /\ Cardinality({x} \X (1 .. f[x])) = Cardinality({x}) * Cardinality(1 .. f[x])
  BY <1>1, <1>2, FS_Product, Zenon
<1>4. QED
  BY <1>1, <1>2, <1>3 DEF UnitsOf

\* The units of finitely many rows are finitely many, so the sum is a natural.
LEMMA TotalIsNat ==
  ASSUME NEW S, IsFiniteSet(S), NEW f \in [S -> Nat]
  PROVE  IsFiniteSet(Units(f, S)) /\ Total(f, S) \in Nat
<1> DEFINE T == {UnitsOf(f, x) : x \in S}
           u == [x \in S |-> UnitsOf(f, x)]
<1>1. u \in Surjection(S, T)
  BY DEF Surjection
<1>2. IsFiniteSet(T)
  BY <1>1, FS_Surjection
<1>3. \A U \in T : IsFiniteSet(U)
  BY UnitsOfCardinality
<1>4. IsFiniteSet(Units(f, S))
  BY <1>2, <1>3, FS_UNION DEF Units
<1>5. QED
  BY <1>4, FS_CardinalityType DEF Total

\* A row's share is split off the sum: what the other rows hold is the rest.
LEMMA TotalSplits ==
  ASSUME NEW S, IsFiniteSet(S), NEW f \in [S -> Nat], NEW x \in S
  PROVE  /\ Cardinality(Units(f, S \ {x})) \in Nat
         /\ Total(f, S) = Cardinality(Units(f, S \ {x})) + f[x]
<1> DEFINE R == Units(f, S \ {x})
<1>1. Units(f, S) = R \cup UnitsOf(f, x)
  BY DEF Units
<1>2. R \cap UnitsOf(f, x) = {}
  BY DEF Units, UnitsOf
<1>3. IsFiniteSet(Units(f, S))
  BY TotalIsNat
<1>4. IsFiniteSet(R)
  BY <1>1, <1>3, FS_Subset
<1>5. IsFiniteSet(UnitsOf(f, x)) /\ Cardinality(UnitsOf(f, x)) = f[x]
  BY UnitsOfCardinality
<1>6. Cardinality(R) \in Nat
  BY <1>4, FS_CardinalityType
<1>7. Cardinality({}) = 0
  BY FS_EmptySet
<1>8. Cardinality(R \cup UnitsOf(f, x))
        = Cardinality(R) + Cardinality(UnitsOf(f, x)) - Cardinality(R \cap UnitsOf(f, x))
  BY <1>4, <1>5, FS_Union, Zenon
<1>9. f[x] \in Nat
  OBVIOUS
<1>10. Total(f, S) = Cardinality(R) + f[x]
  <2>1. Total(f, S) = Cardinality(R \cup UnitsOf(f, x))
    BY <1>1, Zenon DEF Total
  <2>2. Cardinality(R \cap UnitsOf(f, x)) = 0
    BY <1>2, <1>7, Zenon
  <2> HIDE DEF R
  <2>3. QED
    BY <2>1, <2>2, <1>5, <1>6, <1>8, <1>9
<1>11. QED
  BY <1>6, <1>10, Zenon

\* A step that rewrites one row moves the sum by what it moves that row.
LEMMA TotalUpdate ==
  ASSUME NEW S, IsFiniteSet(S), NEW f \in [S -> Nat], NEW g \in [S -> Nat],
         NEW x \in S, \A y \in S \ {x} : g[y] = f[y]
  PROVE  /\ Total(f, S) \in Nat
         /\ Total(g, S) \in Nat
         /\ Total(g, S) = Total(f, S) - f[x] + g[x]
<1>1. \A y \in S \ {x} : UnitsOf(g, y) = UnitsOf(f, y)
  BY DEF UnitsOf
<1>2. Units(g, S \ {x}) = Units(f, S \ {x})
  BY <1>1 DEF Units
<1> DEFINE r == Cardinality(Units(f, S \ {x}))
<1>3. r \in Nat /\ Total(f, S) = r + f[x]
  BY TotalSplits, Zenon
<1>4. Total(g, S) = Cardinality(Units(g, S \ {x})) + g[x]
  BY TotalSplits, Zenon
<1>5. Total(g, S) = r + g[x]
  BY <1>2, <1>4
<1>6. f[x] \in Nat /\ g[x] \in Nat
  OBVIOUS
<1> HIDE DEF r
<1>7. QED
  BY <1>3, <1>5, <1>6

\* No row holds more than the sum.
LEMMA TotalBounds ==
  ASSUME NEW S, IsFiniteSet(S), NEW f \in [S -> Nat], NEW x \in S
  PROVE  f[x] <= Total(f, S)
<1>1. f[x] \in Nat
  OBVIOUS
<1>2. /\ Cardinality(Units(f, S \ {x})) \in Nat
      /\ Total(f, S) = Cardinality(Units(f, S \ {x})) + f[x]
  BY TotalSplits, Zenon
<1>3. QED
  BY <1>1, <1>2

\* A column of zeros sums to zero.
LEMMA TotalZero ==
  ASSUME NEW S, NEW f \in [S -> Nat], \A x \in S : f[x] = 0
  PROVE  Total(f, S) = 0
<1>1. \A x \in S : UnitsOf(f, x) = {}
  BY DEF UnitsOf
<1>2. Units(f, S) = {}
  BY <1>1 DEF Units
<1>3. QED
  BY <1>2, FS_EmptySet DEF Total

\* The signed sum moves by what one row moves, and is zero for a blank column.
LEMMA SignedTotalUpdate ==
  ASSUME NEW S, IsFiniteSet(S), NEW f \in [S -> Int], NEW g \in [S -> Int],
         NEW x \in S, \A y \in S \ {x} : g[y] = f[y]
  PROVE  /\ SignedTotal(f, S) \in Int
         /\ SignedTotal(g, S) = SignedTotal(f, S) - f[x] + g[x]
<1>0. \A a, b \in [S -> Nat] :
        (\A y \in S \ {x} : b[y] = a[y])
          => Total(a, S) \in Nat /\ Total(b, S) = Total(a, S) - a[x] + b[x]
  BY TotalUpdate
<1>1. /\ Credit(f) \in [S -> Nat] /\ Credit(g) \in [S -> Nat]
      /\ Debit(f) \in [S -> Nat] /\ Debit(g) \in [S -> Nat]
  BY DEF Credit, Debit
<1>2. \A y \in S \ {x} : Credit(g)[y] = Credit(f)[y] /\ Debit(g)[y] = Debit(f)[y]
  BY DEF Credit, Debit
<1>3. \A y \in S \ {x} : Credit(g)[y] = Credit(f)[y]
  BY <1>2
<1>4. \A y \in S \ {x} : Debit(g)[y] = Debit(f)[y]
  BY <1>2
<1>5. /\ Total(Credit(f), S) \in Nat
      /\ Total(Credit(g), S) = Total(Credit(f), S) - Credit(f)[x] + Credit(g)[x]
  BY <1>0, <1>1, <1>3, ZenonT(30)
<1>6. /\ Total(Debit(f), S) \in Nat
      /\ Total(Debit(g), S) = Total(Debit(f), S) - Debit(f)[x] + Debit(g)[x]
  BY <1>0, <1>1, <1>4, ZenonT(30)
<1>7. Credit(f)[x] - Debit(f)[x] = f[x] /\ Credit(g)[x] - Debit(g)[x] = g[x]
  BY DEF Credit, Debit
<1>8. /\ Credit(f)[x] \in Nat /\ Debit(f)[x] \in Nat
      /\ Credit(g)[x] \in Nat /\ Debit(g)[x] \in Nat
      /\ f[x] \in Int /\ g[x] \in Int
  BY <1>1
<1>9. QED
  BY <1>5, <1>6, <1>7, <1>8 DEF SignedTotal

LEMMA SignedTotalZero ==
  ASSUME NEW S, NEW f \in [S -> Int], \A x \in S : f[x] = 0
  PROVE  SignedTotal(f, S) = 0
<1>1. /\ Credit(f) \in [S -> Nat] /\ Debit(f) \in [S -> Nat]
      /\ \A x \in S : Credit(f)[x] = 0 /\ Debit(f)[x] = 0
  BY DEF Credit, Debit
<1>2. QED
  BY <1>1, TotalZero DEF SignedTotal
-----------------------------------------------------------------------------
\* Naturals are well ordered; the library says so of finite sets.
LEMMA LeastNatural ==
  ASSUME NEW T \in SUBSET Nat, T # {}
  PROVE  \E m \in T : \A n \in T : m <= n
<1> DEFINE below == {1 .. n : n \in T}
<1>1. below \subseteq FiniteSubsetsOf(Nat)
  BY FS_Interval DEF FiniteSubsetsOf
<1>2. below # {}
  OBVIOUS
<1>3. \E X \in below : \A Y \in below : <<Y, X>> \notin StrictSubsetOrdering(Nat)
  <2> HIDE DEF below
  <2>1. QED
    BY <1>1, <1>2, FS_StrictSubsetOrderingWellFounded, WFMin
<1>4. PICK m \in T : \A n \in T : <<1 .. n, 1 .. m>> \notin StrictSubsetOrdering(Nat)
  BY <1>3
<1>5. ASSUME NEW n \in T, n < m
      PROVE  <<1 .. n, 1 .. m>> \in StrictSubsetOrdering(Nat)
  <2>1. 1 .. n \in SUBSET Nat /\ 1 .. m \in SUBSET Nat
    OBVIOUS
  <2>2. 1 .. n \subseteq 1 .. m /\ m \in 1 .. m /\ m \notin 1 .. n
    BY <1>5
  <2>3. QED
    BY <2>1, <2>2 DEF StrictSubsetOrdering
<1>6. \A n \in T : ~(n < m)
  BY <1>4, <1>5
<1>7. QED
  BY <1>6

\* A bounded set of naturals has a greatest element.
LEMMA GreatestNatural ==
  ASSUME NEW b \in Nat, NEW T \in SUBSET (0 .. b), T # {}
  PROVE  \E m \in T : \A n \in T : n <= m
<1> DEFINE U == {b - n : n \in T}
<1>1. U \in SUBSET Nat /\ U # {}
  <2>1. \A n \in T : b - n \in Nat
    OBVIOUS
  <2>2. QED
    BY <2>1
<1>2. PICK u \in U : \A v \in U : u <= v
  <2> HIDE DEF U
  <2>1. QED
    BY <1>1, LeastNatural
<1>3. PICK m \in T : u = b - m
  OBVIOUS
<1>4. \A n \in T : b - m <= b - n
  BY <1>2, <1>3
<1>5. QED
  BY <1>4
-----------------------------------------------------------------------------
\* Only what the rows of S hold counts: a column that agrees on S and is zero
\* elsewhere has the same sum.
LEMMA TotalOver ==
  ASSUME NEW D, NEW S \in SUBSET D, NEW f, NEW g,
         \A x \in S : g[x] = f[x], \A x \in D \ S : g[x] = 0
  PROVE  Units(g, D) = Units(f, S) /\ Total(g, D) = Total(f, S)
<1>1. \A x \in S : UnitsOf(g, x) = UnitsOf(f, x)
  BY DEF UnitsOf
<1>2. \A x \in D \ S : UnitsOf(g, x) = {}
  BY DEF UnitsOf
<1>3. Units(g, D) = Units(f, S)
  BY <1>1, <1>2 DEF Units
<1>4. QED
  BY <1>3 DEF Total

\* The sum over part of a column.
LEMMA TotalOfPart ==
  ASSUME NEW D, NEW f \in [D -> Nat], NEW S \in SUBSET D, IsFiniteSet(S)
  PROVE  IsFiniteSet(Units(f, S)) /\ Total(f, S) \in Nat
<1> DEFINE g == [x \in S |-> f[x]]
<1>1. g \in [S -> Nat] /\ \A x \in S : f[x] = g[x]
  OBVIOUS
<1>2. Units(f, S) = Units(g, S) /\ Total(f, S) = Total(g, S)
  <2> HIDE DEF g
  <2>1. QED
    BY <1>1, TotalOver
<1>3. IsFiniteSet(Units(g, S)) /\ Total(g, S) \in Nat
  BY <1>1, TotalIsNat, Zenon
<1>4. QED
  BY <1>2, <1>3, Zenon

\* One more row adds what it holds.
LEMMA TotalAdds ==
  ASSUME NEW D, NEW f \in [D -> Nat], NEW S \in SUBSET D, IsFiniteSet(S), NEW x \in D \ S
  PROVE  /\ Total(f, S) \in Nat /\ Total(f, S \cup {x}) \in Nat
         /\ Total(f, S \cup {x}) = Total(f, S) + f[x]
<1> DEFINE T == S \cup {x}
           g == [y \in T |-> f[y]]
<1>1. T \in SUBSET D /\ IsFiniteSet(T) /\ x \in T /\ T \ {x} = S
  BY FS_AddElement
<1>2. g \in [T -> Nat] /\ (\A y \in T : f[y] = g[y]) /\ g[x] = f[x]
  OBVIOUS
<1>3. Total(f, S) \in Nat /\ Total(f, T) \in Nat
  <2> HIDE DEF T
  <2>1. QED
    BY <1>1, TotalOfPart, Zenon
<1>4. Units(f, T) = Units(g, T) /\ Units(f, S) = Units(g, S)
  <2> HIDE DEF T, g
  <2>1. \A U \in SUBSET T : Units(f, U) = Units(g, U)
    BY <1>2, TotalOver
  <2>2. QED
    BY <1>1, <2>1
<1>5. Total(g, T) = Cardinality(Units(g, T \ {x})) + g[x]
  <2> HIDE DEF T, g
  <2>1. QED
    BY <1>1, <1>2, TotalSplits, Zenon
<1>6. Total(f, T) = Total(f, S) + f[x]
  <2> HIDE DEF T, g
  <2>1. QED
    BY <1>1, <1>2, <1>4, <1>5 DEF Total
<1>7. QED
  BY <1>3, <1>6

\* One row less takes away what it held.
LEMMA TotalDrops ==
  ASSUME NEW D, NEW f \in [D -> Nat], NEW S \in SUBSET D, IsFiniteSet(S), NEW x \in S
  PROVE  /\ Total(f, S \ {x}) \in Nat
         /\ Total(f, S) = Total(f, S \ {x}) + f[x]
<1>1. /\ S \ {x} \in SUBSET D /\ IsFiniteSet(S \ {x}) /\ x \in D \ (S \ {x})
      /\ (S \ {x}) \cup {x} = S
  BY FS_RemoveElement
<1> DEFINE R == S \ {x}
<1> HIDE DEF R
<1>2. /\ R \in SUBSET D /\ IsFiniteSet(R) /\ x \in D \ R /\ R \cup {x} = S
  BY <1>1 DEF R
<1>3. Total(f, R) \in Nat /\ Total(f, R \cup {x}) = Total(f, R) + f[x]
  BY <1>2, TotalAdds
<1>4. QED
  BY <1>2, <1>3 DEF R

\* No rows, no points.
LEMMA TotalOfNone ==
  ASSUME NEW f
  PROVE  Total(f, {}) = 0
<1>1. Units(f, {}) = {}
  BY DEF Units
<1>2. QED
  BY <1>1, FS_EmptySet DEF Total

\* The sum of a column that adds two others, row by row.  Were it another, take
\* the smallest set of rows on which it is.
LEMMA TotalOfSum ==
  ASSUME NEW S, IsFiniteSet(S), NEW f \in [S -> Nat], NEW g \in [S -> Nat],
         NEW h \in [S -> Nat], \A x \in S : f[x] = g[x] + h[x]
  PROVE  Total(f, S) = Total(g, S) + Total(h, S)
<1> DEFINE Wrong(U) == Total(f, U) # Total(g, U) + Total(h, U)
           sizes == {Cardinality(U) : U \in {V \in SUBSET S : Wrong(V)}}
<1>1. SUFFICES ASSUME Wrong(S)
               PROVE  FALSE
  OBVIOUS
<1>2. \A U \in SUBSET S : IsFiniteSet(U) /\ Cardinality(U) \in Nat
  BY FS_Subset, FS_CardinalityType
<1>3. sizes \in SUBSET Nat /\ sizes # {}
  BY <1>1, <1>2
<1>4. PICK m \in sizes : \A n \in sizes : m <= n
  <2> HIDE DEF sizes
  <2>1. QED
    BY <1>3, LeastNatural
<1>5. PICK U \in SUBSET S : Wrong(U) /\ \A V \in SUBSET S : Wrong(V) => Cardinality(U) <= Cardinality(V)
  BY <1>4
<1>6. U # {}
  <2>1. Total(f, {}) = 0 /\ Total(g, {}) = 0 /\ Total(h, {}) = 0
    BY TotalOfNone
  <2>2. QED
    BY <1>5, <2>1
<1>7. PICK x \in U : TRUE
  BY <1>6
<1> DEFINE V == U \ {x}
<1>8. /\ V \in SUBSET S /\ IsFiniteSet(V) /\ x \in S \ V /\ U = V \cup {x}
      /\ Cardinality(V) = Cardinality(U) - 1
  <2>1. IsFiniteSet(U)
    BY <1>2
  <2>2. QED
    BY <1>7, <2>1, FS_RemoveElement
<1>9. ~Wrong(V)
  <2>1. Cardinality(U) \in Nat
    BY <1>2
  <2> HIDE DEF V, Wrong
  <2>2. QED
    BY <1>5, <1>8, <2>1
<1>10. \A c \in [S -> Nat] : Total(c, V) \in Nat /\ Total(c, U) = Total(c, V) + c[x]
  <2>1. IsFiniteSet(U)
    BY <1>2
  <2>2. QED
    BY <2>1, TotalDrops
<1>11. f[x] = g[x] + h[x] /\ f[x] \in Nat /\ g[x] \in Nat /\ h[x] \in Nat
  OBVIOUS
<1>12. ~Wrong(U)
  <2> HIDE DEF V
  <2>1. QED
    BY <1>9, <1>10, <1>11
<1>13. QED
  BY <1>5, <1>12
=============================================================================
