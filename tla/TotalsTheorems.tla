--------------------------- MODULE TotalsTheorems ---------------------------
(***************************************************************************)
(* Facts about Total: its type, the effect of changing one row, of moving  *)
(* an amount between two rows, and linearity.                              *)
(***************************************************************************)
EXTENDS Totals, FiniteSetTheorems, WellFoundedInduction, TLAPS

(* One row has as many units as its value says.                            *)
LEMMA RowUnits ==
  ASSUME NEW x, NEW n \in Nat
  PROVE  /\ IsFiniteSet({x} \X (1 .. n))
         /\ Cardinality({x} \X (1 .. n)) = n
<1>1. IsFiniteSet({x}) /\ Cardinality({x}) = 1
  BY FS_Singleton
<1>2. IsFiniteSet(1 .. n) /\ Cardinality(1 .. n) = n
  BY FS_Interval
<1>3. /\ IsFiniteSet({x} \X (1 .. n))
      /\ Cardinality({x} \X (1 .. n)) = Cardinality({x}) * Cardinality(1 .. n)
  BY <1>1, <1>2, FS_Product, Zenon
<1>4. Cardinality({x}) * Cardinality(1 .. n) = n
  BY <1>1, <1>2
<1>5. QED
  BY <1>3, <1>4, Zenon

(* The units of a column of naturals form a finite set, so that its total  *)
(* is a natural number.                                                    *)
LEMMA TotalType ==
  ASSUME NEW S, IsFiniteSet(S), NEW f \in [S -> Nat]
  PROVE  /\ IsFiniteSet(UnitsOf(f))
         /\ Total(f) \in Nat
<1> DEFINE rows == { {x} \X (1 .. f[x]) : x \in S }
<1>1. IsFiniteSet(rows)
  <2> DEFINE row == [x \in S |-> {x} \X (1 .. f[x])]
  <2>1. row \in Surjection(S, rows)
    BY DEF Surjection
  <2>2. QED
    BY <2>1, FS_Surjection
<1>2. \A r \in rows : IsFiniteSet(r)
  <2>1. \A x \in S : IsFiniteSet({x} \X (1 .. f[x]))
    <3> TAKE x \in S
    <3>1. f[x] \in Nat
      OBVIOUS
    <3>2. QED
      BY <3>1, RowUnits, Zenon
  <2>2. QED
    BY <2>1, Zenon
<1>3. IsFiniteSet(UNION rows)
  BY <1>1, <1>2, FS_UNION
<1>4. UnitsOf(f) = UNION rows
  BY DEF UnitsOf
<1>5. QED
  BY <1>3, <1>4, FS_CardinalityType DEF Total

(* Changing one row changes the total by the difference.                   *)
LEMMA TotalUpdate ==
  ASSUME NEW S, IsFiniteSet(S), NEW f \in [S -> Nat], NEW g \in [S -> Nat],
         NEW x \in S, \A y \in S \ {x} : g[y] = f[y]
  PROVE  Total(g) + f[x] = Total(f) + g[x]
<1> DEFINE rest == UNION { {y} \X (1 .. f[y]) : y \in S \ {x} }
<1>1. UnitsOf(f) = rest \cup ({x} \X (1 .. f[x]))
  BY DEF UnitsOf
<1>2. UnitsOf(g) = rest \cup ({x} \X (1 .. g[x]))
  BY DEF UnitsOf
<1>3. rest \cap ({x} \X (1 .. f[x])) = {} /\ rest \cap ({x} \X (1 .. g[x])) = {}
  OBVIOUS
<1>4. IsFiniteSet(rest)
  <2>1. rest \in SUBSET UnitsOf(f)
    BY <1>1
  <2>2. QED
    BY <2>1, TotalType, FS_Subset
<1>5. /\ Cardinality(rest) \in Nat
      /\ Cardinality({}) = 0
  BY <1>4, FS_CardinalityType, FS_EmptySet
<1>6. f[x] \in Nat /\ g[x] \in Nat
  OBVIOUS
<1> HIDE DEF rest
<1>7. Total(f) = Cardinality(rest) + f[x]
  <2>1. /\ IsFiniteSet({x} \X (1 .. f[x]))
        /\ Cardinality({x} \X (1 .. f[x])) = f[x]
    BY <1>6, RowUnits
  <2>2. Cardinality(rest \cup ({x} \X (1 .. f[x]))) =
          Cardinality(rest) + Cardinality({x} \X (1 .. f[x]))
            - Cardinality(rest \cap ({x} \X (1 .. f[x])))
    BY <1>4, <2>1, FS_Union, Zenon
  <2>3. Total(f) = Cardinality(rest \cup ({x} \X (1 .. f[x])))
    BY <1>1, Zenon DEF Total
  <2>4. Cardinality(rest \cap ({x} \X (1 .. f[x]))) = 0
    BY <1>3, <1>5, Zenon
  <2>5. QED
    BY <1>5, <1>6, <2>1, <2>2, <2>3, <2>4
<1>8. Total(g) = Cardinality(rest) + g[x]
  <2>1. /\ IsFiniteSet({x} \X (1 .. g[x]))
        /\ Cardinality({x} \X (1 .. g[x])) = g[x]
    BY <1>6, RowUnits
  <2>2. Cardinality(rest \cup ({x} \X (1 .. g[x]))) =
          Cardinality(rest) + Cardinality({x} \X (1 .. g[x]))
            - Cardinality(rest \cap ({x} \X (1 .. g[x])))
    BY <1>4, <2>1, FS_Union, Zenon
  <2>3. Total(g) = Cardinality(rest \cup ({x} \X (1 .. g[x])))
    BY <1>2, Zenon DEF Total
  <2>4. Cardinality(rest \cap ({x} \X (1 .. g[x]))) = 0
    BY <1>3, <1>5, Zenon
  <2>5. QED
    BY <1>5, <1>6, <2>1, <2>2, <2>3, <2>4
<1>9. QED
  BY <1>5, <1>6, <1>7, <1>8

(* A column of zeros has total zero.                                       *)
LEMMA TotalZero ==
  ASSUME NEW S, NEW f \in [S -> Nat], \A x \in S : f[x] = 0
  PROVE  Total(f) = 0
<1>1. UnitsOf(f) = {}
  BY DEF UnitsOf
<1>2. QED
  BY <1>1, FS_EmptySet DEF Total

(* No row exceeds the total.                                               *)
LEMMA TotalBoundsRow ==
  ASSUME NEW S, IsFiniteSet(S), NEW f \in [S -> Nat], NEW x \in S
  PROVE  f[x] <= Total(f)
<1>1. {x} \X (1 .. f[x]) \in SUBSET UnitsOf(f)
  BY DEF UnitsOf
<1>2. Cardinality({x} \X (1 .. f[x])) = f[x]
  BY RowUnits
<1>3. QED
  BY <1>1, <1>2, TotalType, FS_Subset DEF Total

(* Moving q from row a to row b leaves the total as it was.                *)
LEMMA TotalMove ==
  ASSUME NEW S, IsFiniteSet(S), NEW f \in [S -> Nat], NEW g \in [S -> Nat],
         NEW a \in S, NEW b \in S, a # b, NEW q \in Nat,
         g[a] = f[a] - q, g[b] = f[b] + q,
         \A y \in S \ {a, b} : g[y] = f[y]
  PROVE  Total(g) = Total(f)
<1> DEFINE h == [f EXCEPT ![a] = g[a]]
<1>1. h \in [S -> Nat]
  OBVIOUS
<1>2. /\ \A y \in S \ {a} : h[y] = f[y]
      /\ \A y \in S \ {b} : g[y] = h[y]
      /\ h[a] = f[a] - q /\ g[b] = h[b] + q
  OBVIOUS
<1>3. f[a] \in Nat /\ h[a] \in Nat /\ h[b] \in Nat /\ g[b] \in Nat
  BY <1>1
<1>4. Total(f) \in Nat /\ Total(g) \in Nat /\ Total(h) \in Nat
  BY <1>1, TotalType
<1> HIDE DEF h
<1>5. Total(h) + f[a] = Total(f) + h[a]
  BY <1>1, <1>2, TotalUpdate
<1>6. Total(g) + h[b] = Total(h) + g[b]
  BY <1>1, <1>2, TotalUpdate
<1>7. QED
  BY <1>2, <1>3, <1>4, <1>5, <1>6

(* A column that is nowhere larger has no larger total.                    *)
LEMMA TotalMonotone ==
  ASSUME NEW S, IsFiniteSet(S), NEW f \in [S -> Nat], NEW g \in [S -> Nat],
         \A x \in S : f[x] <= g[x]
  PROVE  Total(f) <= Total(g)
<1>1. UnitsOf(f) \in SUBSET UnitsOf(g)
  BY DEF UnitsOf
<1>2. QED
  BY <1>1, TotalType, FS_Subset DEF Total

(* The total of a sum of columns.  The units of g are renumbered to follow *)
(* those that f has in the same row.                                       *)
LEMMA TotalSum ==
  ASSUME NEW S, IsFiniteSet(S), NEW f \in [S -> Nat], NEW g \in [S -> Nat]
  PROVE  Total([x \in S |-> f[x] + g[x]]) = Total(f) + Total(g)
<1> DEFINE sum    == [x \in S |-> f[x] + g[x]]
           upper  == UNION { {x} \X (f[x] + 1 .. f[x] + g[x]) : x \in S }
           follow == [u \in UnitsOf(g) |-> <<u[1], f[u[1]] + u[2]>>]
<1>1. /\ \A u : u \in UnitsOf(f) <=> \E x \in S : \E k \in 1 .. f[x] : u = <<x, k>>
      /\ \A u : u \in UnitsOf(g) <=> \E x \in S : \E k \in 1 .. g[x] : u = <<x, k>>
      /\ \A u : u \in UnitsOf(sum) <=> \E x \in S : \E k \in 1 .. f[x] + g[x] : u = <<x, k>>
      /\ \A u : u \in upper <=> \E x \in S : \E k \in f[x] + 1 .. f[x] + g[x] : u = <<x, k>>
  BY DEF UnitsOf
<1>2. \A x \in S : f[x] \in Nat /\ g[x] \in Nat
  OBVIOUS
<1> HIDE DEF upper, sum
<1>3. UnitsOf(sum) = UnitsOf(f) \cup upper
  <2>1. ASSUME NEW x \in S, NEW k \in 1 .. f[x] + g[x]
        PROVE  k \in 1 .. f[x] \/ k \in f[x] + 1 .. f[x] + g[x]
    BY <1>2
  <2>2. ASSUME NEW x \in S
        PROVE  /\ \A k \in 1 .. f[x] : k \in 1 .. f[x] + g[x]
               /\ \A k \in f[x] + 1 .. f[x] + g[x] : k \in 1 .. f[x] + g[x]
    BY <1>2
  <2>3. \A u \in UnitsOf(sum) : u \in UnitsOf(f) \cup upper
    BY <1>1, <2>1
  <2>4. \A u \in UnitsOf(f) \cup upper : u \in UnitsOf(sum)
    BY <1>1, <2>2
  <2>5. QED
    BY <2>3, <2>4
<1>4. UnitsOf(f) \cap upper = {}
  BY <1>1, <1>2
<1>5. ExistsBijection(UnitsOf(g), upper)
  <2>1. follow \in [UnitsOf(g) -> upper]
    <3>1. ASSUME NEW u \in UnitsOf(g)
          PROVE  <<u[1], f[u[1]] + u[2]>> \in upper
      <4>1. PICK x \in S : \E k \in 1 .. g[x] : u = <<x, k>>
        BY <1>1
      <4>2. PICK k \in 1 .. g[x] : u = <<x, k>>
        BY <4>1
      <4>3. f[x] + k \in f[x] + 1 .. f[x] + g[x]
        BY <1>2
      <4>4. QED
        BY <1>1, <4>2, <4>3
    <3>2. QED
      BY <3>1
  <2>2. \A u, v \in UnitsOf(g) : follow[u] = follow[v] => u = v
    BY <1>1, <1>2
  <2>3. \A w \in upper : \E u \in UnitsOf(g) : follow[u] = w
    <3> TAKE w \in upper
    <3>1. PICK x \in S : \E k \in f[x] + 1 .. f[x] + g[x] : w = <<x, k>>
      BY <1>1
    <3>2. PICK k \in f[x] + 1 .. f[x] + g[x] : w = <<x, k>>
      BY <3>1
    <3>3. k - f[x] \in 1 .. g[x] /\ f[x] + (k - f[x]) = k
      BY <1>2
    <3>4. <<x, k - f[x]>> \in UnitsOf(g)
      BY <1>1, <3>3
    <3>5. follow[<<x, k - f[x]>>] = w
      BY <3>2, <3>3, <3>4
    <3>6. QED
      BY <3>4, <3>5
  <2> HIDE DEF follow
  <2>4. follow \in Bijection(UnitsOf(g), upper)
    BY <2>1, <2>2, <2>3 DEF Bijection, Injection, IsInjective, Surjection
  <2>5. QED
    BY <2>4 DEF ExistsBijection
<1>6. /\ IsFiniteSet(UnitsOf(f)) /\ IsFiniteSet(UnitsOf(g))
      /\ Total(f) \in Nat /\ Total(g) \in Nat
  BY TotalType
<1>7. IsFiniteSet(upper) /\ Cardinality(upper) = Cardinality(UnitsOf(g))
  BY <1>5, <1>6, FS_Bijection
<1>8. Cardinality(UnitsOf(f) \cup upper) = Cardinality(UnitsOf(f)) + Cardinality(upper)
  <2>1. Cardinality(UnitsOf(f) \cup upper) =
          Cardinality(UnitsOf(f)) + Cardinality(upper)
            - Cardinality(UnitsOf(f) \cap upper)
    BY <1>6, <1>7, FS_Union, Zenon
  <2>2. Cardinality(UnitsOf(f) \cap upper) = 0
    BY <1>4, FS_EmptySet, Zenon
  <2>3. Cardinality(UnitsOf(f)) \in Nat /\ Cardinality(upper) \in Nat
    BY <1>6, <1>7 DEF Total
  <2>4. QED
    BY <2>1, <2>2, <2>3
<1>9. QED
  BY <1>3, <1>7, <1>8 DEF Total, sum

(* A multiple of a column has that multiple of the total.                  *)
LEMMA TotalScaled ==
  ASSUME NEW S, IsFiniteSet(S), NEW f \in [S -> Nat], NEW n \in Nat
  PROVE  Total([x \in S |-> n * f[x]]) = n * Total(f)
<1> DEFINE times(m) == [x \in S |-> m * f[x]]
           wrong    == {m \in Nat : Total(times(m)) # m * Total(f)}
<1>1. \A m \in Nat : times(m) \in [S -> Nat]
  OBVIOUS
<1>2. SUFFICES ASSUME wrong # {}  PROVE FALSE
  OBVIOUS
<1>3. PICK least \in wrong : \A m \in wrong : ~ (m < least)
  <2>1. PICK x \in wrong : \A y \in wrong : ~ (<<y, x>> \in OpToRel(<, Nat))
    BY <1>2, WFMin, NatLessThanWellFounded
  <2>2. QED
    BY <2>1 DEF OpToRel
<1>4. Total(f) \in Nat
  BY TotalType
<1>5. least # 0
  <2>1. \A x \in S : times(0)[x] = 0
    OBVIOUS
  <2>2. Total(times(0)) = 0
    BY <1>1, <2>1, TotalZero
  <2>3. QED
    BY <1>4, <2>2
<1> DEFINE prev == least - 1
<1>6. prev \in Nat /\ least = prev + 1 /\ prev \notin wrong
  BY <1>3, <1>5
<1>7. Total(times(prev)) = prev * Total(f)
  BY <1>6
<1>8. times(least) = [x \in S |-> times(prev)[x] + f[x]]
  BY <1>6
<1>9. Total(times(least)) = Total(times(prev)) + Total(f)
  <2>1. times(prev) \in [S -> Nat]
    BY <1>1, <1>6
  <2> HIDE DEF times, prev
  <2>2. QED
    BY <1>8, <2>1, TotalSum
<1>10. least * Total(f) = prev * Total(f) + Total(f)
  BY <1>4, <1>6
<1>11. QED
  BY <1>7, <1>9, <1>10

(* Two rows together are no more than the total.                           *)
LEMMA TotalBoundsTwoRows ==
  ASSUME NEW S, IsFiniteSet(S), NEW f \in [S -> Nat],
         NEW a \in S, NEW b \in S, a # b
  PROVE  f[a] + f[b] <= Total(f)
<1> DEFINE g == [f EXCEPT ![a] = 0, ![b] = f[b] + f[a]]
<1>1. f[a] \in Nat /\ f[b] \in Nat
  OBVIOUS
<1>2. /\ g \in [S -> Nat] /\ g[a] = f[a] - f[a] /\ g[b] = f[b] + f[a]
      /\ \A y \in S \ {a, b} : g[y] = f[y]
  BY <1>1
<1> HIDE DEF g
<1>3. Total(g) = Total(f)
  BY <1>1, <1>2, TotalMove
<1>4. g[b] <= Total(g)
  BY <1>2, TotalBoundsRow
<1>5. QED
  BY <1>1, <1>2, <1>3, <1>4

(* Rows of nothing add nothing.                                            *)
LEMMA TotalExtended ==
  ASSUME NEW S, NEW T \in SUBSET S, NEW f \in [T -> Nat], NEW g \in [S -> Nat],
         \A x \in T : g[x] = f[x], \A x \in S \ T : g[x] = 0
  PROVE  Total(g) = Total(f)
<1>1. \A x \in S \ T : \A k : k \notin 1 .. g[x]
  OBVIOUS
<1>2. \A x \in T : g[x] = f[x]
  OBVIOUS
<1>3. /\ \A u : u \in UnitsOf(f) <=> \E x \in T : \E k \in 1 .. f[x] : u = <<x, k>>
      /\ \A u : u \in UnitsOf(g) <=> \E x \in S : \E k \in 1 .. g[x] : u = <<x, k>>
  BY DEF UnitsOf
<1>4. UnitsOf(g) = UnitsOf(f)
  <2>1. ASSUME NEW u \in UnitsOf(g) PROVE u \in UnitsOf(f)
    <3>1. PICK x \in S : \E k \in 1 .. g[x] : u = <<x, k>>
      BY <1>3
    <3>2. x \in T /\ g[x] = f[x]
      BY <1>1, <1>2, <3>1
    <3>3. QED
      BY <1>3, <3>1, <3>2
  <2>2. ASSUME NEW u \in UnitsOf(f) PROVE u \in UnitsOf(g)
    <3>1. PICK x \in T : \E k \in 1 .. f[x] : u = <<x, k>>
      BY <1>3
    <3>2. x \in S /\ g[x] = f[x]
      BY <1>2
    <3>3. QED
      BY <1>3, <3>1, <3>2
  <2>3. QED
    BY <2>1, <2>2
<1>5. QED
  BY <1>4 DEF Total

(* The names of the rows do not matter.                                    *)
LEMMA TotalRenamed ==
  ASSUME NEW S, NEW T, IsFiniteSet(S), NEW f \in [S -> Nat], NEW h \in Bijection(T, S)
  PROVE  Total([t \in T |-> f[h[t]]]) = Total(f)
<1> DEFINE g      == [t \in T |-> f[h[t]]]
           rename == [u \in UnitsOf(g) |-> <<h[u[1]], u[2]>>]
<1>1. /\ h \in [T -> S]
      /\ \A s, t \in T : h[s] = h[t] => s = t
      /\ \A x \in S : \E t \in T : h[t] = x
  BY DEF Bijection, Injection, IsInjective, Surjection
<1>2. /\ \A u : u \in UnitsOf(f) <=> \E x \in S : \E k \in 1 .. f[x] : u = <<x, k>>
      /\ \A u : u \in UnitsOf(g) <=> \E t \in T : \E k \in 1 .. g[t] : u = <<t, k>>
      /\ \A t \in T : g[t] = f[h[t]]
  BY <1>1 DEF UnitsOf
<1> HIDE DEF g
<1>3. rename \in [UnitsOf(g) -> UnitsOf(f)]
  <2>1. \A u \in UnitsOf(g) : <<h[u[1]], u[2]>> \in UnitsOf(f)
    BY <1>1, <1>2
  <2>2. QED
    BY <2>1
<1>4. \A u, v \in UnitsOf(g) : rename[u] = rename[v] => u = v
  BY <1>1, <1>2
<1>5. \A w \in UnitsOf(f) : \E u \in UnitsOf(g) : rename[u] = w
  <2> TAKE w \in UnitsOf(f)
  <2>1. PICK x \in S : \E k \in 1 .. f[x] : w = <<x, k>>
    BY <1>2
  <2>2. PICK k \in 1 .. f[x] : w = <<x, k>>
    BY <2>1
  <2>3. PICK t \in T : h[t] = x
    BY <1>1
  <2>4. <<t, k>> \in UnitsOf(g)
    BY <1>2, <2>2, <2>3
  <2>5. rename[<<t, k>>] = w
    BY <2>2, <2>3, <2>4
  <2>6. QED
    BY <2>4, <2>5
<1> HIDE DEF rename
<1>6. rename \in Bijection(UnitsOf(g), UnitsOf(f))
  BY <1>3, <1>4, <1>5 DEF Bijection, Injection, IsInjective, Surjection
<1>7. IsFiniteSet(T)
  <2>1. h \in Injection(T, S)
    BY DEF Bijection
  <2>2. QED
    BY <2>1, FS_Injection
<1>8. g \in [T -> Nat]
  BY <1>1 DEF g
<1>9. IsFiniteSet(UnitsOf(g))
  BY <1>7, <1>8, TotalType
<1>10. Cardinality(UnitsOf(f)) = Cardinality(UnitsOf(g))
  <2>1. ExistsBijection(UnitsOf(g), UnitsOf(f))
    BY <1>6 DEF ExistsBijection
  <2>2. QED
    BY <1>9, <2>1, FS_Bijection
<1>11. QED
  BY <1>10 DEF Total, g

=============================================================================
