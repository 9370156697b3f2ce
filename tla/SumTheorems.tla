---------------------------- MODULE SumTheorems ----------------------------
(***************************************************************************)
(* What the sums of Sums are: the laws of addition that the proofs about   *)
(* the point ledger and about returns use.                                 *)
(***************************************************************************)
EXTENDS Sums, FiniteSetTheorems, FunctionTheorems, TLAPS

Counts(f, S) == \A i \in S : f[i] \in Nat

-----------------------------------------------------------------------------
(* A non-empty set of numbers has a least element. *)
LEMMA LeastElement ==
  ASSUME NEW T \in SUBSET Nat, T # {}
  PROVE  \E x \in T : \A y \in T : x <= y
<1>1. \E x \in T : \A y \in T : ~(<<y, x>> \in OpToRel(<, Nat))
  BY NatLessThanWellFounded, WFMin
<1>2. PICK x \in T : \A y \in T : ~(<<y, x>> \in OpToRel(<, Nat))
  BY <1>1
<1>3. ASSUME NEW y \in T PROVE x <= y
  <2>1. ~(<<y, x>> \in OpToRel(<, Nat))
    BY <1>2
  <2>2. ~(y < x)
    BY <2>1 DEF OpToRel
  <2> QED BY <2>2
<1> QED BY <1>3

(* One row's units. *)
LEMMA RowUnits ==
  ASSUME NEW i, NEW n \in Nat
  PROVE  IsFiniteSet({i} \X (1..n)) /\ Cardinality({i} \X (1..n)) = n
<1>1. IsFiniteSet({i}) /\ Cardinality({i}) = 1
  BY FS_Singleton
<1>2. IsFiniteSet(1..n) /\ Cardinality(1..n) = n
  BY FS_Interval
<1>3. IsFiniteSet({i} \X (1..n)) /\ Cardinality({i} \X (1..n)) = Cardinality({i}) * Cardinality(1..n)
  BY <1>1, <1>2, FS_Product
<1>4. 1 * n = n
  OBVIOUS
<1> QED BY <1>1, <1>2, <1>3, <1>4

LEMMA UnitsFinite ==
  ASSUME NEW S, IsFiniteSet(S), NEW f, Counts(f, S)
  PROVE  IsFiniteSet(UnitsOf(f, S))
<1> DEFINE T == {{i} \X (1..f[i]) : i \in S}
           g == [i \in S |-> {i} \X (1..f[i])]
<1>1. g \in Surjection(S, T)
  BY Fun_IsSurj
<1>2. IsFiniteSet(T)
  BY <1>1, FS_Surjection
<1>3. ASSUME NEW U \in T PROVE IsFiniteSet(U)
  <2>1. PICK i \in S : U = {i} \X (1..f[i])
    OBVIOUS
  <2>2. f[i] \in Nat
    BY DEF Counts
  <2> QED BY <2>1, <2>2, RowUnits
<1> QED BY <1>2, <1>3, FS_UNION DEF UnitsOf

LEMMA SumIsNat ==
  ASSUME NEW S, IsFiniteSet(S), NEW f, Counts(f, S)
  PROVE  SumOver(f, S) \in Nat
BY UnitsFinite, FS_CardinalityType DEF SumOver

LEMMA SumOfNone ==
  ASSUME NEW f
  PROVE  SumOver(f, {}) = 0
<1>1. UnitsOf(f, {}) = {}
  BY DEF UnitsOf
<1> QED BY <1>1, FS_EmptySet DEF SumOver

(* Sums look at the amounts only. *)
LEMMA SumSame ==
  ASSUME NEW S, NEW f, NEW g, \A i \in S : f[i] = g[i]
  PROVE  SumOver(f, S) = SumOver(g, S)
<1>1. UnitsOf(f, S) = UnitsOf(g, S)
  BY DEF UnitsOf
<1> QED BY <1>1 DEF SumOver

(* Disjoint sets of rows add up. *)
LEMMA SumSplit ==
  ASSUME NEW S, IsFiniteSet(S), NEW T, IsFiniteSet(T), S \cap T = {},
         NEW f, Counts(f, S), Counts(f, T)
  PROVE  SumOver(f, S \cup T) = SumOver(f, S) + SumOver(f, T)
<1>1. UnitsOf(f, S \cup T) = UnitsOf(f, S) \cup UnitsOf(f, T)
  BY DEF UnitsOf
<1>2. UnitsOf(f, S) \cap UnitsOf(f, T) = {}
  BY DEF UnitsOf
<1>3. /\ IsFiniteSet(UnitsOf(f, S)) /\ Cardinality(UnitsOf(f, S)) \in Nat
      /\ IsFiniteSet(UnitsOf(f, T)) /\ Cardinality(UnitsOf(f, T)) \in Nat
  BY UnitsFinite, FS_CardinalityType
<1>4. Cardinality({}) = 0
  BY FS_EmptySet
<1>5. Cardinality(UnitsOf(f, S) \cup UnitsOf(f, T)) =
        Cardinality(UnitsOf(f, S)) + Cardinality(UnitsOf(f, T)) - Cardinality(UnitsOf(f, S) \cap UnitsOf(f, T))
  BY <1>3, FS_Union
<1>6. SumOver(f, S \cup T) = SumOver(f, S) + SumOver(f, T) - 0
  BY <1>1, <1>2, <1>4, <1>5, Zenon DEF SumOver
<1>7. SumOver(f, S) \in Nat /\ SumOver(f, T) \in Nat
  BY SumIsNat
<1> QED BY <1>6, <1>7

LEMMA SumOfOne ==
  ASSUME NEW i, NEW f, f[i] \in Nat
  PROVE  SumOver(f, {i}) = f[i]
<1>1. UnitsOf(f, {i}) = {i} \X (1..f[i])
  BY DEF UnitsOf
<1> QED BY <1>1, RowUnits DEF SumOver

LEMMA SumAdd ==
  ASSUME NEW S, IsFiniteSet(S), NEW i, i \notin S, NEW f, Counts(f, S), f[i] \in Nat
  PROVE  SumOver(f, S \cup {i}) = SumOver(f, S) + f[i]
<1>1. IsFiniteSet({i}) /\ S \cap {i} = {} /\ Counts(f, {i})
  BY FS_Singleton DEF Counts
<1> QED BY <1>1, SumSplit, SumOfOne

(* The sum with one row taken out. *)
LEMMA SumWithout ==
  ASSUME NEW S, IsFiniteSet(S), NEW i \in S, NEW f, Counts(f, S)
  PROVE  /\ SumOver(f, S) = SumOver(f, S \ {i}) + f[i]
         /\ SumOver(f, S \ {i}) \in Nat
<1>1. IsFiniteSet(S \ {i}) /\ i \notin S \ {i} /\ (S \ {i}) \cup {i} = S
  BY FS_RemoveElement
<1>2. Counts(f, S \ {i}) /\ f[i] \in Nat
  BY DEF Counts
<1> QED BY <1>1, <1>2, SumAdd, SumIsNat

(* One row changes. *)
LEMMA SumUpdate ==
  ASSUME NEW S, IsFiniteSet(S), NEW i \in S, NEW f, Counts(f, S), NEW g, g[i] \in Nat,
         \A j \in S \ {i} : g[j] = f[j]
  PROVE  SumOver(g, S) = SumOver(f, S) - f[i] + g[i]
<1>1. Counts(g, S)
  BY DEF Counts
<1>2. SumOver(g, S \ {i}) = SumOver(f, S \ {i})
  BY SumSame
<1>3. f[i] \in Nat
  BY DEF Counts
<1> QED BY <1>1, <1>2, <1>3, SumWithout

LEMMA SumMonotone ==
  ASSUME NEW S, IsFiniteSet(S), NEW f, NEW g, Counts(f, S), Counts(g, S),
         \A i \in S : f[i] <= g[i]
  PROVE  SumOver(f, S) <= SumOver(g, S)
<1>1. UnitsOf(f, S) \in SUBSET UnitsOf(g, S)
  <2> SUFFICES ASSUME NEW i \in S, NEW k \in 1..f[i] PROVE <<i, k>> \in UnitsOf(g, S)
    BY DEF UnitsOf
  <2>1. k \in 1..g[i]
    BY DEF Counts
  <2> QED BY <2>1 DEF UnitsOf
<1> QED BY <1>1, UnitsFinite, FS_Subset DEF SumOver

LEMMA SumOfPart ==
  ASSUME NEW S, IsFiniteSet(S), NEW T \in SUBSET S, NEW f, Counts(f, S)
  PROVE  SumOver(f, T) <= SumOver(f, S) /\ SumOver(f, T) \in Nat /\ SumOver(f, S) \in Nat
<1>1. UnitsOf(f, T) \in SUBSET UnitsOf(f, S)
  BY DEF UnitsOf
<1>2. IsFiniteSet(T) /\ Counts(f, T)
  BY FS_Subset DEF Counts
<1> QED BY <1>1, <1>2, UnitsFinite, SumIsNat, FS_Subset DEF SumOver

(* No row is above the sum. *)
LEMMA SumBounds ==
  ASSUME NEW S, IsFiniteSet(S), NEW i \in S, NEW f, Counts(f, S)
  PROVE  f[i] <= SumOver(f, S)
<1>1. f[i] \in Nat
  BY DEF Counts
<1>2. SumOver(f, S) = SumOver(f, S \ {i}) + f[i] /\ SumOver(f, S \ {i}) \in Nat
  BY SumWithout
<1> QED BY <1>1, <1>2

(* Row by row, the amounts of h are those of f and of g. *)
LEMMA SumPlus ==
  ASSUME NEW S, IsFiniteSet(S), NEW f, NEW g, NEW h, Counts(f, S), Counts(g, S),
         \A i \in S : h[i] = f[i] + g[i]
  PROVE  SumOver(h, S) = SumOver(f, S) + SumOver(g, S)
<1> DEFINE U == UnitsOf(h, S) \ UnitsOf(f, S)
           b == [u \in UnitsOf(g, S) |-> <<u[1], f[u[1]] + u[2]>>]
<1>1. /\ IsFiniteSet(UnitsOf(f, S)) /\ Cardinality(UnitsOf(f, S)) \in Nat
      /\ IsFiniteSet(UnitsOf(g, S)) /\ Cardinality(UnitsOf(g, S)) \in Nat
  BY UnitsFinite, FS_CardinalityType
<1>2. \A u : u \in U <=> \E i \in S : \E k \in 1..g[i] : u = <<i, f[i] + k>>
  <2>1. ASSUME NEW i \in S, NEW k \in 1..g[i], NEW u, u = <<i, f[i] + k>> PROVE u \in U
    <3>1. f[i] \in Nat /\ g[i] \in Nat
      BY DEF Counts
    <3>2. f[i] + k \in 1..h[i] /\ ~(f[i] + k \in 1..f[i])
      BY <3>1
    <3> QED BY <2>1, <3>2 DEF UnitsOf
  <2>2. ASSUME NEW u \in U PROVE \E i \in S : \E k \in 1..g[i] : u = <<i, f[i] + k>>
    <3>1. PICK i \in S : \E m \in 1..h[i] : u = <<i, m>>
      BY DEF UnitsOf
    <3>2. PICK m \in 1..h[i] : u = <<i, m>>
      BY <3>1
    <3>3. f[i] \in Nat /\ g[i] \in Nat
      BY DEF Counts
    <3>4. ~(m \in 1..f[i])
      BY <3>2 DEF UnitsOf
    <3>5. m - f[i] \in 1..g[i] /\ m = f[i] + (m - f[i])
      BY <3>3, <3>4
    <3> QED BY <3>2, <3>5
  <2> QED BY <2>1, <2>2
<1>3. b \in Bijection(UnitsOf(g, S), U)
  <2>0. \A u : u \in UnitsOf(g, S) <=> \E i \in S : \E k \in 1..g[i] : u = <<i, k>>
    BY DEF UnitsOf
  <2>1. b \in [UnitsOf(g, S) -> U]
    BY <1>2, <2>0
  <2>2. ASSUME NEW u \in UnitsOf(g, S), NEW v \in UnitsOf(g, S), b[u] = b[v] PROVE u = v
    <3>a. PICK i \in S : \E k \in 1..g[i] : u = <<i, k>>
      BY <2>0
    <3>1. PICK k \in 1..g[i] : u = <<i, k>>
      BY <3>a
    <3>b. PICK j \in S : \E m \in 1..g[j] : v = <<j, m>>
      BY <2>0
    <3>2. PICK m \in 1..g[j] : v = <<j, m>>
      BY <3>b
    <3>3. b[u] = <<i, f[i] + k>> /\ b[v] = <<j, f[j] + m>>
      BY <3>1, <3>2
    <3>4. i = j /\ f[i] + k = f[j] + m
      BY <2>2, <3>3
    <3>5. f[i] \in Nat
      BY DEF Counts
    <3> QED BY <3>1, <3>2, <3>4, <3>5
  <2>3. ASSUME NEW w \in U PROVE \E u \in UnitsOf(g, S) : b[u] = w
    <3>a. PICK i \in S : \E k \in 1..g[i] : w = <<i, f[i] + k>>
      BY <1>2
    <3>1. PICK k \in 1..g[i] : w = <<i, f[i] + k>>
      BY <3>a
    <3>2. <<i, k>> \in UnitsOf(g, S)
      BY <2>0
    <3>3. b[<<i, k>>] = w
      BY <3>1, <3>2
    <3> QED BY <3>2, <3>3
  <2> QED BY <2>1, <2>2, <2>3, Fun_IsBij
<1>4. IsFiniteSet(U) /\ Cardinality(U) = Cardinality(UnitsOf(g, S))
  <2>1. ExistsBijection(UnitsOf(g, S), U)
    BY <1>3, Fun_ExistsBij
  <2> QED BY <2>1, <1>1, FS_Bijection
<1>5. UnitsOf(f, S) \cup U = UnitsOf(h, S) /\ UnitsOf(f, S) \cap U = {}
  <2>1. UnitsOf(f, S) \subseteq UnitsOf(h, S)
    <3> SUFFICES ASSUME NEW i \in S, NEW k \in 1..f[i] PROVE <<i, k>> \in UnitsOf(h, S)
      BY DEF UnitsOf
    <3>1. k \in 1..h[i]
      BY DEF Counts
    <3> QED BY <3>1 DEF UnitsOf
  <2> QED BY <2>1
<1>6. Cardinality({}) = 0
  BY FS_EmptySet
<1>7. Cardinality(UnitsOf(f, S) \cup U) =
        Cardinality(UnitsOf(f, S)) + Cardinality(U) - Cardinality(UnitsOf(f, S) \cap U)
  BY <1>1, <1>4, FS_Union
<1> HIDE DEF U
<1>8. SumOver(h, S) = SumOver(f, S) + SumOver(g, S) - 0
  BY <1>4, <1>5, <1>6, <1>7, Zenon DEF SumOver
<1>9. SumOver(f, S) \in Nat /\ SumOver(g, S) \in Nat
  BY SumIsNat
<1> QED BY <1>8, <1>9

-----------------------------------------------------------------------------
(* Each row gives what the rows before it have left open: together they     *)
(* give the amount, or everything.                                          *)
LEMMA SumFirst ==
  ASSUME NEW n \in Nat, NEW f, Counts(f, 1..n), NEW amount \in Nat, NEW g,
         \A i \in 1..n : g[i] = Least(f[i], Monus(amount, SumOver(f, 1..(i - 1))))
  PROVE  SumOver(g, 1..n) = Least(amount, SumOver(f, 1..n))
<1> DEFINE Good(k) == SumOver(g, 1..k) = Least(amount, SumOver(f, 1..k))
           Bad == {k \in 0..n : ~Good(k)}
<1>1. ASSUME NEW k \in 0..n
      PROVE  IsFiniteSet(1..k) /\ Counts(f, 1..k) /\ Counts(g, 1..k) /\ SumOver(f, 1..k) \in Nat
  <2>1. IsFiniteSet(1..k) /\ Counts(f, 1..k)
    BY FS_Interval DEF Counts
  <2>2. SumOver(f, 1..k) \in Nat
    BY <2>1, SumIsNat
  <2>3. ASSUME NEW i \in 1..k PROVE g[i] \in Nat
    <3>1. IsFiniteSet(1..(i - 1)) /\ Counts(f, 1..(i - 1)) /\ f[i] \in Nat
      BY FS_Interval DEF Counts
    <3>2. SumOver(f, 1..(i - 1)) \in Nat
      BY <3>1, SumIsNat
    <3> QED BY <3>1, <3>2 DEF Least, Monus
  <2> QED BY <2>1, <2>2, <2>3 DEF Counts
<1>2. Good(0)
  <2>1. 1..0 = {}
    OBVIOUS
  <2>2. SumOver(g, 1..0) = 0 /\ SumOver(f, 1..0) = 0
    BY <2>1, SumOfNone
  <2> QED BY <2>2 DEF Least
<1>3. ASSUME NEW k \in 1..n, Good(k - 1) PROVE Good(k)
  <2>1. 1..k = (1..(k - 1)) \cup {k} /\ k \notin 1..(k - 1) /\ k - 1 \in 0..n
    OBVIOUS
  <2>2. /\ IsFiniteSet(1..(k - 1)) /\ Counts(f, 1..(k - 1)) /\ Counts(g, 1..(k - 1))
        /\ f[k] \in Nat /\ g[k] \in Nat /\ SumOver(f, 1..(k - 1)) \in Nat
    BY <1>1, <2>1 DEF Counts
  <2>3. SumOver(f, 1..k) = SumOver(f, 1..(k - 1)) + f[k]
    BY <2>1, <2>2, SumAdd
  <2>4. SumOver(g, 1..k) = SumOver(g, 1..(k - 1)) + g[k]
    BY <2>1, <2>2, SumAdd
  <2>5. g[k] = Least(f[k], Monus(amount, SumOver(f, 1..(k - 1))))
    OBVIOUS
  <2>6. SumOver(g, 1..(k - 1)) = Least(amount, SumOver(f, 1..(k - 1)))
    BY <1>3
  <2>7. SumOver(g, 1..k) = Least(amount, SumOver(f, 1..k))
    BY <2>2, <2>3, <2>4, <2>5, <2>6 DEF Least, Monus
  <2> QED BY <2>7
<1> HIDE DEF Good
<1>4. Bad = {}
  <2> SUFFICES ASSUME Bad # {} PROVE FALSE
    OBVIOUS
  <2>0. \E k \in Bad : \A j \in Bad : k <= j
    <3>1. Bad \in SUBSET Nat
      OBVIOUS
    <3> HIDE DEF Bad
    <3> QED BY <3>1, LeastElement
  <2>1. PICK k \in Bad : \A j \in Bad : k <= j
    BY <2>0
  <2>2. k # 0
    BY <1>2, <2>1
  <2>3. k \in 1..n /\ k - 1 \in 0..n /\ k - 1 \notin Bad
    BY <2>1, <2>2
  <2>4. Good(k - 1)
    BY <2>3
  <2> QED BY <1>3, <2>1, <2>3, <2>4
<1>5. Good(n)
  BY <1>4
<1> QED BY <1>5 DEF Good

(* The same from the other end. *)
LEMMA SumLast ==
  ASSUME NEW n \in Nat, NEW f, Counts(f, 1..n), NEW amount \in Nat, NEW g,
         \A i \in 1..n : g[i] = Least(f[i], Monus(amount, SumOver(f, (i + 1)..n)))
  PROVE  SumOver(g, 1..n) = Least(amount, SumOver(f, 1..n))
<1> DEFINE Good(k) == SumOver(g, (n - k + 1)..n) = Least(amount, SumOver(f, (n - k + 1)..n))
           Bad == {k \in 0..n : ~Good(k)}
<1>1. ASSUME NEW i \in 1..(n + 1)
      PROVE  IsFiniteSet(i..n) /\ Counts(f, i..n) /\ SumOver(f, i..n) \in Nat
  <2>1. IsFiniteSet(i..n) /\ Counts(f, i..n)
    BY FS_Interval DEF Counts
  <2> QED BY <2>1, SumIsNat
<1>2. ASSUME NEW i \in 1..n PROVE f[i] \in Nat /\ g[i] \in Nat
  <2>1. f[i] \in Nat /\ SumOver(f, (i + 1)..n) \in Nat
    BY <1>1 DEF Counts
  <2> QED BY <2>1 DEF Least, Monus
<1>3. Good(0)
  <2>1. (n - 0 + 1)..n = {}
    OBVIOUS
  <2>2. SumOver(g, (n - 0 + 1)..n) = 0 /\ SumOver(f, (n - 0 + 1)..n) = 0
    BY <2>1, SumOfNone
  <2> QED BY <2>2 DEF Least
<1>4. ASSUME NEW k \in 1..n, Good(k - 1) PROVE Good(k)
  <2> DEFINE i == n - k + 1
  <2>1. i \in 1..n /\ i..n = ((i + 1)..n) \cup {i} /\ i \notin (i + 1)..n /\ n - (k - 1) + 1 = i + 1
    OBVIOUS
  <2> HIDE DEF i
  <2>2. /\ IsFiniteSet((i + 1)..n) /\ Counts(f, (i + 1)..n) /\ Counts(g, (i + 1)..n)
        /\ f[i] \in Nat /\ g[i] \in Nat /\ SumOver(f, (i + 1)..n) \in Nat
    BY <1>1, <1>2, <2>1 DEF Counts
  <2>3. SumOver(f, i..n) = SumOver(f, (i + 1)..n) + f[i]
    <3>1. SumOver(f, ((i + 1)..n) \cup {i}) = SumOver(f, (i + 1)..n) + f[i]
      BY <2>1, <2>2, SumAdd
    <3> QED BY <2>1, <3>1
  <2>4. SumOver(g, i..n) = SumOver(g, (i + 1)..n) + g[i]
    <3>1. SumOver(g, ((i + 1)..n) \cup {i}) = SumOver(g, (i + 1)..n) + g[i]
      BY <2>1, <2>2, SumAdd
    <3> QED BY <2>1, <3>1
  <2>5. g[i] = Least(f[i], Monus(amount, SumOver(f, (i + 1)..n)))
    BY <2>1
  <2>6. SumOver(g, (i + 1)..n) = Least(amount, SumOver(f, (i + 1)..n))
    BY <1>4, <2>1
  <2>7. SumOver(g, i..n) = Least(amount, SumOver(f, i..n))
    BY <2>2, <2>3, <2>4, <2>5, <2>6 DEF Least, Monus
  <2> QED BY <2>7 DEF i
<1> HIDE DEF Good
<1>5. Bad = {}
  <2> SUFFICES ASSUME Bad # {} PROVE FALSE
    OBVIOUS
  <2>0. \E k \in Bad : \A j \in Bad : k <= j
    <3>1. Bad \in SUBSET Nat
      OBVIOUS
    <3> HIDE DEF Bad
    <3> QED BY <3>1, LeastElement
  <2>1. PICK k \in Bad : \A j \in Bad : k <= j
    BY <2>0
  <2>2. k # 0
    BY <1>3, <2>1
  <2>3. k \in 1..n /\ k - 1 \in 0..n /\ k - 1 \notin Bad
    BY <2>1, <2>2
  <2>4. Good(k - 1)
    BY <2>3
  <2> QED BY <1>4, <2>1, <2>3, <2>4
<1>6. Good(n)
  BY <1>5
<1>7. n - n + 1 = 1
  OBVIOUS
<1> QED BY <1>6, <1>7 DEF Good

(* Rows that hold nothing add nothing. *)
LEMMA SumOfZeros ==
  ASSUME NEW S, NEW f, \A i \in S : f[i] = 0
  PROVE  SumOver(f, S) = 0
<1>1. UnitsOf(f, S) = {}
  BY DEF UnitsOf
<1> QED BY <1>1, FS_EmptySet DEF SumOver

=============================================================================
