--------------------------- MODULE RowLocksProofs ---------------------------
(***************************************************************************)
(* Proofs about RowLocks, for any number of transactions, orders and       *)
(* products: earn rows are contended for with the expiry notice only, and  *)
(* transactions that all wait for one another need an inversion.  The rows *)
(* other than an order's own are ranked; every script but the inverting    *)
(* ones climbs, so along a ring of waiting transactions the wanted row     *)
(* would climb for ever.                                                   *)
(***************************************************************************)
EXTENDS RowLocks, SumTheorems, SequenceTheorems

-----------------------------------------------------------------------------
(* Sorting. *)

Ascending(ids) == \A i, j \in DOMAIN ids : i < j => ids[i] < ids[j]

(* How many entries are at most the k-th: its place among the sorted ones. *)
Rank(s, k) == Cardinality({m \in DOMAIN s : s[m] <= s[k]})

(* A sequence without repetitions can be sorted. *)
LEMMA CanBeSorted ==
  ASSUME NEW s \in Seq(Nat), \A i, j \in DOMAIN s : s[i] = s[j] => i = j
  PROVE  \E ids \in [DOMAIN s -> Range(s)] : Ascending(ids)
<1> DEFINE D == DOMAIN s
           Upto(k) == {m \in D : s[m] <= s[k]}
           rank == [k \in D |-> Rank(s, k)]
           At(i) == CHOOSE k \in D : rank[k] = i
           ids == [i \in D |-> s[At(i)]]
<1>1. PICK n \in Nat : D = 1..n
  BY LenProperties
<1>2. IsFiniteSet(D) /\ Cardinality(D) = n
  BY <1>1, FS_Interval
<1>3. \A k \in D : s[k] \in Nat
  BY LenProperties
<1>4. ASSUME NEW k \in D
      PROVE  IsFiniteSet(Upto(k)) /\ Cardinality(Upto(k)) \in 1..n
  <2>1. Upto(k) \in SUBSET D /\ k \in Upto(k)
    BY <1>3
  <2>2. IsFiniteSet(Upto(k)) /\ Cardinality(Upto(k)) <= n
    BY <2>1, <1>2, FS_Subset
  <2>3. Cardinality(Upto(k)) \in Nat /\ Cardinality(Upto(k)) # 0
    BY <2>1, <2>2, FS_CardinalityType, FS_EmptySet
  <2> QED BY <2>2, <2>3
<1>5. \A k \in D : rank[k] = Cardinality(Upto(k))
  BY DEF Rank
<1>6. rank \in [D -> D] /\ \A k \in D : rank[k] \in Nat
  <2>1. ASSUME NEW k \in D PROVE Rank(s, k) \in 1..n
    BY <1>4 DEF Rank
  <2>2. ASSUME NEW k \in D PROVE Rank(s, k) \in D /\ Rank(s, k) \in Nat
    BY <2>1, <1>1
  <2> QED BY <2>2
<1> HIDE DEF rank
<1>7. ASSUME NEW k \in D, NEW m \in D, s[k] < s[m]
      PROVE  rank[k] < rank[m]
  <2>1. Upto(k) \in SUBSET Upto(m) /\ m \in Upto(m) /\ m \notin Upto(k)
    BY <1>3, <1>7
  <2>2. Cardinality(Upto(k)) <= Cardinality(Upto(m)) /\ Cardinality(Upto(k)) # Cardinality(Upto(m))
    BY <2>1, <1>4, FS_Subset
  <2>3. rank[k] = Cardinality(Upto(k)) /\ rank[m] = Cardinality(Upto(m))
    BY <1>5
  <2> HIDE DEF Upto
  <2> QED BY <2>2, <2>3, <1>6
<1>8. ASSUME NEW k \in D, NEW m \in D, rank[k] = rank[m]
      PROVE  k = m
  <2>1. rank[k] \in Nat /\ rank[m] \in Nat
    BY <1>6
  <2>2. ~(s[k] < s[m]) /\ ~(s[m] < s[k])
    BY <1>7, <1>8, <2>1
  <2> QED BY <2>2, <1>3
<1>9. rank \in Injection(D, D)
  BY <1>6, <1>8, Fun_IsInj
<1>10. rank \in Surjection(D, D)
  BY <1>9, <1>2, FS_Injection
<1>11. \A i \in D : \E k \in D : rank[k] = i
  BY <1>10 DEF Surjection
<1>12. \A i \in D : At(i) \in D /\ rank[At(i)] = i
  BY <1>11
<1> HIDE DEF At
<1>13. ids \in [D -> Range(s)]
  BY <1>12 DEF Range
<1>14. ASSUME NEW i \in D, NEW j \in D, i < j
       PROVE  ids[i] < ids[j]
  <2>1. ids[i] = s[At(i)] /\ ids[j] = s[At(j)] /\ ids[i] \in Nat /\ ids[j] \in Nat
    BY <1>12, <1>3
  <2>2. ~(s[At(j)] < s[At(i)])
    BY <1>12, <1>7, <1>14, <1>1
  <2>3. s[At(i)] # s[At(j)]
    BY <1>12, <1>14, <1>1
  <2> QED BY <2>1, <2>2, <2>3
<1>15. Ascending(ids)
  BY <1>14 DEF Ascending
<1> QED BY <1>13, <1>15

(* The order's items are by product id, each product once. *)
LEMMA ItemsAscend ==
  ASSUME NEW o \in Orders
  PROVE  InItemOrder(o) \in Seq(Nat) /\ Ascending(InItemOrder(o))
<1> DEFINE s == Added[o]
           ids == InItemOrder(o)
<1>1. s \in Seq(Nat) /\ \A i, j \in DOMAIN s : s[i] = s[j] => i = j
  BY LockConstants
<1>2. \E q \in [DOMAIN s -> Range(s)] : Ascending(q)
  BY <1>1, CanBeSorted
<1>3. ids \in [DOMAIN s -> Range(s)] /\ Ascending(ids)
  BY <1>2 DEF InItemOrder, Ascending
<1>4. Range(s) \in SUBSET Nat
  BY <1>1, LenProperties DEF Range
<1>5. DOMAIN s = 1..Len(s) /\ Len(s) \in Nat
  BY <1>1, LenProperties
<1> HIDE DEF ids
<1>6. ids \in Seq(Nat)
  BY <1>3, <1>4, <1>5
<1> QED BY <1>3, <1>6 DEF ids

-----------------------------------------------------------------------------
(* The rank of rows. *)

OwnRows(o) == {Payment(o), Order(o), Items(o)}

ProductRows == {<<"product", n>> : n \in Nat}

Rows == (UNION {OwnRows(o) : o \in Orders}) \cup ProductRows \cup {Cart, User, Earned}

Strengths == {"update", "write", "refer"}

LockSet == [strength : Strengths, row : Rows]

(* Products, then the cart, then the customer, then the earn rows; 0 is for *)
(* the rows of one order.                                                   *)
Level(row) ==
  IF row[1] = "product" THEN 1
  ELSE IF row[1] = "cart" THEN 2
  ELSE IF row[1] = "user" THEN 3
  ELSE IF row[1] = "earned" THEN 4 ELSE 0

Before(q, r) == Level(q) < Level(r) \/ (Level(q) = 1 /\ Level(r) = 1 /\ q[2] < r[2])

LEMMA Levels ==
  /\ \A o : Level(Payment(o)) = 0 /\ Level(Order(o)) = 0 /\ Level(Items(o)) = 0
  /\ \A n : Level(<<"product", n>>) = 1
  /\ Level(Cart) = 2 /\ Level(User) = 3 /\ Level(Earned) = 4
BY DEF Level, Payment, Order, Items, Cart, User, Earned

LEMMA LevelOfRow ==
  ASSUME NEW row \in Rows
  PROVE  /\ Level(row) \in 0..4
         /\ Level(row) = 0 => \E o \in Orders : row \in OwnRows(o)
         /\ Level(row) = 1 => row[2] \in Nat
         /\ Level(row) = 4 <=> row = Earned
<1>1. CASE row \in UNION {OwnRows(o) : o \in Orders}
  <2>1. PICK o \in Orders : row \in OwnRows(o)
    BY <1>1
  <2>2. Level(row) = 0
    BY <2>1, Levels DEF OwnRows
  <2> QED BY <2>1, <2>2, Levels
<1>2. CASE row \in ProductRows
  <2>1. PICK n \in Nat : row = <<"product", n>>
    BY <1>2 DEF ProductRows
  <2>2. Level(row) = 1 /\ row[2] = n
    BY <2>1, Levels
  <2> QED BY <2>2, Levels
<1>3. CASE row \in {Cart, User, Earned}
  BY <1>3, Levels
<1> QED BY <1>1, <1>2, <1>3 DEF Rows

LEMMA LockAt ==
  ASSUME NEW L \in Seq(LockSet), NEW i \in 1..Len(L)
  PROVE  L[i].row \in Rows /\ L[i].strength \in Strengths /\ Level(L[i].row) \in 0..4
<1>1. L[i] \in LockSet
  BY ElementOfSeq
<1>2. L[i].row \in Rows /\ L[i].strength \in Strengths
  BY <1>1 DEF LockSet
<1> QED BY <1>2, LevelOfRow

(* Whose a row is. *)
LEMMA OneOwner ==
  ASSUME NEW o, NEW p, NEW row, row \in OwnRows(o), row \in OwnRows(p)
  PROVE  o = p
BY DEF OwnRows, Payment, Order, Items

LEMMA BeforeIsStrict ==
  ASSUME NEW q \in Rows, NEW r \in Rows
  PROVE  ~(Before(q, r) /\ Before(r, q)) /\ ~Before(q, q)
BY LevelOfRow DEF Before

(* The locks are of the order's own rows, or of rows of the levels a..b-1   *)
(* that climb.                                                              *)
Segment(L, o, a, b) ==
  /\ L \in Seq(LockSet)
  /\ \A i \in 1..Len(L) :
       \/ Level(L[i].row) = 0 /\ L[i].row \in OwnRows(o)
       \/ a <= Level(L[i].row) /\ Level(L[i].row) < b /\ Level(L[i].row) # 0
  /\ \A i, j \in 1..Len(L) :
       i < j /\ Level(L[i].row) # 0 /\ Level(L[j].row) # 0 => Before(L[i].row, L[j].row)

LEMMA Join ==
  ASSUME NEW o, NEW a \in Nat, NEW b \in Nat, NEW c \in Nat, a <= b, b <= c,
         NEW A, NEW B, Segment(A, o, a, b), Segment(B, o, b, c)
  PROVE  Segment(A \o B, o, a, c)
<1> DEFINE C == A \o B
           m == Len(A)
           n == Len(B)
<1>1. A \in Seq(LockSet) /\ B \in Seq(LockSet)
  BY DEF Segment
<1>2. m \in Nat /\ n \in Nat /\ C \in Seq(LockSet) /\ Len(C) = m + n
  BY <1>1, ConcatProperties, LenProperties
<1>3. \A i \in 1..(m + n) : C[i] = IF i <= m THEN A[i] ELSE B[i - m]
  BY <1>1, ConcatProperties
<1>4. /\ \A i \in 1..m : A[i].row \in Rows /\ Level(A[i].row) \in 0..4
      /\ \A i \in 1..n : B[i].row \in Rows /\ Level(B[i].row) \in 0..4
  BY <1>1, LockAt
<1> HIDE DEF C, m, n
<1>5. ASSUME NEW i \in 1..(m + n)
      PROVE  \/ Level(C[i].row) = 0 /\ C[i].row \in OwnRows(o)
             \/ a <= Level(C[i].row) /\ Level(C[i].row) < c /\ Level(C[i].row) # 0
  <2>1. CASE i <= m
    <3>1. i \in 1..m /\ C[i] = A[i]
      BY <1>2, <1>3, <2>1
    <3> QED BY <3>1, <1>4 DEF Segment, m
  <2>2. CASE ~(i <= m)
    <3>1. i - m \in 1..n /\ C[i] = B[i - m]
      BY <1>2, <1>3, <2>2
    <3> QED BY <3>1, <1>4 DEF Segment, n
  <2> QED BY <2>1, <2>2
<1>6. ASSUME NEW i \in 1..(m + n), NEW j \in 1..(m + n), i < j,
             Level(C[i].row) # 0, Level(C[j].row) # 0
      PROVE  Before(C[i].row, C[j].row)
  <2>1. CASE j <= m
    <3>1. i \in 1..m /\ j \in 1..m /\ C[i] = A[i] /\ C[j] = A[j]
      BY <1>2, <1>3, <1>6, <2>1
    <3> QED BY <3>1, <1>6 DEF Segment, m
  <2>2. CASE i <= m /\ ~(j <= m)
    <3>1. i \in 1..m /\ j - m \in 1..n /\ C[i] = A[i] /\ C[j] = B[j - m]
      BY <1>2, <1>3, <1>6, <2>2
    <3>2. Level(A[i].row) < b /\ b <= Level(B[j - m].row)
      BY <3>1, <1>6 DEF Segment, m, n
    <3>3. Level(A[i].row) \in Nat /\ Level(B[j - m].row) \in Nat
      BY <3>1, <1>4
    <3> QED BY <3>1, <3>2, <3>3 DEF Before
  <2>3. CASE ~(i <= m)
    <3>1. i - m \in 1..n /\ j - m \in 1..n /\ C[i] = B[i - m] /\ C[j] = B[j - m] /\ i - m < j - m
      BY <1>2, <1>3, <1>6, <2>3
    <3> QED BY <3>1, <1>6 DEF Segment, n
  <2> QED BY <2>1, <2>2, <2>3
<1> QED BY <1>2, <1>5, <1>6 DEF Segment, C

LEMMA Widen ==
  ASSUME NEW o, NEW a \in Nat, NEW b \in Nat, NEW c \in Nat, NEW d \in Nat,
         c <= a, b <= d, NEW L, Segment(L, o, a, b)
  PROVE  Segment(L, o, c, d)
<1>1. \A i \in 1..Len(L) : Level(L[i].row) \in 0..4
  BY LockAt DEF Segment
<1> QED BY <1>1 DEF Segment

LEMMA LockIn ==
  ASSUME NEW s \in Strengths, NEW row \in Rows
  PROVE  Lock(s, row) \in LockSet /\ Lock(s, row).row = row /\ Lock(s, row).strength = s
BY DEF Lock, LockSet

(* One lock on a row that is not an order's own. *)
LEMMA OneSegment ==
  ASSUME NEW o, NEW s \in Strengths, NEW row \in Rows, Level(row) # 0
  PROVE  Segment(<<Lock(s, row)>>, o, Level(row), Level(row) + 1)
<1> DEFINE l == Lock(s, row)
           L == <<l>>
<1>1. l \in LockSet /\ l.row = row
  BY LockIn
<1>2. Level(row) \in Nat
  BY LevelOfRow
<1> HIDE DEF l
<1>3. L \in Seq(LockSet) /\ Len(L) = 1 /\ L[1] = l
  BY <1>1
<1> HIDE DEF L
<1>4. \A i \in 1..Len(L) : i = 1
  BY <1>3
<1> QED BY <1>1, <1>2, <1>3, <1>4 DEF Segment, l, L

(* Locks on the order's own rows. *)
LEMMA OwnSegment ==
  ASSUME NEW o, NEW a, NEW L \in Seq(LockSet), \A i \in 1..Len(L) : L[i].row \in OwnRows(o)
  PROVE  Segment(L, o, a, a)
<1>1. \A row \in OwnRows(o) : Level(row) = 0
  BY Levels DEF OwnRows
<1> QED BY <1>1 DEF Segment

LEMMA ProductsAreLocks ==
  ASSUME NEW s \in Strengths, NEW ids \in Seq(Nat)
  PROVE  /\ Products(s, ids) \in Seq(LockSet)
         /\ Len(Products(s, ids)) = Len(ids)
         /\ \A i \in 1..Len(ids) : Products(s, ids)[i] = Lock(s, <<"product", ids[i]>>)
<1>1. Len(ids) \in Nat /\ DOMAIN ids = 1..Len(ids)
  BY LenProperties
<1>2. ASSUME NEW i \in 1..Len(ids)
      PROVE  ids[i] \in Nat /\ Lock(s, <<"product", ids[i]>>) \in LockSet
  <2>1. ids[i] \in Nat
    BY ElementOfSeq
  <2>2. <<"product", ids[i]>> \in Rows
    BY <2>1 DEF Rows, ProductRows
  <2> QED BY <2>1, <2>2, LockIn
<1> QED BY <1>1, <1>2 DEF Products

LEMMA ProductsSegment ==
  ASSUME NEW o, NEW s \in Strengths, NEW ids \in Seq(Nat), Ascending(ids)
  PROVE  Segment(Products(s, ids), o, 1, 2)
<1> DEFINE L == Products(s, ids)
<1>1. L \in Seq(LockSet) /\ Len(L) = Len(ids) /\ Len(ids) \in Nat /\ DOMAIN ids = 1..Len(ids)
  BY ProductsAreLocks, LenProperties
<1>2. ASSUME NEW i \in 1..Len(ids)
      PROVE  Level(L[i].row) = 1 /\ L[i].row[2] = ids[i]
  <2>1. L[i] = Lock(s, <<"product", ids[i]>>)
    BY ProductsAreLocks
  <2>2. L[i].row = <<"product", ids[i]>>
    BY <2>1 DEF Lock
  <2> QED BY <2>2, Levels
<1> HIDE DEF L
<1>3. \A i \in 1..Len(ids) : Level(L[i].row) = 1 /\ L[i].row[2] = ids[i]
  BY <1>2
<1>4. \A i, j \in 1..Len(ids) : i < j => ids[i] < ids[j]
  BY <1>1 DEF Ascending
<1>5. \A i, j \in 1..Len(ids) : i < j => Before(L[i].row, L[j].row)
  BY <1>3, <1>4 DEF Before
<1> QED BY <1>1, <1>3, <1>5 DEF Segment, L

-----------------------------------------------------------------------------
(* The customer's row before the earn rows. *)

HasUser(L) == \E j \in 1..Len(L) : L[j] = Lock("update", User)

(* Whoever locks earn rows has locked the customer's row for update. *)
UserFirst(L) ==
  /\ L \in Seq(LockSet)
  /\ \A i \in 1..Len(L) :
       L[i].row = Earned => \E j \in 1..Len(L) : j < i /\ L[j] = Lock("update", User)

LEMMA UserFirstJoin ==
  ASSUME NEW A, NEW B, UserFirst(A), B \in Seq(LockSet), HasUser(A) \/ UserFirst(B)
  PROVE  UserFirst(A \o B)
<1> DEFINE C == A \o B
           m == Len(A)
           n == Len(B)
           u == Lock("update", User)
<1>1. A \in Seq(LockSet) /\ B \in Seq(LockSet)
  BY DEF UserFirst
<1>2. m \in Nat /\ n \in Nat /\ C \in Seq(LockSet) /\ Len(C) = m + n
  BY <1>1, ConcatProperties, LenProperties
<1>3. \A i \in 1..(m + n) : C[i] = IF i <= m THEN A[i] ELSE B[i - m]
  BY <1>1, ConcatProperties
<1> HIDE DEF C, m, n, u
<1>4. ASSUME NEW i \in 1..(m + n), C[i].row = Earned
      PROVE  \E j \in 1..(m + n) : j < i /\ C[j] = u
  <2>1. CASE i <= m
    <3>1. i \in 1..m /\ C[i] = A[i]
      BY <1>2, <1>3, <2>1
    <3>2. PICK j \in 1..m : j < i /\ A[j] = u
      BY <3>1, <1>4 DEF UserFirst, m, u
    <3>3. j \in 1..(m + n) /\ C[j] = A[j]
      BY <1>2, <1>3, <3>2
    <3> QED BY <3>2, <3>3
  <2>2. CASE ~(i <= m) /\ HasUser(A)
    <3>1. PICK j \in 1..m : A[j] = u
      BY <2>2 DEF HasUser, m, u
    <3>2. j \in 1..(m + n) /\ C[j] = A[j] /\ j < i
      BY <1>2, <1>3, <2>2, <3>1
    <3> QED BY <3>1, <3>2
  <2>3. CASE ~(i <= m) /\ UserFirst(B)
    <3>1. i - m \in 1..n /\ C[i] = B[i - m]
      BY <1>2, <1>3, <2>3
    <3>2. PICK j \in 1..n : j < i - m /\ B[j] = u
      BY <3>1, <1>4, <2>3 DEF UserFirst, n, u
    <3>3. j + m \in 1..(m + n) /\ j + m < i /\ ~(j + m <= m) /\ (j + m) - m = j
      BY <1>2, <3>2
    <3>4. C[j + m] = B[j]
      BY <1>3, <3>3
    <3> QED BY <3>2, <3>3, <3>4
  <2> QED BY <2>1, <2>2, <2>3
<1> QED BY <1>2, <1>4 DEF UserFirst, C, u

LEMMA HasUserJoin ==
  ASSUME NEW A \in Seq(LockSet), NEW B \in Seq(LockSet), HasUser(A)
  PROVE  HasUser(A \o B)
<1>1. PICK j \in 1..Len(A) : A[j] = Lock("update", User)
  BY DEF HasUser
<1>2. Len(A) \in Nat /\ Len(B) \in Nat /\ Len(A \o B) = Len(A) + Len(B)
  BY ConcatProperties, LenProperties
<1>3. j \in 1..(Len(A) + Len(B)) /\ j <= Len(A)
  BY <1>2
<1>4. (A \o B)[j] = A[j]
  BY <1>3, ConcatProperties
<1> QED BY <1>1, <1>2, <1>3, <1>4 DEF HasUser

LEMMA NoEarnRows ==
  ASSUME NEW L \in Seq(LockSet), \A i \in 1..Len(L) : Level(L[i].row) # 4
  PROVE  UserFirst(L)
BY Levels DEF UserFirst

-----------------------------------------------------------------------------
(* Scripts that climb, the customer's row before the earn rows. *)

Fits(L, o, a, b) == Segment(L, o, a, b) /\ UserFirst(L)

LEMMA SegmentFits ==
  ASSUME NEW o, NEW a \in Nat, NEW b \in Nat, b <= 4, NEW L, Segment(L, o, a, b)
  PROVE  Fits(L, o, a, b)
<1>1. L \in Seq(LockSet)
  BY DEF Segment
<1>2. \A i \in 1..Len(L) : Level(L[i].row) \in 0..4
  BY <1>1, LockAt
<1>3. \A i \in 1..Len(L) : Level(L[i].row) # 4
  BY <1>2 DEF Segment
<1> QED BY <1>1, <1>3, NoEarnRows DEF Fits

LEMMA FitsJoin ==
  ASSUME NEW o, NEW a \in Nat, NEW b \in Nat, NEW c \in Nat, NEW d \in Nat,
         a <= b, b <= c, c <= d, NEW A, NEW B, Fits(A, o, a, b), Fits(B, o, c, d)
  PROVE  Fits(A \o B, o, a, d)
<1>1. Segment(A, o, a, c)
  <2>1. a <= a
    OBVIOUS
  <2> QED BY <2>1, Widen DEF Fits
<1>2. a <= c
  OBVIOUS
<1>3. Segment(A \o B, o, a, d)
  BY <1>1, <1>2, Join DEF Fits
<1>4. B \in Seq(LockSet)
  BY DEF Fits, Segment
<1> QED BY <1>3, <1>4, UserFirstJoin DEF Fits

OwnLocks(o) == [strength : Strengths, row : OwnRows(o)]

LEMMA OwnLockIn ==
  ASSUME NEW o \in Orders
  PROVE  /\ OwnLocks(o) \in SUBSET LockSet
         /\ \A s \in Strengths : /\ Lock(s, Payment(o)) \in OwnLocks(o)
                                 /\ Lock(s, Order(o)) \in OwnLocks(o)
                                 /\ Lock(s, Items(o)) \in OwnLocks(o)
BY DEF OwnLocks, LockSet, Rows, OwnRows, Lock

LEMMA SharedRows ==
  /\ Cart \in Rows /\ User \in Rows /\ Earned \in Rows
  /\ \A s \in Strengths : /\ Lock(s, Cart) \in LockSet /\ Lock(s, Cart).row = Cart
                          /\ Lock(s, User) \in LockSet /\ Lock(s, User).row = User
                          /\ Lock(s, Earned) \in LockSet /\ Lock(s, Earned).row = Earned
BY LockIn DEF Rows

(* One, two or three locks on the order's own rows. *)
LEMMA OwnFits ==
  ASSUME NEW o \in Orders, NEW a \in 0..4, NEW L \in Seq(LockSet),
         \A i \in 1..Len(L) : L[i] \in OwnLocks(o)
  PROVE  Fits(L, o, a, a)
<1>1. \A i \in 1..Len(L) : L[i].row \in OwnRows(o)
  BY DEF OwnLocks
<1>2. Segment(L, o, a, a)
  BY <1>1, OwnSegment
<1> QED BY <1>2, SegmentFits

LEMMA OwnFew ==
  ASSUME NEW o \in Orders, NEW a \in 0..4,
         NEW x \in OwnLocks(o), NEW y \in OwnLocks(o), NEW z \in OwnLocks(o)
  PROVE  Fits(<<x>>, o, a, a) /\ Fits(<<x, y>>, o, a, a) /\ Fits(<<x, y, z>>, o, a, a)
<1>1. x \in LockSet /\ y \in LockSet /\ z \in LockSet
  BY OwnLockIn
<1>2. Fits(<<x>>, o, a, a)
  <2>1. <<x>> \in Seq(LockSet) /\ \A i \in 1..Len(<<x>>) : <<x>>[i] \in OwnLocks(o)
    BY <1>1
  <2> QED BY <2>1, OwnFits
<1>3. Fits(<<x, y>>, o, a, a)
  <2>1. <<x, y>> \in Seq(LockSet) /\ \A i \in 1..Len(<<x, y>>) : <<x, y>>[i] \in OwnLocks(o)
    BY <1>1
  <2> QED BY <2>1, OwnFits
<1>4. Fits(<<x, y, z>>, o, a, a)
  <2>1. <<x, y, z>> \in Seq(LockSet) /\ \A i \in 1..Len(<<x, y, z>>) : <<x, y, z>>[i] \in OwnLocks(o)
    BY <1>1
  <2> QED BY <2>1, OwnFits
<1> QED BY <1>2, <1>3, <1>4

LEMMA CartFits ==
  ASSUME NEW o, NEW s \in Strengths
  PROVE  Fits(<<Lock(s, Cart)>>, o, 2, 3)
<1>1. Segment(<<Lock(s, Cart)>>, o, 2, 3)
  BY OneSegment, SharedRows, Levels
<1> QED BY <1>1, SegmentFits

LEMMA UserFits ==
  ASSUME NEW o, NEW s \in Strengths
  PROVE  Fits(<<Lock(s, User)>>, o, 3, 4)
<1>1. Segment(<<Lock(s, User)>>, o, 3, 4)
  BY OneSegment, SharedRows, Levels
<1> QED BY <1>1, SegmentFits

LEMMA ItemsFit ==
  ASSUME NEW o \in Orders, NEW s \in Strengths
  PROVE  Fits(Products(s, InItemOrder(o)), o, 1, 2)
BY ItemsAscend, ProductsSegment, SegmentFits

LEMMA PointsFit ==
  ASSUME NEW o
  PROVE  Fits(PointRows, o, 3, 5)
<1> DEFINE u == Lock("update", User)
           e == Lock("update", Earned)
<1>1. u \in LockSet /\ e \in LockSet /\ u.row = User /\ e.row = Earned
  BY SharedRows DEF Strengths
<1>2. Level(User) = 3 /\ Level(Earned) = 4
  BY Levels
<1> HIDE DEF u, e
<1>3. <<u, e>> \in Seq(LockSet) /\ Len(<<u, e>>) = 2 /\ <<u, e>>[1] = u /\ <<u, e>>[2] = e
  BY <1>1
<1>4. Segment(<<u, e>>, o, 3, 5)
  <2>1. \A i \in 1..2 : i = 1 \/ i = 2
    OBVIOUS
  <2>2. Before(User, Earned)
    BY <1>2 DEF Before
  <2> QED BY <1>1, <1>2, <1>3, <2>1, <2>2 DEF Segment
<1>5. UserFirst(<<u, e>>)
  <2>1. \A i \in 1..2 : <<u, e>>[i].row = Earned => i = 2
    BY <1>1, <1>2
  <2> QED BY <1>3, <2>1 DEF UserFirst, u
<1> QED BY <1>4, <1>5 DEF Fits, PointRows, u, e

-----------------------------------------------------------------------------
(* The scripts, one by one. *)

First(L, l) == L \in Seq(LockSet) /\ 1 \in 1..Len(L) /\ L[1] = l

LEMMA FirstJoin ==
  ASSUME NEW A, NEW B \in Seq(LockSet), NEW l, First(A, l)
  PROVE  First(A \o B, l)
<1>1. A \in Seq(LockSet) /\ 1 \in 1..Len(A) /\ A[1] = l
  BY DEF First
<1>2. Len(A) \in Nat /\ Len(B) \in Nat
  BY <1>1, LenProperties
<1>3. /\ A \o B \in Seq(LockSet)
      /\ Len(A \o B) = Len(A) + Len(B)
      /\ \A i \in 1..(Len(A) + Len(B)) : (A \o B)[i] = IF i <= Len(A) THEN A[i] ELSE B[i - Len(A)]
  BY <1>1, ConcatProperties
<1>4. 1 \in 1..(Len(A) + Len(B)) /\ 1 <= Len(A)
  BY <1>1, <1>2
<1>5. (A \o B)[1] = A[1]
  BY <1>3, <1>4
<1> QED BY <1>1, <1>3, <1>4, <1>5 DEF First

(* A script that starts with l, climbs to below level b, and then goes on.  *)
Starts(L, l, o, b) == First(L, l) /\ Fits(L, o, 1, b)

LEMMA StartsJoin ==
  ASSUME NEW o, NEW l, NEW b \in Nat, NEW c \in Nat, NEW d \in Nat,
         1 <= b, b <= c, c <= d, NEW A, NEW B, Starts(A, l, o, b), Fits(B, o, c, d)
  PROVE  Starts(A \o B, l, o, d)
<1>1. B \in Seq(LockSet)
  BY DEF Fits, Segment
<1>2. First(A \o B, l)
  BY <1>1, FirstJoin DEF Starts
<1>3. Fits(A \o B, o, 1, d)
  BY FitsJoin DEF Starts
<1> QED BY <1>2, <1>3 DEF Starts

LEMMA OwnStart ==
  ASSUME NEW o \in Orders, NEW x \in OwnLocks(o), NEW y \in OwnLocks(o), NEW z \in OwnLocks(o)
  PROVE  Starts(<<x>>, x, o, 1) /\ Starts(<<x, y>>, x, o, 1) /\ Starts(<<x, y, z>>, x, o, 1)
<1>1. x \in LockSet /\ y \in LockSet /\ z \in LockSet
  BY OwnLockIn
<1>2. First(<<x>>, x) /\ First(<<x, y>>, x) /\ First(<<x, y, z>>, x)
  BY <1>1 DEF First
<1> QED BY <1>2, OwnFew DEF Starts

LEMMA CancelRowsFit ==
  ASSUME NEW o \in Orders
  PROVE  Fits(CancelRows(o), o, 1, 5)
<1> DEFINE A == <<Lock("update", Items(o))>>
           B == Products("write", InItemOrder(o))
<1>1. Fits(A, o, 1, 1)
  BY OwnStart, OwnLockIn DEF Starts, Strengths
<1>2. Fits(B, o, 1, 2)
  BY ItemsFit DEF Strengths
<1>3. Fits(PointRows, o, 3, 5)
  BY PointsFit
<1> HIDE DEF A, B
<1>4. Fits(A \o B, o, 1, 2)
  BY <1>1, <1>2, FitsJoin
<1>5. Fits((A \o B) \o PointRows, o, 1, 5)
  BY <1>3, <1>4, FitsJoin
<1> QED BY <1>5 DEF CancelRows, A, B

(* An own lock at the end. *)
LEMMA EndsWithOwn ==
  ASSUME NEW o \in Orders, NEW l, NEW A, Starts(A, l, o, 5), NEW x \in OwnLocks(o)
  PROVE  Starts(A \o <<x>>, l, o, 5)
<1>1. x \in LockSet /\ \A row \in OwnRows(o) : Level(row) = 0
  BY OwnLockIn, Levels DEF OwnRows
<1>2. x.row \in OwnRows(o)
  BY DEF OwnLocks
<1>3. <<x>> \in Seq(LockSet) /\ \A i \in 1..Len(<<x>>) : <<x>>[i].row \in OwnRows(o)
  BY <1>1, <1>2
<1>4. Segment(<<x>>, o, 5, 5)
  BY <1>3, OwnSegment
<1>5. UserFirst(<<x>>)
  <2>1. \A i \in 1..Len(<<x>>) : Level(<<x>>[i].row) # 4
    BY <1>1, <1>3
  <2> QED BY <1>3, <2>1, NoEarnRows
<1>6. Fits(<<x>>, o, 5, 5)
  BY <1>4, <1>5 DEF Fits
<1> QED BY <1>6, StartsJoin

LEMMA ProcessOrderClimbs ==
  ASSUME NEW o \in Orders
  PROVE  Starts(ProcessOrder(o), Lock("update", Order(o)), o, 5)
<1> DEFINE l == Lock("update", Order(o))
           A == <<Lock("update", Order(o))>>
           B == Products("update", InItemOrder(o))
           C == PointRows
<1>1. Starts(A, l, o, 1)
  BY OwnStart, OwnLockIn DEF Strengths
<1>2. Fits(B, o, 1, 2)
  BY ItemsFit DEF Strengths
<1>3. Fits(C, o, 3, 5)
  BY PointsFit
<1> HIDE DEF l, A, B, C
<1>4. Starts(A \o B, l, o, 2)
  BY <1>1, <1>2, StartsJoin
<1>5. Starts((A \o B) \o C, l, o, 5)
  BY <1>4, <1>3, StartsJoin
<1> QED BY <1>5 DEF ProcessOrder, l, A, B, C

LEMMA CancelOrderClimbs ==
  ASSUME NEW o \in Orders
  PROVE  Starts(CancelOrder(o), Lock("update", Order(o)), o, 5)
<1> DEFINE l == Lock("update", Order(o))
           A == <<Lock("update", Order(o)), Lock("write", Payment(o))>>
           B == CancelRows(o)
<1>1. Starts(A, l, o, 1)
  BY OwnStart, OwnLockIn DEF Strengths
<1>2. Fits(B, o, 1, 5)
  BY CancelRowsFit
<1> HIDE DEF l, A, B
<1>3. Starts(A \o B, l, o, 5)
  BY <1>1, <1>2, StartsJoin
<1> QED BY <1>3 DEF CancelOrder, l, A, B

LEMMA RollbackClimbs ==
  ASSUME NEW o \in Orders
  PROVE  Starts(RollbackPaymentFailure(o), Lock("update", Order(o)), o, 5)
<1> DEFINE l == Lock("update", Order(o))
           A == <<Lock("update", Order(o))>>
           B == CancelRows(o)
<1>1. Starts(A, l, o, 1)
  BY OwnStart, OwnLockIn DEF Strengths
<1>2. Fits(B, o, 1, 5)
  BY CancelRowsFit
<1>3. Lock("write", Payment(o)) \in OwnLocks(o)
  BY OwnLockIn DEF Strengths
<1> HIDE DEF l, A, B
<1>4. Starts(A \o B, l, o, 5)
  BY <1>1, <1>2, StartsJoin
<1>5. Starts((A \o B) \o <<Lock("write", Payment(o))>>, l, o, 5)
  BY <1>4, <1>3, EndsWithOwn
<1> QED BY <1>5 DEF RollbackPaymentFailure, l, A, B

LEMMA PointsOnlyClimbs ==
  ASSUME NEW o \in Orders
  PROVE  Starts(PointsOnlyPayment(o), Lock("update", Order(o)), o, 3)
<1> DEFINE l == Lock("update", Order(o))
           A == <<Lock("update", Order(o)), Lock("write", Payment(o))>>
           B == Products("update", InItemOrder(o))
           C == <<Lock("write", Cart)>>
<1>1. Starts(A, l, o, 1)
  BY OwnStart, OwnLockIn DEF Strengths
<1>2. Fits(B, o, 1, 2)
  BY ItemsFit DEF Strengths
<1>3. Fits(C, o, 2, 3)
  BY CartFits DEF Strengths
<1> HIDE DEF l, A, B, C
<1>4. Starts(A \o B, l, o, 2)
  BY <1>1, <1>2, StartsJoin
<1>5. Starts((A \o B) \o C, l, o, 3)
  BY <1>4, <1>3, StartsJoin
<1> QED BY <1>5 DEF PointsOnlyPayment, l, A, B, C

LEMMA FinalizeClimbs ==
  ASSUME NEW o \in Orders
  PROVE  Starts(FinalizePaymentConfirm(o), Lock("update", Payment(o)), o, 3)
<1> DEFINE l == Lock("update", Payment(o))
           A == <<Lock("update", Payment(o)), Lock("update", Order(o)), Lock("update", Items(o))>>
           B == Products("write", InItemOrder(o))
           C == <<Lock("write", Cart)>>
<1>1. Starts(A, l, o, 1)
  BY OwnStart, OwnLockIn DEF Strengths
<1>2. Fits(B, o, 1, 2)
  BY ItemsFit DEF Strengths
<1>3. Fits(C, o, 2, 3)
  BY CartFits DEF Strengths
<1> HIDE DEF l, A, B, C
<1>4. Starts(A \o B, l, o, 2)
  BY <1>1, <1>2, StartsJoin
<1>5. Starts((A \o B) \o C, l, o, 3)
  BY <1>4, <1>3, StartsJoin
<1> QED BY <1>5 DEF FinalizePaymentConfirm, l, A, B, C

LEMMA DoneClimbs ==
  ASSUME NEW o \in Orders
  PROVE  Starts(HandlePaymentDone(o), Lock("update", Payment(o)), o, 4)
<1> DEFINE l == Lock("update", Payment(o))
           A == FinalizePaymentConfirm(o)
           B == <<Lock("write", User)>>
<1>1. Starts(A, l, o, 3)
  BY FinalizeClimbs
<1>2. Fits(B, o, 3, 4)
  BY UserFits DEF Strengths
<1> HIDE DEF l, A, B
<1>3. Starts(A \o B, l, o, 4)
  BY <1>1, <1>2, StartsJoin
<1> QED BY <1>3 DEF HandlePaymentDone, l, A, B

LEMMA CanceledClimbs ==
  ASSUME NEW o \in Orders
  PROVE  Starts(HandlePaymentCanceled(o), Lock("update", Payment(o)), o, 5)
<1> DEFINE l == Lock("update", Payment(o))
           A == <<Lock("update", Payment(o))>>
           B == Products("write", InItemOrder(o))
           C == PointRows
<1>1. Starts(A, l, o, 1)
  BY OwnStart, OwnLockIn DEF Strengths
<1>2. Fits(B, o, 1, 2)
  BY ItemsFit DEF Strengths
<1>3. Fits(C, o, 3, 5)
  BY PointsFit
<1>4. Lock("write", Order(o)) \in OwnLocks(o)
  BY OwnLockIn DEF Strengths
<1> HIDE DEF l, A, B, C
<1>5. Starts(A \o B, l, o, 2)
  BY <1>1, <1>2, StartsJoin
<1>6. Starts((A \o B) \o C, l, o, 5)
  BY <1>5, <1>3, StartsJoin
<1>7. Starts(((A \o B) \o C) \o <<Lock("write", Order(o))>>, l, o, 5)
  BY <1>6, <1>4, EndsWithOwn
<1> QED BY <1>7 DEF HandlePaymentCanceled, l, A, B, C

LEMMA DepositClimbs ==
  ASSUME NEW o \in Orders
  PROVE  Starts(HandleWaitingForDeposit(o), Lock("update", Payment(o)), o, 5)
<1> DEFINE l == Lock("update", Payment(o))
           A == <<Lock("update", Payment(o))>>
           B == CancelRows(o)
<1>1. Starts(A, l, o, 1)
  BY OwnStart, OwnLockIn DEF Strengths
<1>2. Fits(B, o, 1, 5)
  BY CancelRowsFit
<1>3. Lock("write", Order(o)) \in OwnLocks(o)
  BY OwnLockIn DEF Strengths
<1> HIDE DEF l, A, B
<1>4. Starts(A \o B, l, o, 5)
  BY <1>1, <1>2, StartsJoin
<1>5. Starts((A \o B) \o <<Lock("write", Order(o))>>, l, o, 5)
  BY <1>4, <1>3, EndsWithOwn
<1> QED BY <1>5 DEF HandleWaitingForDeposit, l, A, B

LEMMA CloseAccountClimbs ==
  ASSUME NEW o \in Orders
  PROVE  Starts(CancelWaitingDeposit(o), Lock("update", Payment(o)), o, 5)
<1> DEFINE l == Lock("update", Payment(o))
           A == <<Lock("update", Payment(o)), Lock("update", Order(o))>>
           B == CancelRows(o)
<1>1. Starts(A, l, o, 1)
  BY OwnStart, OwnLockIn DEF Strengths
<1>2. Fits(B, o, 1, 5)
  BY CancelRowsFit
<1> HIDE DEF l, A, B
<1>3. Starts(A \o B, l, o, 5)
  BY <1>1, <1>2, StartsJoin
<1> QED BY <1>3 DEF CancelWaitingDeposit, l, A, B

LEMMA CancelUnearnedClimbs ==
  ASSUME NEW o \in Orders
  PROVE  Starts(CancelPaymentNoneEarned(o), Lock("update", Payment(o)), o, 5)
<1> DEFINE l == Lock("update", Payment(o))
           A == <<Lock("update", Payment(o)), Lock("update", Order(o))>>
           B == Products("update", InItemOrder(o))
           C == PointRows
<1>1. Starts(A, l, o, 1)
  BY OwnStart, OwnLockIn DEF Strengths
<1>2. Fits(B, o, 1, 2)
  BY ItemsFit DEF Strengths
<1>3. Fits(C, o, 3, 5)
  BY PointsFit
<1> HIDE DEF l, A, B, C
<1>4. Starts(A \o B, l, o, 2)
  BY <1>1, <1>2, StartsJoin
<1>5. Starts((A \o B) \o C, l, o, 5)
  BY <1>4, <1>3, StartsJoin
<1> QED BY <1>5 DEF CancelPaymentNoneEarned, l, A, B, C

LEMMA CreatePaymentClimbs ==
  ASSUME NEW o \in Orders
  PROVE  Starts(CreatePayment(o), Lock("update", Order(o)), o, 1)
BY OwnStart, OwnLockIn DEF CreatePayment, Strengths

LEMMA AddPointsClimbs ==
  ASSUME NEW o \in Orders
  PROVE  Starts(AddPointsAfterPayment(o), Lock("update", Order(o)), o, 4)
<1> DEFINE x == Lock("update", Order(o))
           y == Lock("write", User)
           z == Lock("refer", Payment(o))
           L == <<x, y, z>>
<1>1. x \in LockSet /\ y \in LockSet /\ z \in LockSet
  BY OwnLockIn, SharedRows DEF Strengths
<1>2. x.row = Order(o) /\ y.row = User /\ z.row = Payment(o)
  BY DEF Lock
<1>3. Level(x.row) = 0 /\ Level(y.row) = 3 /\ Level(z.row) = 0
      /\ x.row \in OwnRows(o) /\ z.row \in OwnRows(o)
  BY <1>2, Levels DEF OwnRows
<1> HIDE DEF x, y, z
<1>4. L \in Seq(LockSet) /\ Len(L) = 3 /\ L[1] = x /\ L[2] = y /\ L[3] = z
  BY <1>1
<1> HIDE DEF L
<1>5. \A i \in 1..3 : i = 1 \/ i = 2 \/ i = 3
  OBVIOUS
<1>6. Segment(L, o, 1, 4)
  BY <1>3, <1>4, <1>5 DEF Segment
<1>7. Fits(L, o, 1, 4)
  BY <1>6, SegmentFits
<1> QED BY <1>4, <1>7 DEF Starts, First, AddPointsAfterPayment, L, x, y, z

LEMMA ConfirmClimbs ==
  ASSUME NEW o \in Orders
  PROVE  Starts(ConfirmPayment(o), Lock("update", Payment(o)), o, 4)
<1> DEFINE l == Lock("update", Payment(o))
           A == <<l>>
           B == Products("update", InItemOrder(o))
           x == Lock("write", Order(o))
           y == Lock("write", Cart)
           z == Lock("write", User)
           L == <<x, y, z>>
<1>1. Starts(A, l, o, 1)
  BY OwnStart, OwnLockIn DEF Strengths
<1>2. Fits(B, o, 1, 2)
  BY ItemsFit DEF Strengths
<1>3. x \in LockSet /\ y \in LockSet /\ z \in LockSet
  BY OwnLockIn, SharedRows DEF Strengths
<1>4. x.row = Order(o) /\ y.row = Cart /\ z.row = User
  BY DEF Lock
<1>5. Level(x.row) = 0 /\ Level(y.row) = 2 /\ Level(z.row) = 3 /\ x.row \in OwnRows(o)
  BY <1>4, Levels DEF OwnRows
<1> HIDE DEF l, A, B, x, y, z
<1>6. L \in Seq(LockSet) /\ Len(L) = 3 /\ L[1] = x /\ L[2] = y /\ L[3] = z
  BY <1>3
<1> HIDE DEF L
<1>7. \A i \in 1..3 : i = 1 \/ i = 2 \/ i = 3
  OBVIOUS
<1>8. Before(y.row, z.row)
  BY <1>5 DEF Before
<1>9. Segment(L, o, 2, 4)
  BY <1>5, <1>6, <1>7, <1>8 DEF Segment
<1>10. Fits(L, o, 2, 4)
  BY <1>9, SegmentFits
<1>11. Starts(A \o B, l, o, 2)
  BY <1>1, <1>2, StartsJoin
<1>12. Starts((A \o B) \o L, l, o, 4)
  BY <1>10, <1>11, StartsJoin
<1> QED BY <1>12 DEF ConfirmPayment, l, A, B, x, y, z, L

(* The requests that lock nothing of an order. *)
LEMMA CreateOrderClimbs ==
  ASSUME NEW o
  PROVE  /\ Fits(CreateOrderHybrid(o), o, 2, 4)
         /\ \A i \in 1..Len(CreateOrderHybrid(o)) : Level(CreateOrderHybrid(o)[i].row) # 0
<1> DEFINE x == Lock("update", Cart)
           y == Lock("refer", User)
           L == <<x, y>>
<1>1. x \in LockSet /\ y \in LockSet /\ x.row = Cart /\ y.row = User
  BY SharedRows DEF Strengths
<1>2. Level(x.row) = 2 /\ Level(y.row) = 3
  BY <1>1, Levels
<1> HIDE DEF x, y
<1>3. L \in Seq(LockSet) /\ Len(L) = 2 /\ L[1] = x /\ L[2] = y
  BY <1>1
<1> HIDE DEF L
<1>4. \A i \in 1..2 : i = 1 \/ i = 2
  OBVIOUS
<1>5. Before(x.row, y.row)
  BY <1>2 DEF Before
<1>6. Segment(L, o, 2, 4)
  BY <1>2, <1>3, <1>4, <1>5 DEF Segment
<1>7. Fits(L, o, 2, 4)
  BY <1>6, SegmentFits
<1>8. \A i \in 1..Len(L) : Level(L[i].row) # 0
  BY <1>2, <1>3, <1>4
<1> QED BY <1>7, <1>8 DEF CreateOrderHybrid, L, x, y

LEMMA NoticeClimbs ==
  ASSUME NEW o
  PROVE  /\ Segment(SendExpiryNotice(o), o, 4, 5) /\ Len(SendExpiryNotice(o)) = 1
         /\ \A i \in 1..Len(SendExpiryNotice(o)) : Level(SendExpiryNotice(o)[i].row) # 0
<1> DEFINE e == Lock("write", Earned)
           L == <<e>>
<1>1. e \in LockSet /\ Level(e.row) = 4
  BY SharedRows, Levels DEF Strengths
<1>2. Segment(<<Lock("write", Earned)>>, o, 4, 5)
  BY OneSegment, SharedRows, Levels DEF Strengths
<1>3. SendExpiryNotice(o) = L
  BY DEF SendExpiryNotice
<1> HIDE DEF e
<1>4. Len(L) = 1 /\ L[1] = e
  OBVIOUS
<1> HIDE DEF L
<1>5. \A i \in 1..Len(L) : Level(L[i].row) # 0
  BY <1>1, <1>4
<1> QED BY <1>2, <1>3, <1>4, <1>5 DEF SendExpiryNotice

LEMMA ExpireClimbs ==
  ASSUME NEW o
  PROVE  /\ Fits(ExpireOne(o), o, 3, 5)
         /\ \A i \in 1..Len(ExpireOne(o)) : Level(ExpireOne(o)[i].row) # 0
<1> DEFINE u == Lock("update", User)
           e == Lock("update", Earned)
<1>1. Level(u.row) = 3 /\ Level(e.row) = 4
  BY Levels DEF Lock
<1> HIDE DEF u, e
<1>2. \A i \in 1..Len(<<u, e>>) : Level(<<u, e>>[i].row) # 0
  BY <1>1
<1> QED BY <1>2, PointsFit DEF ExpireOne, PointRows, u, e

(* The scripts with an order of their own still lock the customer first. *)
LEMMA ProductsUserFirst ==
  ASSUME NEW s \in Strengths, NEW ids \in Seq(Nat)
  PROVE  Products(s, ids) \in Seq(LockSet) /\ UserFirst(Products(s, ids))
<1>1. Len(ids) \in Nat
  BY LenProperties
<1>2. ASSUME NEW i \in 1..Len(ids)
      PROVE  Level(Products(s, ids)[i].row) # 4
  <2>1. Products(s, ids)[i] = Lock(s, <<"product", ids[i]>>)
    BY ProductsAreLocks
  <2>2. Products(s, ids)[i].row = <<"product", ids[i]>>
    BY <2>1 DEF Lock
  <2> QED BY <2>2, Levels
<1> QED BY <1>2, ProductsAreLocks, NoEarnRows

LEMMA ProcessFailsUserFirst ==
  ASSUME NEW o \in Orders
  PROVE  UserFirst(ProcessOrderFails(o))
<1>1. UserFirst(ProcessOrder(o))
  BY ProcessOrderClimbs DEF Starts, Fits
<1>2. UserFirst(<<Lock("update", Cart)>>)
  BY CartFits DEF Fits, Strengths
<1> QED BY <1>1, <1>2, UserFirstJoin DEF ProcessOrderFails, UserFirst

LEMMA RefundUserFirst ==
  ASSUME NEW o \in Orders, NEW s \in Strengths, NEW ids \in Seq(Nat)
  PROVE  UserFirst(<<Lock("update", Payment(o)), Lock("update", Order(o)), Lock("update", User)>>
                     \o Products(s, ids) \o <<Lock("update", Earned)>>)
<1> DEFINE x == Lock("update", Payment(o))
           y == Lock("update", Order(o))
           u == Lock("update", User)
           e == Lock("update", Earned)
           A == <<x, y, u>>
           B == Products(s, ids)
<1>1. x \in LockSet /\ y \in LockSet /\ u \in LockSet /\ e \in LockSet
  BY OwnLockIn, SharedRows DEF Strengths
<1>2. Level(x.row) = 0 /\ Level(y.row) = 0 /\ Level(u.row) = 3
  BY Levels DEF Lock
<1>3. B \in Seq(LockSet) /\ UserFirst(B)
  BY ProductsUserFirst
<1> HIDE DEF x, y, u, e, B
<1>4. A \in Seq(LockSet) /\ Len(A) = 3 /\ A[1] = x /\ A[2] = y /\ A[3] = u
  BY <1>1
<1>5. <<e>> \in Seq(LockSet)
  BY <1>1
<1> HIDE DEF A
<1>6. \A i \in 1..Len(A) : Level(A[i].row) # 4
  BY <1>2, <1>4
<1>7. UserFirst(A) /\ HasUser(A)
  <2>1. UserFirst(A)
    BY <1>4, <1>6, NoEarnRows
  <2>2. 3 \in 1..Len(A)
    BY <1>4
  <2> QED BY <1>4, <2>1, <2>2 DEF HasUser, u
<1>8. UserFirst(A \o B) /\ HasUser(A \o B)
  BY <1>3, <1>4, <1>7, UserFirstJoin, HasUserJoin
<1>9. UserFirst((A \o B) \o <<e>>)
  BY <1>5, <1>8, UserFirstJoin
<1> QED BY <1>9 DEF A, B, x, y, u, e

LEMMA ExchangeUserFirst ==
  ASSUME NEW o \in Orders
  PROVE  UserFirst(CompleteExchange(o))
<1>1. UserFirst(Products("update", Listed[o]))
  BY ProductsUserFirst, LockConstants DEF Strengths
<1>2. UserFirst(<<Lock("refer", User)>>)
  BY UserFits DEF Fits, Strengths
<1> QED BY <1>1, <1>2, UserFirstJoin DEF CompleteExchange, UserFirst

LEMMA AddItemsUserFirst ==
  ASSUME NEW o \in Orders
  PROVE  UserFirst(AddItems(o))
<1>1. UserFirst(Products("refer", Added[o]))
  BY ProductsUserFirst, LockConstants DEF Strengths
<1>2. UserFirst(<<Lock("update", Cart)>>)
  BY CartFits DEF Fits, Strengths
<1> QED BY <1>1, <1>2, UserFirstJoin DEF AddItems, UserFirst

-----------------------------------------------------------------------------
(* The families. *)

LEMMA ScriptOf ==
  ASSUME NEW o \in Orders
  PROVE /\ Scripts[o]["process_order"] = ProcessOrder(o)
         /\ Scripts[o]["process_fails"] = ProcessOrderFails(o)
         /\ Scripts[o]["cancel_order"] = CancelOrder(o)
         /\ Scripts[o]["rollback"] = RollbackPaymentFailure(o)
         /\ Scripts[o]["create_payment"] = CreatePayment(o)
         /\ Scripts[o]["points_only"] = PointsOnlyPayment(o)
         /\ Scripts[o]["add_points"] = AddPointsAfterPayment(o)
         /\ Scripts[o]["finalize"] = FinalizePaymentConfirm(o)
         /\ Scripts[o]["confirm"] = ConfirmPayment(o)
         /\ Scripts[o]["done"] = HandlePaymentDone(o)
         /\ Scripts[o]["canceled"] = HandlePaymentCanceled(o)
         /\ Scripts[o]["deposit"] = HandleWaitingForDeposit(o)
         /\ Scripts[o]["close_account"] = CancelWaitingDeposit(o)
         /\ Scripts[o]["cancel_payment"] = CancelPayment(o)
         /\ Scripts[o]["cancel_unearned"] = CancelPaymentNoneEarned(o)
         /\ Scripts[o]["refund"] = CompleteRefund(o)
         /\ Scripts[o]["exchange"] = CompleteExchange(o)
         /\ Scripts[o]["create_order"] = CreateOrderHybrid(o)
         /\ Scripts[o]["add_items"] = AddItems(o)
         /\ Scripts[o]["expire"] = ExpireOne(o)
         /\ Scripts[o]["notice"] = SendExpiryNotice(o)
BY DEF Scripts, Script

(* A family's script: the first lock, then locks that climb. *)
Climbs(L, l, o) == First(L, l) /\ Segment(L, o, 1, 5) /\ UserFirst(L)

LEMMA StartsClimb ==
  ASSUME NEW o, NEW l, NEW L, NEW b \in 0..5, Starts(L, l, o, b)
  PROVE  Climbs(L, l, o)
<1>1. Segment(L, o, 1, 5)
  BY Widen DEF Starts, Fits
<1> QED BY <1>1 DEF Starts, Fits, Climbs

LEMMA OrderFirstClimbs ==
  ASSUME NEW o \in Orders, NEW kind \in OrderFirst
  PROVE  Climbs(Scripts[o][kind], Lock("update", Order(o)), o)
<1> DEFINE l == Lock("update", Order(o))
<1>1. Climbs(ProcessOrder(o), l, o)
  BY ProcessOrderClimbs, StartsClimb
<1>2. Climbs(CancelOrder(o), l, o)
  BY CancelOrderClimbs, StartsClimb
<1>3. Climbs(RollbackPaymentFailure(o), l, o)
  BY RollbackClimbs, StartsClimb
<1>4. Climbs(CreatePayment(o), l, o)
  BY CreatePaymentClimbs, StartsClimb
<1>5. Climbs(PointsOnlyPayment(o), l, o)
  BY PointsOnlyClimbs, StartsClimb
<1>6. Climbs(AddPointsAfterPayment(o), l, o)
  BY AddPointsClimbs, StartsClimb
<1> HIDE DEF l
<1>7. Climbs(Scripts[o][kind], l, o)
  BY <1>1, <1>2, <1>3, <1>4, <1>5, <1>6, ScriptOf DEF OrderFirst
<1> QED BY <1>7 DEF l

LEMMA PaymentFirstClimbs ==
  ASSUME NEW o \in Orders, NEW kind \in PaymentFirst
  PROVE  Climbs(Scripts[o][kind], Lock("update", Payment(o)), o)
<1> DEFINE l == Lock("update", Payment(o))
<1>1. Climbs(FinalizePaymentConfirm(o), l, o)
  BY FinalizeClimbs, StartsClimb
<1>2. Climbs(ConfirmPayment(o), l, o)
  BY ConfirmClimbs, StartsClimb
<1>3. Climbs(HandlePaymentDone(o), l, o)
  BY DoneClimbs, StartsClimb
<1>4. Climbs(HandlePaymentCanceled(o), l, o)
  BY CanceledClimbs, StartsClimb
<1>5. Climbs(HandleWaitingForDeposit(o), l, o)
  BY DepositClimbs, StartsClimb
<1>6. Climbs(CancelWaitingDeposit(o), l, o)
  BY CloseAccountClimbs, StartsClimb
<1>7. Climbs(CancelPaymentNoneEarned(o), l, o)
  BY CancelUnearnedClimbs, StartsClimb
<1> HIDE DEF l
<1>8. Climbs(Scripts[o][kind], l, o)
  BY <1>1, <1>2, <1>3, <1>4, <1>5, <1>6, <1>7, ScriptOf DEF PaymentFirst
<1> QED BY <1>8 DEF l

LEMMA NoPaymentClimbs ==
  ASSUME NEW o \in Orders, NEW kind \in NoPayment
  PROVE  /\ Segment(Scripts[o][kind], o, 1, 5)
         /\ kind # "notice" => UserFirst(Scripts[o][kind])
         /\ \A i \in 1..Len(Scripts[o][kind]) : Level(Scripts[o][kind][i].row) # 0
<1>1. Segment(CreateOrderHybrid(o), o, 1, 5) /\ UserFirst(CreateOrderHybrid(o))
  BY CreateOrderClimbs, Widen DEF Fits
<1>2. Segment(ExpireOne(o), o, 1, 5) /\ UserFirst(ExpireOne(o))
  BY ExpireClimbs, Widen DEF Fits
<1>3. CASE kind = "create_order"
  <2>1. Scripts[o][kind] = CreateOrderHybrid(o)
    BY <1>3, ScriptOf
  <2> QED BY <1>1, <2>1, CreateOrderClimbs
<1>4. CASE kind = "expire"
  <2>1. Scripts[o][kind] = ExpireOne(o)
    BY <1>4, ScriptOf
  <2> QED BY <1>2, <2>1, ExpireClimbs
<1>5. CASE kind = "notice"
  <2>1. Scripts[o][kind] = SendExpiryNotice(o)
    BY <1>5, ScriptOf
  <2>2. Segment(SendExpiryNotice(o), o, 1, 5)
    BY NoticeClimbs, Widen
  <2> QED BY <1>5, <2>1, <2>2, NoticeClimbs
<1> QED BY <1>3, <1>4, <1>5 DEF NoPayment

(* Every kind but the notice locks the customer's row before earn rows. *)
LEMMA EveryKindUserFirst ==
  ASSUME NEW o \in Orders, NEW kind \in Kinds, kind # "notice"
  PROVE  UserFirst(Scripts[o][kind])
<1>1. CASE kind \in OrderFirst \cup PaymentFirst
  BY <1>1, OrderFirstClimbs, PaymentFirstClimbs DEF Climbs
<1>2. CASE kind \in NoPayment
  BY <1>2, NoPaymentClimbs
<1>3. CASE kind \in Inverting
  <2>1. UserFirst(CancelPayment(o))
    BY RefundUserFirst, ItemsAscend DEF CancelPayment, Strengths
  <2>2. UserFirst(CompleteRefund(o))
    BY RefundUserFirst, LockConstants DEF CompleteRefund, Strengths
  <2>3. UserFirst(ProcessOrderFails(o)) /\ UserFirst(CompleteExchange(o)) /\ UserFirst(AddItems(o))
    BY ProcessFailsUserFirst, ExchangeUserFirst, AddItemsUserFirst
  <2> QED BY <1>3, <2>1, <2>2, <2>3, ScriptOf DEF Inverting
<1> QED BY <1>1, <1>2, <1>3 DEF Kinds

LEMMA EveryKindLocks ==
  ASSUME NEW o \in Orders, NEW kind \in Kinds
  PROVE  /\ Scripts[o][kind] \in Seq(LockSet)
         /\ kind = "notice" => Len(Scripts[o][kind]) = 1
<1>1. CASE kind = "notice"
  BY <1>1, ScriptOf, NoticeClimbs DEF Segment
<1>2. CASE kind # "notice"
  BY <1>2, EveryKindUserFirst DEF UserFirst
<1> QED BY <1>1, <1>2

-----------------------------------------------------------------------------
(* The inductive invariant: no two transactions hold locks that conflict.   *)

WellFormed ==
  /\ tx \in [Txs -> {Idle} \cup [kind : Kinds, order : Orders, held : Nat]]
  /\ \A t \in Running : tx[t].held <= Len(Locks(t))

Compatible(l, m) == l.row = m.row => ~Conflict(l.strength, m.strength)

Exclusion ==
  \A s, t \in Running :
    s # t => \A i \in 1..tx[s].held, j \in 1..tx[t].held : Compatible(Locks(s)[i], Locks(t)[j])

LockInv == WellFormed /\ Exclusion

LEMMA CompatibleIsSymmetric ==
  ASSUME NEW l, NEW m, Compatible(l, m)
  PROVE  Compatible(m, l)
BY DEF Compatible, Conflict

LEMMA RunningType ==
  ASSUME WellFormed, NEW t \in Running
  PROVE  /\ t \in Txs /\ tx[t].kind \in Kinds /\ tx[t].order \in Orders /\ tx[t].held \in Nat
         /\ Locks(t) \in Seq(LockSet) /\ Len(Locks(t)) \in Nat /\ tx[t].held <= Len(Locks(t))
         /\ tx[t].kind # "notice" => UserFirst(Locks(t))
         /\ tx[t].kind = "notice" => Len(Locks(t)) = 1
<1>1. t \in Txs /\ tx[t] \in [kind : Kinds, order : Orders, held : Nat]
  BY DEF Running, WellFormed
<1>2. tx[t].kind \in Kinds /\ tx[t].order \in Orders /\ tx[t].held \in Nat
  BY <1>1
<1>3. tx[t].kind # "notice" => UserFirst(Locks(t))
  BY <1>2, EveryKindUserFirst DEF Locks
<1>4. Locks(t) \in Seq(LockSet) /\ (tx[t].kind = "notice" => Len(Locks(t)) = 1)
  BY <1>2, EveryKindLocks DEF Locks
<1>5. Len(Locks(t)) \in Nat
  BY <1>4, LenProperties
<1> QED BY <1>1, <1>2, <1>3, <1>4, <1>5 DEF WellFormed

(* Transactions that end give up their locks; the others keep them. *)
LEMMA OthersKeep ==
  ASSUME WellFormed, NEW t \in Txs, NEW r, tx' = [tx EXCEPT ![t] = r], NEW s \in Txs, s # t
  PROVE  tx'[s] = tx[s] /\ (s \in Running' <=> s \in Running) /\ Locks(s)' = Locks(s)
<1>1. tx'[s] = tx[s]
  BY DEF WellFormed
<1> QED BY <1>1 DEF Running, Locks

LEMMA EndKeepsLocks ==
  ASSUME LockInv, NEW t \in Txs, tx' = [tx EXCEPT ![t] = Idle]
  PROVE  LockInv'
<1>1. WellFormed
  BY DEF LockInv
<1>2. tx' \in [Txs -> {Idle} \cup [kind : Kinds, order : Orders, held : Nat]] /\ tx'[t] = Idle
  BY <1>1 DEF WellFormed
<1>3. t \notin Running'
  BY <1>2 DEF Running
<1>4. ASSUME NEW s \in Running'
      PROVE  s \in Running /\ tx'[s] = tx[s] /\ Locks(s)' = Locks(s)
  <2>1. s \in Txs /\ s # t
    BY <1>3 DEF Running
  <2> QED BY <2>1, <1>1, OthersKeep
<1>5. WellFormed'
  BY <1>1, <1>2, <1>4 DEF WellFormed
<1>6. Exclusion'
  BY <1>4 DEF LockInv, Exclusion
<1> QED BY <1>5, <1>6 DEF LockInv

LEMMA BeginKeepsLocks ==
  ASSUME LockInv, NEW t \in Txs, NEW kind \in Kinds, NEW o \in Orders, Begin(t, kind, o)
  PROVE  LockInv'
<1> DEFINE r == [kind |-> kind, order |-> o, held |-> 0]
<1>1. WellFormed
  BY DEF LockInv
<1>2. r \in [kind : Kinds, order : Orders, held : Nat] /\ r.kind = kind /\ r.order = o /\ r.held = 0
  OBVIOUS
<1>3. tx' = [tx EXCEPT ![t] = r]
  BY DEF Begin
<1> HIDE DEF r
<1>4. tx' \in [Txs -> {Idle} \cup [kind : Kinds, order : Orders, held : Nat]] /\ tx'[t] = r
  BY <1>1, <1>2, <1>3 DEF WellFormed
<1>5. Locks(t)' = Scripts[o][kind]
  BY <1>2, <1>4 DEF Locks
<1>6. Len(Locks(t)') \in Nat
  BY <1>5, EveryKindLocks, LenProperties
<1>7. ASSUME NEW s \in Running', s # t
      PROVE  s \in Running /\ tx'[s] = tx[s] /\ Locks(s)' = Locks(s)
  <2>1. s \in Txs
    BY DEF Running
  <2> QED BY <2>1, <1>1, <1>3, <1>7, OthersKeep
<1>8. WellFormed'
  <2>1. ASSUME NEW s \in Running' PROVE tx'[s].held <= Len(Locks(s)')
    <3>1. CASE s = t
      BY <3>1, <1>2, <1>4, <1>6
    <3>2. CASE s # t
      BY <3>2, <1>1, <1>7 DEF WellFormed
    <3> QED BY <3>1, <3>2
  <2> QED BY <2>1, <1>4 DEF WellFormed
<1>9. Exclusion'
  <2>1. 1..(tx'[t].held) = {}
    BY <1>2, <1>4
  <2> QED BY <2>1, <1>7 DEF LockInv, Exclusion
<1> QED BY <1>8, <1>9 DEF LockInv

LEMMA TakeKeepsLocks ==
  ASSUME LockInv, NEW t \in Txs, Take(t)
  PROVE  LockInv'
<1> DEFINE n == tx[t].held
           r == [tx[t] EXCEPT !.held = n + 1]
<1>1. WellFormed /\ t \in Running /\ More(t)
  BY DEF LockInv, Take
<1>2. tx[t] \in [kind : Kinds, order : Orders, held : Nat]
  BY <1>1 DEF WellFormed, Running
<1>3. /\ r \in [kind : Kinds, order : Orders, held : Nat]
      /\ r.kind = tx[t].kind /\ r.order = tx[t].order /\ r.held = n + 1 /\ n \in Nat
  BY <1>2
<1>4. tx' = [tx EXCEPT ![t] = r]
  BY DEF Take
<1> HIDE DEF r
<1>5. tx' \in [Txs -> {Idle} \cup [kind : Kinds, order : Orders, held : Nat]] /\ tx'[t] = r
  BY <1>1, <1>3, <1>4 DEF WellFormed
<1>6. Locks(t)' = Locks(t) /\ tx'[t].held = n + 1
  BY <1>3, <1>5 DEF Locks
<1>7. n + 1 <= Len(Locks(t))
  BY <1>1, <1>3, RunningType DEF More
<1>8. ASSUME NEW s \in Running', s # t
      PROVE  s \in Running /\ tx'[s] = tx[s] /\ Locks(s)' = Locks(s)
  <2>1. s \in Txs
    BY DEF Running
  <2> QED BY <2>1, <1>1, <1>4, <1>8, OthersKeep
<1>9. WellFormed'
  <2>1. ASSUME NEW s \in Running' PROVE tx'[s].held <= Len(Locks(s)')
    <3>1. CASE s = t
      BY <3>1, <1>6, <1>7
    <3>2. CASE s # t
      BY <3>2, <1>1, <1>8 DEF WellFormed
    <3> QED BY <3>1, <3>2
  <2> QED BY <2>1, <1>5 DEF WellFormed
<1>10. ASSUME NEW s \in Running, s # t, NEW i \in 1..(n + 1), NEW j \in 1..tx[s].held
       PROVE  Compatible(Locks(t)[i], Locks(s)[j])
  <2>1. CASE i = n + 1
    <3>1. Locks(t)[i] = Wanted(t) /\ Locks(s)[j] \in Held(s)
      BY <2>1 DEF Wanted, Held
    <3>2. ~Waits(t, s)
      BY DEF Take
    <3>3. Compatible(Locks(s)[j], Locks(t)[i])
      BY <1>1, <1>10, <3>1, <3>2 DEF Waits, Compatible
    <3> QED BY <3>3, CompatibleIsSymmetric
  <2>2. CASE i # n + 1
    <3>1. i \in 1..n
      BY <2>2, <1>3
    <3> QED BY <3>1, <1>1, <1>10 DEF LockInv, Exclusion
  <2> QED BY <2>1, <2>2
<1>11. Exclusion'
  <2>1. ASSUME NEW s \in Running', NEW q \in Running', s # q,
               NEW i \in 1..(tx'[s].held), NEW j \in 1..(tx'[q].held)
        PROVE  Compatible(Locks(s)'[i], Locks(q)'[j])
    <3>1. CASE s = t
      BY <3>1, <2>1, <1>6, <1>8, <1>10
    <3>2. CASE q = t
      <4>1. Compatible(Locks(t)[j], Locks(s)[i])
        BY <3>2, <2>1, <1>6, <1>8, <1>10
      <4> QED BY <4>1, <3>2, <2>1, <1>6, <1>8, CompatibleIsSymmetric
    <3>3. CASE s # t /\ q # t
      BY <3>3, <2>1, <1>8 DEF LockInv, Exclusion
    <3> QED BY <3>1, <3>2, <3>3
  <2> QED BY <2>1 DEF Exclusion, Compatible
<1> QED BY <1>9, <1>11 DEF LockInv

(* Transactions never hold locks that conflict: the lock manager of         *)
(* PostgreSQL as Take has it, for any scripts.                              *)
LEMMA LocksExclude == Spec => []LockInv
<1>1. Init => LockInv
  <2>1. ASSUME Init PROVE LockInv
    <3>1. tx \in [Txs -> {Idle}] /\ Running = {}
      BY <2>1 DEF Init, Running
    <3> QED BY <3>1 DEF LockInv, WellFormed, Exclusion
  <2> QED BY <2>1
<1>2. LockInv /\ [Next]_tx => LockInv'
  <2> SUFFICES ASSUME LockInv, [Next]_tx PROVE LockInv'
    OBVIOUS
  <2>1. CASE UNCHANGED tx
    BY <2>1 DEF LockInv, WellFormed, Exclusion, Running, Locks
  <2>2. CASE Next
    <3>1. PICK t \in Txs : \/ \E kind \in Kinds, o \in Orders : Begin(t, kind, o)
                           \/ Take(t) \/ Commit(t) \/ RollBack(t)
      BY <2>2 DEF Next
    <3>2. CASE \E kind \in Kinds, o \in Orders : Begin(t, kind, o)
      BY <3>2, BeginKeepsLocks
    <3>3. CASE Take(t)
      BY <3>3, TakeKeepsLocks
    <3>4. CASE Commit(t) \/ RollBack(t)
      BY <3>4, EndKeepsLocks DEF Commit, RollBack
    <3> QED BY <3>1, <3>2, <3>3, <3>4
  <2> QED BY <2>1, <2>2
<1> QED BY <1>1, <1>2, PTL DEF Spec

-----------------------------------------------------------------------------
(* Earn rows. *)

LEMMA WaitsFor ==
  ASSUME WellFormed, NEW t \in Running, NEW s \in Running, Waits(t, s)
  PROVE  /\ s # t
         /\ tx[t].held + 1 \in 1..Len(Locks(t)) /\ tx[t].held \in Nat
         /\ Wanted(t) = Locks(t)[tx[t].held + 1]
         /\ \E i \in 1..tx[s].held : i \in 1..Len(Locks(s)) /\ Locks(s)[i].row = Wanted(t).row
<1>1. s # t /\ More(t) /\ \E l \in Held(s) : l.row = Wanted(t).row
  BY DEF Waits
<1>2. /\ tx[t].held \in Nat /\ Len(Locks(t)) \in Nat
      /\ tx[s].held \in Nat /\ Len(Locks(s)) \in Nat /\ tx[s].held <= Len(Locks(s))
  BY RunningType
<1>3. PICK i \in 1..tx[s].held : Locks(s)[i].row = Wanted(t).row
  BY <1>1 DEF Held
<1>4. i \in 1..Len(Locks(s))
  BY <1>2
<1>5. tx[t].held + 1 \in 1..Len(Locks(t))
  BY <1>1, <1>2 DEF More
<1> QED BY <1>1, <1>2, <1>3, <1>4, <1>5 DEF Wanted

(* Two transactions that are no notice do not meet at an earn row: both     *)
(* would have the customer's row.                                           *)
LEMMA EarnRowsAreGuarded ==
  ASSUME LockInv, NEW t \in Running, NEW s \in Running, Waits(t, s), Wanted(t).row = Earned
  PROVE  tx[t].kind = "notice" \/ tx[s].kind = "notice"
<1> SUFFICES ASSUME tx[t].kind # "notice", tx[s].kind # "notice" PROVE FALSE
  OBVIOUS
<1> DEFINE u == Lock("update", User)
           n == tx[t].held
<1>1. WellFormed
  BY DEF LockInv
<1>2. s # t /\ n + 1 \in 1..Len(Locks(t)) /\ n \in Nat /\ Locks(t)[n + 1].row = Earned
  BY <1>1, WaitsFor
<1>3. PICK i \in 1..tx[s].held : i \in 1..Len(Locks(s)) /\ Locks(s)[i].row = Earned
  BY <1>1, WaitsFor
<1>4. UserFirst(Locks(t)) /\ UserFirst(Locks(s)) /\ tx[s].held \in Nat
  BY <1>1, RunningType
<1> HIDE DEF u, n
<1>5. PICK j \in 1..Len(Locks(t)) : j < n + 1 /\ Locks(t)[j] = u
  BY <1>2, <1>4 DEF UserFirst, u
<1>6. PICK k \in 1..Len(Locks(s)) : k < i /\ Locks(s)[k] = u
  BY <1>3, <1>4 DEF UserFirst, u
<1>7. j \in 1..n /\ k \in 1..tx[s].held
  BY <1>2, <1>3, <1>4, <1>5, <1>6
<1>8. Compatible(u, u)
  BY <1>2, <1>5, <1>6, <1>7 DEF LockInv, Exclusion, n
<1>9. ~Compatible(u, u)
  BY DEF Compatible, Conflict, Lock, u
<1> QED BY <1>8, <1>9

(* The notice has one lock to take: none while it waits, all once it has    *)
(* one.                                                                     *)
LEMMA NoticeHasOneLock ==
  ASSUME WellFormed, NEW t \in Running, NEW s \in Running, Waits(t, s)
  PROVE  /\ tx[t].kind = "notice" => Held(t) = {}
         /\ tx[s].kind = "notice" => ~More(s)
<1>1. tx[t].held + 1 \in 1..Len(Locks(t)) /\ tx[t].held \in Nat
  BY WaitsFor
<1>2. PICK i \in 1..tx[s].held : i \in 1..Len(Locks(s))
  BY WaitsFor
<1>3. ASSUME tx[t].kind = "notice" PROVE Held(t) = {}
  <2>1. Len(Locks(t)) = 1
    BY <1>3, RunningType
  <2>2. 1..tx[t].held = {}
    BY <1>1, <2>1
  <2> QED BY <2>2 DEF Held
<1>4. ASSUME tx[s].kind = "notice" PROVE ~More(s)
  <2>1. Len(Locks(s)) = 1 /\ tx[s].held \in Nat
    BY <1>4, RunningType
  <2> QED BY <1>2, <2>1 DEF More
<1> QED BY <1>3, <1>4

(* Earn rows are contended for with the expiry notice only, which closes no *)
(* ring: whoever else wants one has the customer's row, and so has whoever  *)
(* else holds one (point_service.py:239).                                   *)
THEOREM EarnRowsTheorem == Spec => []EarnRowsMeetOnlyTheNotice
<1>1. LockInv => EarnRowsMeetOnlyTheNotice
  <2> SUFFICES ASSUME LockInv, NEW t \in Running, NEW s \in Running,
                      Waits(t, s), Wanted(t).row = Earned
               PROVE  \/ tx[t].kind = "notice" /\ Held(t) = {}
                      \/ tx[s].kind = "notice" /\ ~More(s)
    BY DEF EarnRowsMeetOnlyTheNotice
  <2>1. tx[t].kind = "notice" \/ tx[s].kind = "notice"
    BY EarnRowsAreGuarded
  <2>2. /\ tx[t].kind = "notice" => Held(t) = {}
        /\ tx[s].kind = "notice" => ~More(s)
    BY NoticeHasOneLock DEF LockInv
  <2> QED BY <2>1, <2>2
<1> QED BY <1>1, LocksExclude, PTL

-----------------------------------------------------------------------------
(* Rings. *)

FirstLock(kind, o) == IF kind \in OrderFirst THEN Lock("update", Order(o)) ELSE Lock("update", Payment(o))

(* No two of them start one order from different ends, none has an order of *)
(* its own.                                                                 *)
Orderly(S) ==
  /\ \A s, t \in S : ~(/\ tx[s].order = tx[t].order
                       /\ tx[s].kind \in OrderFirst /\ tx[t].kind \in PaymentFirst)
  /\ \A t \in S : tx[t].kind \notin Inverting

LEMMA KindsApart == OrderFirst \cap PaymentFirst = {}
BY DEF OrderFirst, PaymentFirst

LEMMA OrderlyClimbs ==
  ASSUME WellFormed, NEW t \in Running, tx[t].kind \notin Inverting
  PROVE  /\ Segment(Locks(t), tx[t].order, 1, 5)
         /\ tx[t].kind \in OrderFirst \cup PaymentFirst => First(Locks(t), FirstLock(tx[t].kind, tx[t].order))
         /\ tx[t].kind \in NoPayment => \A i \in 1..Len(Locks(t)) : Level(Locks(t)[i].row) # 0
         /\ tx[t].kind \in OrderFirst \cup PaymentFirst \cup NoPayment
<1> DEFINE k == tx[t].kind
           o == tx[t].order
<1>1. k \in Kinds /\ o \in Orders
  BY RunningType
<1>2. k \in OrderFirst \cup PaymentFirst \cup NoPayment
  BY <1>1 DEF Kinds
<1>3. Locks(t) = Scripts[o][k]
  BY DEF Locks
<1> HIDE DEF k, o
<1>4. k \in OrderFirst => Climbs(Scripts[o][k], FirstLock(k, o), o)
  BY <1>1, OrderFirstClimbs DEF FirstLock
<1>5. k \in PaymentFirst => Climbs(Scripts[o][k], FirstLock(k, o), o)
  BY <1>1, PaymentFirstClimbs, KindsApart DEF FirstLock
<1>6. k \in NoPayment => /\ Segment(Scripts[o][k], o, 1, 5)
                         /\ \A i \in 1..Len(Scripts[o][k]) : Level(Scripts[o][k][i].row) # 0
  BY <1>1, NoPaymentClimbs
<1>7. Segment(Scripts[o][k], o, 1, 5)
  BY <1>2, <1>4, <1>5, <1>6 DEF Climbs
<1>8. k \in OrderFirst \cup PaymentFirst => First(Scripts[o][k], FirstLock(k, o))
  BY <1>4, <1>5 DEF Climbs
<1> QED BY <1>2, <1>3, <1>6, <1>7, <1>8 DEF k, o

(* Whoever wants a row of its own order is at its first lock: past it, the  *)
(* others of the order are shut out.                                        *)
LEMMA OwnRowsAreGuarded ==
  ASSUME LockInv, NEW S, S \subseteq Running, Orderly(S), NEW t \in S, NEW s \in S,
         Waits(t, s), Level(Wanted(t).row) = 0
  PROVE  tx[t].held = 0
<1> DEFINE n == tx[t].held
           f == FirstLock(tx[t].kind, tx[t].order)
<1>1. WellFormed /\ t \in Running /\ s \in Running
  BY DEF LockInv
<1>2. s # t /\ n + 1 \in 1..Len(Locks(t)) /\ n \in Nat /\ Wanted(t) = Locks(t)[n + 1]
  BY <1>1, WaitsFor
<1>3. PICK i \in 1..tx[s].held : i \in 1..Len(Locks(s)) /\ Locks(s)[i].row = Wanted(t).row
  BY <1>1, WaitsFor
<1>4. tx[t].kind \notin Inverting /\ tx[s].kind \notin Inverting
  BY DEF Orderly
<1>5. Segment(Locks(t), tx[t].order, 1, 5) /\ Segment(Locks(s), tx[s].order, 1, 5)
  BY <1>1, <1>4, OrderlyClimbs
<1>6. Wanted(t).row \in OwnRows(tx[t].order)
  BY <1>2, <1>5 DEF Segment
<1>7. Wanted(t).row \in OwnRows(tx[s].order)
  BY <1>3, <1>5 DEF Segment
<1>8. tx[t].order = tx[s].order
  BY <1>6, <1>7, OneOwner
<1>9. tx[t].kind \in OrderFirst \cup PaymentFirst
  BY <1>1, <1>2, <1>4, OrderlyClimbs
<1>10. tx[s].kind \in OrderFirst \cup PaymentFirst
  BY <1>1, <1>3, <1>4, OrderlyClimbs
<1>11. tx[s].kind \in OrderFirst <=> tx[t].kind \in OrderFirst
  BY <1>8, <1>9, <1>10 DEF Orderly
<1>12. f = FirstLock(tx[s].kind, tx[s].order)
  BY <1>8, <1>11 DEF FirstLock
<1>13. Locks(t)[1] = f
  BY <1>1, <1>4, <1>9, OrderlyClimbs DEF First
<1>14. Locks(s)[1] = f
  BY <1>1, <1>4, <1>10, <1>12, OrderlyClimbs DEF First
<1>15. ~Compatible(f, f)
  BY DEF Compatible, Conflict, FirstLock, Lock
<1>16. tx[s].held \in Nat
  BY <1>1, RunningType
<1> HIDE DEF n, f
<1>17. SUFFICES ASSUME n # 0 PROVE FALSE
  BY DEF n
<1>18. 1 \in 1..n /\ 1 \in 1..tx[s].held
  BY <1>2, <1>3, <1>16, <1>17
<1>19. Compatible(Locks(t)[1], Locks(s)[1])
  BY <1>1, <1>2, <1>18 DEF LockInv, Exclusion, n
<1> QED BY <1>13, <1>14, <1>15, <1>19

(* In an orderly ring, who is waited for wants a later row. *)
LEMMA WantedClimbs ==
  ASSUME LockInv, NEW S, S \subseteq Running, Ring(S), Orderly(S), NEW t \in S, NEW s \in S, Waits(t, s)
  PROVE  Before(Wanted(t).row, Wanted(s).row)
<1> DEFINE m == tx[s].held
<1>1. WellFormed /\ t \in Running /\ s \in Running
  BY DEF LockInv
<1>2. PICK r \in S : Waits(s, r)
  BY DEF Ring
<1>3. r \in Running
  OBVIOUS
<1>4. m + 1 \in 1..Len(Locks(s)) /\ m \in Nat /\ Wanted(s) = Locks(s)[m + 1]
  BY <1>1, <1>2, <1>3, WaitsFor
<1>5. PICK i \in 1..m : i \in 1..Len(Locks(s)) /\ Locks(s)[i].row = Wanted(t).row
  BY <1>1, WaitsFor
<1>6. Level(Wanted(s).row) # 0
  <2>1. m # 0
    BY <1>4, <1>5
  <2> QED BY <1>2, <2>1, OwnRowsAreGuarded
<1>7. Segment(Locks(s), tx[s].order, 1, 5) /\ Locks(s) \in Seq(LockSet)
  BY <1>1, OrderlyClimbs, RunningType DEF Orderly
<1> HIDE DEF m
<1>8. CASE Level(Wanted(t).row) # 0
  <2>1. i < m + 1
    BY <1>4
  <2> QED BY <1>4, <1>5, <1>6, <1>7, <1>8, <2>1 DEF Segment
<1>9. CASE Level(Wanted(t).row) = 0
  <2>1. Level(Wanted(s).row) \in 0..4
    BY <1>4, <1>7, LockAt
  <2> QED BY <1>6, <1>9, <2>1 DEF Before
<1> QED BY <1>8, <1>9

(* Some row of a set is before no other. *)
LEMMA LowestRow ==
  ASSUME NEW T \in SUBSET Rows, T # {}
  PROVE  \E r \in T : \A q \in T : ~Before(q, r)
<1> DEFINE N == {Level(q) : q \in T}
<1>1. \A q \in T : Level(q) \in Nat /\ (Level(q) = 1 => q[2] \in Nat)
  BY LevelOfRow
<1>2. N \in SUBSET Nat /\ N # {}
  BY <1>1
<1>3. PICK x \in N : \A y \in N : x <= y
  BY <1>2, LeastElement
<1>4. PICK r \in T : Level(r) = x
  OBVIOUS
<1>5. \A q \in T : Level(r) <= Level(q)
  BY <1>3, <1>4
<1>6. CASE x # 1
  BY <1>1, <1>4, <1>5, <1>6 DEF Before
<1>7. CASE x = 1
  <2> DEFINE M == {q[2] : q \in {p \in T : Level(p) = 1}}
  <2>1. M \in SUBSET Nat /\ M # {}
    BY <1>1, <1>4, <1>7
  <2>2. PICK z \in M : \A y \in M : z <= y
    BY <2>1, LeastElement
  <2>3. PICK p \in T : Level(p) = 1 /\ p[2] = z
    OBVIOUS
  <2>4. \A q \in T : Level(q) = 1 => p[2] <= q[2]
    BY <2>2, <2>3
  <2>5. \A q \in T : ~Before(q, p)
    BY <1>1, <1>4, <1>5, <1>7, <2>3, <2>4 DEF Before
  <2> QED BY <2>5
<1> QED BY <1>6, <1>7

(* A smaller orderly ring: without one that wants the lowest row, for whom  *)
(* nobody waits.                                                            *)
LEMMA RingShrinks ==
  ASSUME LockInv, NEW S, S \subseteq Running, Ring(S), Orderly(S)
  PROVE  \E t \in S : Ring(S \ {t}) /\ Orderly(S \ {t})
<1> DEFINE T == {Wanted(t).row : t \in S}
<1>1. ASSUME NEW t \in S PROVE Wanted(t).row \in Rows
  <2>1. PICK s \in S : Waits(t, s)
    BY DEF Ring
  <2>2. WellFormed /\ t \in Running /\ s \in Running
    BY DEF LockInv
  <2>3. tx[t].held + 1 \in 1..Len(Locks(t)) /\ Wanted(t) = Locks(t)[tx[t].held + 1]
    BY <2>1, <2>2, WaitsFor
  <2>4. Locks(t) \in Seq(LockSet)
    BY <2>2, RunningType
  <2> QED BY <2>3, <2>4, LockAt
<1>2. T \in SUBSET Rows /\ T # {}
  BY <1>1 DEF Ring
<1>3. PICK row \in T : \A q \in T : ~Before(q, row)
  BY <1>2, LowestRow
<1>4. PICK t \in S : Wanted(t).row = row
  OBVIOUS
<1>5. \A s \in S : ~Waits(s, t)
  BY <1>3, <1>4, WantedClimbs
<1>6. \A s \in S \ {t} : \E r \in S \ {t} : Waits(s, r)
  BY <1>5 DEF Ring
<1>7. PICK r \in S : Waits(t, r)
  BY DEF Ring
<1>8. r \in S \ {t}
  BY <1>7 DEF Waits
<1>9. Ring(S \ {t})
  BY <1>6, <1>8 DEF Ring
<1>10. Orderly(S \ {t})
  BY DEF Orderly
<1> QED BY <1>9, <1>10

LEMMA NoOrderlyRing ==
  ASSUME LockInv, NEW R, R \subseteq Running, Ring(R), Orderly(R)
  PROVE  FALSE
<1> DEFINE All == {S \in SUBSET Running : Ring(S) /\ Orderly(S)}
           N == {Cardinality(S) : S \in All}
<1>1. ASSUME NEW S \in All PROVE IsFiniteSet(S) /\ Cardinality(S) \in Nat
  <2>1. S \in SUBSET Txs
    BY DEF Running
  <2> QED BY <2>1, LockConstants, FS_Subset, FS_CardinalityType
<1>2. N \in SUBSET Nat /\ N # {}
  BY <1>1
<1>3. PICK x \in N : \A y \in N : x <= y
  BY <1>2, LeastElement
<1>4. PICK S \in All : Cardinality(S) = x
  OBVIOUS
<1>5. PICK t \in S : Ring(S \ {t}) /\ Orderly(S \ {t})
  BY RingShrinks
<1>6. S \ {t} \in All
  BY <1>5
<1>7. Cardinality(S \ {t}) = Cardinality(S) - 1
  BY <1>1, FS_RemoveElement
<1>8. x <= Cardinality(S) - 1
  BY <1>3, <1>6, <1>7
<1> QED BY <1>1, <1>4, <1>8

(* Transactions that all wait for one another need, for one order, one that *)
(* starts from the order and one that starts from the payment, or one of    *)
(* the kinds that lock products or the cart in an order of their own.       *)
THEOREM RingsTheorem == Spec => []RingsNeedAnInversion
<1>1. LockInv => RingsNeedAnInversion
  <2> SUFFICES ASSUME LockInv, NEW S \in Rings,
                      ~ \E s, t \in S : tx[s].order = tx[t].order
                                        /\ tx[s].kind \in OrderFirst /\ tx[t].kind \in PaymentFirst,
                      ~ \E t \in S : tx[t].kind \in Inverting
               PROVE  FALSE
    BY DEF RingsNeedAnInversion
  <2>1. S \subseteq Running /\ Ring(S)
    BY DEF Rings
  <2>2. Orderly(S)
    BY DEF Orderly
  <2> QED BY <2>1, <2>2, NoOrderlyRing
<1> QED BY <1>1, LocksExclude, PTL

(* The transactions that start from the order never deadlock among          *)
(* themselves, and neither do those that start from the payment.            *)
THEOREM FamiliesTheorem == Spec => []FamiliesNeverDeadlock
<1>1. LockInv => FamiliesNeverDeadlock
  <2> SUFFICES ASSUME LockInv, NEW S \in Rings, NEW family \in {OrderFirst, PaymentFirst},
                      {tx[t].kind : t \in S} \subseteq family \cup NoPayment
               PROVE  FALSE
    BY DEF FamiliesNeverDeadlock
  <2>1. S \subseteq Running /\ Ring(S)
    BY DEF Rings
  <2>2. \A t \in S : tx[t].kind \in family \cup NoPayment
    OBVIOUS
  <2>3. \A k \in family \cup NoPayment : k \notin Inverting
    BY DEF OrderFirst, PaymentFirst, NoPayment, Inverting
  <2>4. OrderFirst \cap (PaymentFirst \cup NoPayment) = {} /\ PaymentFirst \cap (OrderFirst \cup NoPayment) = {}
    BY DEF OrderFirst, PaymentFirst, NoPayment
  <2>5. Orderly(S)
    BY <2>2, <2>3, <2>4 DEF Orderly
  <2> QED BY <2>1, <2>5, NoOrderlyRing
<1> QED BY <1>1, LocksExclude, PTL

=============================================================================
