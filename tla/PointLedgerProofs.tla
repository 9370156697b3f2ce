-------------------------- MODULE PointLedgerProofs --------------------------
(***************************************************************************)
(* The two ledgers of a customer's points agree, for any number of orders, *)
(* earn rows, batches and amounts.  First what each transaction of         *)
(* PointService does to the sums, then the invariant, action by action.    *)
(***************************************************************************)
EXTENDS PointLedger, SumTheorems

Acct == [balance : Nat, made : 0..MaxRows, rows : [Slots -> Row]]

(* Balance that no earn row backs. *)
Slack(a) == a.balance - SumOver(Lefts(a), Slots)

(* What is owed to orders was used, no more was used than earned, and only  *)
(* overdue rows have expired: w[i] is owed from row i, t is the time.       *)
Books(a, w, t) ==
  /\ a.balance >= SumOver(Lefts(a), Slots)
  /\ \A i \in Slots : /\ w[i] <= a.rows[i].used
                      /\ a.rows[i].used <= a.rows[i].points
                      /\ a.rows[i].expired => a.rows[i].expires <= t

(* A transaction writes no new row and changes no amount or date. *)
SameRows(a, b) ==
  /\ b.made = a.made
  /\ \A i \in Slots : b.rows[i].points = a.rows[i].points /\ b.rows[i].expires = a.rows[i].expires

-----------------------------------------------------------------------------
(* The loops. *)

LEMMA SlotsFinite == IsFiniteSet(Slots) /\ MaxRows \in Nat
BY PointConstants, FS_Interval DEF Slots

LEMMA TakeFacts ==
  ASSUME NEW avail \in [Slots -> Nat], NEW amount \in Nat
  PROVE  /\ TakeFifo(avail, amount) \in [Slots -> Nat]
         /\ \A i \in Slots : TakeFifo(avail, amount)[i] <= avail[i]
         /\ SumOver(TakeFifo(avail, amount), Slots) = Least(amount, SumOver(avail, Slots))
         /\ SumOver(avail, Slots) \in Nat
<1> DEFINE take == TakeFifo(avail, amount)
<1>1. Counts(avail, Slots)
  BY DEF Counts
<1>2. ASSUME NEW i \in Slots
      PROVE  /\ Older(i) = 1..(i - 1)
             /\ SumOver(avail, Older(i)) \in Nat
             /\ take[i] = Least(avail[i], Monus(amount, SumOver(avail, Older(i))))
  <2>1. Older(i) = 1..(i - 1)
    BY SlotsFinite DEF Older, Slots
  <2>2. Older(i) \in SUBSET Slots
    BY DEF Older
  <2> QED BY <2>1, <2>2, <1>1, SlotsFinite, SumOfPart DEF TakeFifo
<1>3. take \in [Slots -> Nat] /\ \A i \in Slots : take[i] <= avail[i]
  <2>1. ASSUME NEW i \in Slots PROVE take[i] \in Nat /\ take[i] <= avail[i]
    BY <1>2 DEF Least, Monus
  <2> QED BY <2>1 DEF TakeFifo
<1>4. SumOver(take, 1..MaxRows) = Least(amount, SumOver(avail, 1..MaxRows))
  <2>1. \A i \in 1..MaxRows : take[i] = Least(avail[i], Monus(amount, SumOver(avail, 1..(i - 1))))
    BY <1>2 DEF Slots
  <2>2. Counts(avail, 1..MaxRows)
    BY <1>1 DEF Slots
  <2> HIDE DEF take
  <2> QED BY <2>1, <2>2, SlotsFinite, SumFirst
<1> QED BY <1>1, <1>3, <1>4, SlotsFinite, SumIsNat DEF Slots

LEMMA GiveBackFacts ==
  ASSUME NEW owed \in [Slots -> Nat], NEW amount \in Nat
  PROVE  /\ GiveBackLifo(owed, amount) \in [Slots -> Nat]
         /\ \A i \in Slots : GiveBackLifo(owed, amount)[i] <= owed[i]
         /\ SumOver(GiveBackLifo(owed, amount), Slots) = Least(amount, SumOver(owed, Slots))
         /\ SumOver(owed, Slots) \in Nat
<1> DEFINE back == GiveBackLifo(owed, amount)
<1>1. Counts(owed, Slots)
  BY DEF Counts
<1>2. ASSUME NEW i \in Slots
      PROVE  /\ Newer(i) = (i + 1)..MaxRows
             /\ SumOver(owed, Newer(i)) \in Nat
             /\ back[i] = Least(owed[i], Monus(amount, SumOver(owed, Newer(i))))
  <2>1. Newer(i) = (i + 1)..MaxRows
    BY SlotsFinite DEF Newer, Slots
  <2>2. Newer(i) \in SUBSET Slots
    BY DEF Newer
  <2> QED BY <2>1, <2>2, <1>1, SlotsFinite, SumOfPart DEF GiveBackLifo
<1>3. back \in [Slots -> Nat] /\ \A i \in Slots : back[i] <= owed[i]
  <2>1. ASSUME NEW i \in Slots PROVE back[i] \in Nat /\ back[i] <= owed[i]
    BY <1>2 DEF Least, Monus
  <2> QED BY <2>1 DEF GiveBackLifo
<1>4. SumOver(back, 1..MaxRows) = Least(amount, SumOver(owed, 1..MaxRows))
  <2>1. \A i \in 1..MaxRows : back[i] = Least(owed[i], Monus(amount, SumOver(owed, (i + 1)..MaxRows)))
    BY <1>2 DEF Slots
  <2>2. Counts(owed, 1..MaxRows)
    BY <1>1 DEF Slots
  <2> HIDE DEF back
  <2> QED BY <2>1, <2>2, SlotsFinite, SumLast
<1> QED BY <1>1, <1>3, <1>4, SlotsFinite, SumIsNat DEF Slots

-----------------------------------------------------------------------------
(* The transactions. *)

LEMMA LeftsFacts ==
  ASSUME NEW a \in Acct, NEW t \in Nat
  PROVE  /\ Lefts(a) \in [Slots -> Nat]
         /\ Usable(a, t) \in [Slots -> Nat]
         /\ \A i \in Slots : Usable(a, t)[i] <= Lefts(a)[i]
         /\ SumOver(Lefts(a), Slots) \in Nat
         /\ SumOver(Usable(a, t), Slots) \in Nat
         /\ SumOver(Usable(a, t), Slots) <= SumOver(Lefts(a), Slots)
<1>1. ASSUME NEW i \in Slots PROVE Left(a.rows[i]) \in Nat
  BY DEF Acct, Row, Left, Monus
<1>2. Lefts(a) \in [Slots -> Nat] /\ Usable(a, t) \in [Slots -> Nat]
  BY <1>1 DEF Lefts, Usable
<1>3. \A i \in Slots : Usable(a, t)[i] <= Lefts(a)[i]
  BY <1>1 DEF Lefts, Usable
<1>4. Counts(Lefts(a), Slots) /\ Counts(Usable(a, t), Slots)
  BY <1>2 DEF Counts
<1> QED BY <1>2, <1>3, <1>4, SlotsFinite, SumIsNat, SumMonotone

LEMMA SpendFacts ==
  ASSUME NEW a \in Acct, NEW m \in Nat, m <= a.balance,
         NEW take \in [Slots -> Nat], \A i \in Slots : take[i] <= Lefts(a)[i]
  PROVE  LET b == Spend(a, m, take)
         IN  /\ b \in Acct /\ SameRows(a, b)
             /\ b.balance = a.balance - m
             /\ \A i \in Slots : /\ b.rows[i].used = a.rows[i].used + take[i]
                                 /\ b.rows[i].expired = a.rows[i].expired
             /\ SumOver(Lefts(a), Slots) = SumOver(Lefts(b), Slots) + SumOver(take, Slots)
             /\ SumOver(take, Slots) \in Nat
<1> DEFINE b == Spend(a, m, take)
<1>1. ASSUME NEW i \in Slots
      PROVE  /\ b.rows[i] \in Row
             /\ b.rows[i].used = a.rows[i].used + take[i]
             /\ b.rows[i].points = a.rows[i].points /\ b.rows[i].expires = a.rows[i].expires
             /\ b.rows[i].expired = a.rows[i].expired
  BY DEF Spend, UseRows, Acct, Row
<1>2. b.balance = a.balance - m /\ b.made = a.made /\ b \in Acct
  <2>2. UseRows(a.rows, take) \in [Slots -> Row]
    BY DEF UseRows, Acct, Row
  <2>3. a.balance - m \in Nat
    BY DEF Acct
  <2> QED BY <2>2, <2>3 DEF Acct, Spend
<1>3. ASSUME NEW i \in Slots PROVE Lefts(a)[i] = Lefts(b)[i] + take[i]
  <2>1. a.rows[i] \in Row
    BY DEF Acct
  <2>2. Lefts(a)[i] = Left(a.rows[i]) /\ Lefts(b)[i] = Left(b.rows[i]) /\ take[i] <= Left(a.rows[i])
    BY DEF Lefts
  <2> HIDE DEF b
  <2> QED BY <1>1, <2>1, <2>2 DEF Left, Monus, Row
<1> HIDE DEF b
<1>4. Lefts(b) \in [Slots -> Nat]
  BY <1>2, LeftsFacts
<1>5. Counts(Lefts(b), Slots) /\ Counts(take, Slots)
  BY <1>4 DEF Counts
<1>6. SumOver(Lefts(a), Slots) = SumOver(Lefts(b), Slots) + SumOver(take, Slots)
  BY <1>3, <1>5, SlotsFinite, SumPlus
<1>7. SumOver(take, Slots) \in Nat
  BY <1>5, SlotsFinite, SumIsNat
<1> QED BY <1>1, <1>2, <1>6, <1>7 DEF b, SameRows

LEMMA RefundFacts ==
  ASSUME NEW a \in Acct, NEW owed \in [Slots -> Nat], NEW amount \in Nat, NEW t \in Nat
  PROVE  LET b == RefundUsed(a, owed, amount, t)
             back == GiveBackLifo(owed, amount)
             overdue == {i \in Slots : ~(a.rows[i].expires > t)}
         IN  /\ b \in Acct /\ SameRows(a, b)
             /\ b.balance = a.balance + amount - SumOver(back, overdue)
             /\ SumOver(back, overdue) \in Nat
             /\ SumOver(back, overdue) <= SumOver(back, Slots)
             /\ SumOver(back, Slots) <= amount
             /\ \A i \in Slots :
                  /\ b.rows[i].used = IF a.rows[i].expires > t THEN Monus(a.rows[i].used, back[i])
                                      ELSE a.rows[i].used
                  /\ b.rows[i].expired = a.rows[i].expired
<1> DEFINE b == RefundUsed(a, owed, amount, t)
           back == GiveBackLifo(owed, amount)
           overdue == {i \in Slots : ~(a.rows[i].expires > t)}
           rows == [i \in Slots |-> IF a.rows[i].expires > t
                                    THEN [a.rows[i] EXCEPT !.used = Monus(@, back[i])]
                                    ELSE a.rows[i]]
<1>1. back \in [Slots -> Nat] /\ SumOver(back, Slots) \in Nat /\ SumOver(back, Slots) <= amount
  <2>1. /\ back \in [Slots -> Nat]
        /\ SumOver(back, Slots) = Least(amount, SumOver(owed, Slots))
        /\ SumOver(owed, Slots) \in Nat
    BY GiveBackFacts
  <2> HIDE DEF back
  <2> QED BY <2>1 DEF Least
<1> HIDE DEF back
<1>2. SumOver(back, overdue) \in Nat /\ SumOver(back, overdue) <= SumOver(back, Slots)
  <2>1. Counts(back, Slots)
    BY <1>1 DEF Counts
  <2>2. overdue \in SUBSET Slots
    OBVIOUS
  <2> HIDE DEF overdue
  <2> QED BY <2>1, <2>2, SlotsFinite, SumOfPart
<1>3. ASSUME NEW i \in Slots PROVE Monus(a.rows[i].used, back[i]) \in Nat
  BY <1>1 DEF Monus, Acct, Row
<1>4. rows \in [Slots -> Row]
  <2>1. ASSUME NEW i \in Slots PROVE rows[i] \in Row
    <3>1. a.rows[i] \in Row
      BY DEF Acct
    <3>2. [a.rows[i] EXCEPT !.used = Monus(@, back[i])] \in Row
      BY <1>3, <3>1 DEF Row
    <3> QED BY <3>1, <3>2
  <2> QED BY <2>1
<1>5. ASSUME NEW i \in Slots
      PROVE  /\ rows[i].points = a.rows[i].points /\ rows[i].expires = a.rows[i].expires
             /\ rows[i].expired = a.rows[i].expired
             /\ rows[i].used = IF a.rows[i].expires > t THEN Monus(a.rows[i].used, back[i])
                               ELSE a.rows[i].used
  BY DEF Acct, Row
<1>6. b = [a EXCEPT !.balance = Monus(a.balance + amount, SumOver(back, overdue)), !.rows = rows]
  BY DEF RefundUsed, back
<1> HIDE DEF b, rows
<1>7. a.balance \in Nat
  BY DEF Acct
<1>8. /\ Monus(a.balance + amount, SumOver(back, overdue)) = a.balance + amount - SumOver(back, overdue)
      /\ Monus(a.balance + amount, SumOver(back, overdue)) \in Nat
  <2> HIDE DEF overdue
  <2> QED BY <1>1, <1>2, <1>7 DEF Monus
<1>9. b \in Acct /\ b.made = a.made /\ b.rows = rows
      /\ b.balance = Monus(a.balance + amount, SumOver(back, overdue))
  <2> HIDE DEF overdue
  <2> QED BY <1>4, <1>6, <1>8 DEF Acct
<1> QED BY <1>1, <1>2, <1>5, <1>8, <1>9 DEF SameRows, b, back

(* Giving points back keeps the books, and makes no point without a row     *)
(* unless the order had used such points.                                   *)
LEMMA RefundBooks ==
  ASSUME NEW a \in Acct, NEW owed \in [Slots -> Nat], NEW amount \in Nat, NEW t \in Nat,
         NEW w \in [Slots -> Nat], Books(a, w, t), \A i \in Slots : owed[i] <= w[i]
  PROVE  LET b == RefundUsed(a, owed, amount, t)
             back == GiveBackLifo(owed, amount)
         IN  /\ Books(b, [i \in Slots |-> w[i] - back[i]], t)
             /\ Slack(b) = Slack(a) + amount - SumOver(back, Slots)
             /\ b.balance >= a.balance
             /\ SumOver(Usable(b, t), Slots) >= SumOver(Usable(a, t), Slots)
<1> DEFINE b == RefundUsed(a, owed, amount, t)
           back == GiveBackLifo(owed, amount)
           overdue == {i \in Slots : ~(a.rows[i].expires > t)}
           alive == Slots \ overdue
           again == [i \in Slots |-> IF a.rows[i].expires > t THEN back[i] ELSE 0]
           gone == [i \in Slots |-> IF a.rows[i].expires > t THEN 0 ELSE back[i]]
<1>1. /\ b \in Acct /\ SameRows(a, b)
      /\ b.balance = a.balance + amount - SumOver(back, overdue)
      /\ SumOver(back, overdue) \in Nat
      /\ SumOver(back, overdue) <= SumOver(back, Slots)
      /\ SumOver(back, Slots) <= amount
      /\ \A i \in Slots :
           /\ b.rows[i].used = IF a.rows[i].expires > t THEN Monus(a.rows[i].used, back[i])
                               ELSE a.rows[i].used
           /\ b.rows[i].expired = a.rows[i].expired
  BY RefundFacts
<1>2. back \in [Slots -> Nat] /\ \A i \in Slots : back[i] <= owed[i]
  BY GiveBackFacts
<1> HIDE DEF b, back
<1>3. ASSUME NEW i \in Slots
      PROVE  /\ Lefts(b)[i] = Lefts(a)[i] + again[i]
             /\ w[i] - back[i] <= b.rows[i].used
             /\ b.rows[i].used <= b.rows[i].points
             /\ Usable(a, t)[i] <= Usable(b, t)[i]
  <2>1. /\ a.rows[i] \in Row /\ b.rows[i] \in Row
        /\ b.rows[i].points = a.rows[i].points /\ b.rows[i].expires = a.rows[i].expires
        /\ b.rows[i].expired = a.rows[i].expired
    BY <1>1 DEF Acct, SameRows
  <2>2. /\ Lefts(a)[i] = Left(a.rows[i]) /\ Lefts(b)[i] = Left(b.rows[i])
        /\ Usable(a, t)[i] = IF a.rows[i].expires > t THEN Left(a.rows[i]) ELSE 0
        /\ Usable(b, t)[i] = IF b.rows[i].expires > t THEN Left(b.rows[i]) ELSE 0
    BY DEF Lefts, Usable
  <2>3. /\ w[i] \in Nat /\ back[i] \in Nat /\ back[i] <= w[i]
        /\ w[i] <= a.rows[i].used /\ a.rows[i].used <= a.rows[i].points
        /\ (a.rows[i].expired => a.rows[i].expires <= t)
    BY <1>2 DEF Books
  <2>4. a.rows[i].points \in Nat /\ a.rows[i].used \in Nat /\ a.rows[i].expires \in Nat
    BY <2>1 DEF Row
  <2>5. CASE a.rows[i].expires > t
    <3>1. ~a.rows[i].expired /\ again[i] = back[i]
      BY <2>3, <2>4, <2>5
    <3>2. b.rows[i].used = a.rows[i].used - back[i]
      BY <1>1, <2>3, <2>4, <2>5 DEF Monus
    <3>3. /\ Left(a.rows[i]) = a.rows[i].points - a.rows[i].used
          /\ Left(b.rows[i]) = a.rows[i].points - a.rows[i].used + back[i]
      BY <2>1, <2>3, <2>4, <3>1, <3>2 DEF Left, Monus
    <3> QED BY <2>1, <2>2, <2>3, <2>4, <2>5, <3>1, <3>2, <3>3
  <2>6. CASE ~(a.rows[i].expires > t)
    <3>1. b.rows[i].used = a.rows[i].used /\ again[i] = 0
      BY <1>1, <2>6
    <3>2. Left(b.rows[i]) = Left(a.rows[i]) /\ Left(a.rows[i]) \in Nat
      BY <2>1, <2>4, <3>1 DEF Left, Monus
    <3> QED BY <2>1, <2>2, <2>3, <2>4, <2>6, <3>1, <3>2
  <2> QED BY <2>5, <2>6
<1>4. /\ Lefts(a) \in [Slots -> Nat] /\ Lefts(b) \in [Slots -> Nat]
      /\ SumOver(Lefts(a), Slots) \in Nat /\ SumOver(Lefts(b), Slots) \in Nat
      /\ Usable(a, t) \in [Slots -> Nat] /\ Usable(b, t) \in [Slots -> Nat]
  BY <1>1, LeftsFacts
<1>5. Counts(Lefts(a), Slots) /\ Counts(again, Slots) /\ Counts(gone, Slots) /\ Counts(back, Slots)
      /\ Counts(back, overdue) /\ Counts(back, alive) /\ Counts(gone, alive) /\ Counts(gone, overdue)
  BY <1>2, <1>4 DEF Counts
<1>6. SumOver(Lefts(b), Slots) = SumOver(Lefts(a), Slots) + SumOver(again, Slots)
  <2> HIDE DEF again
  <2> QED BY <1>3, <1>5, SlotsFinite, SumPlus
<1>7. SumOver(back, Slots) = SumOver(again, Slots) + SumOver(gone, Slots)
  <2>1. \A i \in Slots : back[i] = again[i] + gone[i]
    BY <1>2
  <2> HIDE DEF again, gone
  <2> QED BY <2>1, <1>5, SlotsFinite, SumPlus
<1>8. SumOver(gone, Slots) = SumOver(back, overdue)
  <2>1. /\ IsFiniteSet(alive) /\ IsFiniteSet(overdue)
        /\ alive \cap overdue = {} /\ alive \cup overdue = Slots
    <3>1. overdue \in SUBSET Slots /\ alive \in SUBSET Slots
      OBVIOUS
    <3> QED BY <3>1, SlotsFinite, FS_Subset
  <2>2. \A i \in alive : gone[i] = 0
    OBVIOUS
  <2>3. \A i \in overdue : gone[i] = back[i]
    OBVIOUS
  <2> HIDE DEF gone, alive, overdue
  <2>4. SumOver(gone, alive \cup overdue) = SumOver(gone, alive) + SumOver(gone, overdue)
    BY <2>1, <1>5, SumSplit
  <2>5. SumOver(gone, alive) = 0 /\ SumOver(gone, overdue) = SumOver(back, overdue)
    BY <2>2, <2>3, SumOfZeros, SumSame
  <2>6. SumOver(gone, Slots) = 0 + SumOver(back, overdue)
    BY <2>1, <2>4, <2>5, Zenon
  <2>7. SumOver(back, overdue) \in Nat
    BY <1>1
  <2> QED BY <2>6, <2>7
<1>9. SumOver(again, Slots) \in Nat
  <2> HIDE DEF again
  <2> QED BY <1>5, SlotsFinite, SumIsNat
<1>10. a.balance \in Nat /\ a.balance >= SumOver(Lefts(a), Slots)
  BY DEF Acct, Books
<1> HIDE DEF overdue, alive, again, gone
<1>11. Slack(b) = Slack(a) + amount - SumOver(back, Slots)
  BY <1>1, <1>4, <1>6, <1>7, <1>8, <1>9, <1>10 DEF Slack
<1>12. b.balance >= SumOver(Lefts(b), Slots) /\ b.balance >= a.balance
  BY <1>1, <1>4, <1>6, <1>7, <1>8, <1>9, <1>10
<1>13. SumOver(Usable(b, t), Slots) >= SumOver(Usable(a, t), Slots)
  <2>1. Counts(Usable(a, t), Slots) /\ Counts(Usable(b, t), Slots)
    BY <1>4 DEF Counts
  <2>2. SumOver(Usable(a, t), Slots) <= SumOver(Usable(b, t), Slots)
    BY <2>1, <1>3, SlotsFinite, SumMonotone
  <2>3. SumOver(Usable(a, t), Slots) \in Nat /\ SumOver(Usable(b, t), Slots) \in Nat
    BY <2>1, SlotsFinite, SumIsNat
  <2> QED BY <2>2, <2>3
<1>14. ASSUME NEW i \in Slots
       PROVE  b.rows[i].expired => b.rows[i].expires <= t
  BY <1>1 DEF Books, SameRows
<1>15. Books(b, [i \in Slots |-> w[i] - back[i]], t)
  BY <1>3, <1>12, <1>14 DEF Books
<1> QED BY <1>11, <1>12, <1>13, <1>15 DEF b, back

(* Points of a canceled order are taken back: as a whole, or, when the rows *)
(* do not hold enough of them, from the rows only, or not at all.           *)
LEMMA ReclaimBooks ==
  ASSUME NEW a \in Acct, NEW amount \in Nat, NEW t \in Nat
  PROVE  LET b == Reclaim(a, amount, t)
         IN  /\ b \in Acct /\ SameRows(a, b)
             /\ \A w \in [Slots -> Nat] : Books(a, w, t) => Books(b, w, t)
             /\ CanReclaim(a, amount, t) => Slack(b) = Slack(a)
             /\ ~CanReclaim(a, amount, t) => Slack(a) <= Slack(b) /\ Slack(b) < Slack(a) + amount
<1> DEFINE take == TakeFifo(Usable(a, t), amount)
           b == Reclaim(a, amount, t)
           m == IF CanReclaim(a, amount, t) THEN amount ELSE 0
           c == Spend(a, m, take)
<1>1. /\ Usable(a, t) \in [Slots -> Nat] /\ Lefts(a) \in [Slots -> Nat]
      /\ \A i \in Slots : Usable(a, t)[i] <= Lefts(a)[i]
      /\ SumOver(Lefts(a), Slots) \in Nat
      /\ a.balance \in Nat
  BY LeftsFacts DEF Acct
<1>2. /\ take \in [Slots -> Nat]
      /\ \A i \in Slots : take[i] <= Usable(a, t)[i]
      /\ SumOver(take, Slots) = Least(amount, SumOver(Usable(a, t), Slots))
      /\ SumOver(Usable(a, t), Slots) \in Nat
  BY <1>1, TakeFacts
<1> HIDE DEF take
<1>3. \A i \in Slots : take[i] <= Lefts(a)[i]
  BY <1>1, <1>2
<1>4. m \in Nat /\ m <= a.balance
  BY <1>1 DEF CanReclaim
<1> HIDE DEF m
<1>5. /\ c \in Acct /\ SameRows(a, c)
      /\ c.balance = a.balance - m
      /\ \A i \in Slots : /\ c.rows[i].used = a.rows[i].used + take[i]
                          /\ c.rows[i].expired = a.rows[i].expired
      /\ SumOver(Lefts(a), Slots) = SumOver(Lefts(c), Slots) + SumOver(take, Slots)
      /\ SumOver(take, Slots) \in Nat
  BY <1>2, <1>3, <1>4, SpendFacts
<1> HIDE DEF c
<1>6. SumOver(Lefts(c), Slots) \in Nat
  BY <1>5, LeftsFacts
<1>7. CanReclaim(a, amount, t) => m = amount /\ SumOver(take, Slots) = amount
  BY <1>1, <1>2 DEF CanReclaim, Least, m
<1>8. ~CanReclaim(a, amount, t) => m = 0
  BY DEF m
<1>9. ASSUME NEW w \in [Slots -> Nat], Books(a, w, t) PROVE Books(c, w, t)
  <2>1. c.balance >= SumOver(Lefts(c), Slots)
    <3>1. a.balance >= SumOver(Lefts(a), Slots)
      BY <1>9 DEF Books
    <3>2. CASE CanReclaim(a, amount, t)
      BY <1>1, <1>5, <1>6, <1>7, <3>1, <3>2
    <3>3. CASE ~CanReclaim(a, amount, t)
      BY <1>1, <1>5, <1>6, <1>8, <3>1, <3>3
    <3> QED BY <3>2, <3>3
  <2>2. ASSUME NEW i \in Slots
        PROVE  /\ w[i] <= c.rows[i].used /\ c.rows[i].used <= c.rows[i].points
               /\ c.rows[i].expired => c.rows[i].expires <= t
    <3>1. /\ w[i] <= a.rows[i].used /\ a.rows[i].used <= a.rows[i].points
          /\ (a.rows[i].expired => a.rows[i].expires <= t)
      BY <1>9 DEF Books
    <3>2. /\ c.rows[i].used = a.rows[i].used + take[i] /\ c.rows[i].expired = a.rows[i].expired
          /\ c.rows[i].points = a.rows[i].points /\ c.rows[i].expires = a.rows[i].expires
      BY <1>5 DEF SameRows
    <3>3. a.rows[i] \in Row /\ take[i] \in Nat /\ take[i] <= Left(a.rows[i])
      BY <1>2, <1>3 DEF Acct, Lefts
    <3> QED BY <3>1, <3>2, <3>3 DEF Row, Left, Monus
  <2> QED BY <2>1, <2>2 DEF Books
<1>10. CanReclaim(a, amount, t) => Slack(c) = Slack(a)
  BY <1>1, <1>5, <1>6, <1>7 DEF Slack
<1>11. b = c \/ (b = a /\ ~CanReclaim(a, amount, t))
  BY DEF Reclaim, c, m, take
<1>15. ~CanReclaim(a, amount, t) => b = a \/ (b = c /\ a.balance >= amount)
  BY DEF Reclaim, c, m, take
<1> HIDE DEF b
<1>16. ASSUME ~CanReclaim(a, amount, t) PROVE Slack(a) <= Slack(b) /\ Slack(b) < Slack(a) + amount
  <2>1. amount > 0
    BY <1>1, <1>2, <1>16 DEF CanReclaim
  <2>2. Slack(a) \in Int
    BY <1>1 DEF Slack
  <2>3. CASE b = a
    BY <2>1, <2>2, <2>3
  <2>4. CASE b = c /\ a.balance >= amount
    <3>1. SumOver(take, Slots) < amount
      BY <1>1, <1>2, <1>16, <2>4 DEF CanReclaim, Least
    <3>2. Slack(c) = Slack(a) + SumOver(take, Slots)
      BY <1>1, <1>5, <1>6, <1>8, <1>16 DEF Slack
    <3> QED BY <1>5, <2>2, <2>4, <3>1, <3>2
  <2> QED BY <1>15, <1>16, <2>3, <2>4
<1>12. SameRows(a, a)
  BY DEF SameRows
<1>13. b \in Acct /\ SameRows(a, b) /\ (CanReclaim(a, amount, t) => Slack(b) = Slack(a))
  BY <1>5, <1>10, <1>11, <1>12, Zenon
<1>14. \A w \in [Slots -> Nat] : Books(a, w, t) => Books(b, w, t)
  BY <1>9, <1>11, Zenon
<1> QED BY <1>13, <1>14, <1>16 DEF b

(* Points are spent on an order: the rows give what they have, the rest     *)
(* comes from balance without rows.                                         *)
LEMMA UseBooks ==
  ASSUME NEW a \in Acct, NEW amount \in Nat, amount <= a.balance, NEW t \in Nat
  PROVE  LET take == TakeFifo(Lefts(a), amount)
             b == Spend(a, amount, take)
         IN  /\ take \in [Slots -> Nat]
             /\ b \in Acct /\ SameRows(a, b)
             /\ \A w \in [Slots -> Nat] :
                  Books(a, w, t) => Books(b, [i \in Slots |-> w[i] + take[i]], t)
             /\ Slack(b) = Slack(a) - amount + SumOver(take, Slots)
<1> DEFINE take == TakeFifo(Lefts(a), amount)
           b == Spend(a, amount, take)
<1>1. Lefts(a) \in [Slots -> Nat] /\ SumOver(Lefts(a), Slots) \in Nat /\ a.balance \in Nat
  BY LeftsFacts DEF Acct
<1>2. /\ take \in [Slots -> Nat]
      /\ \A i \in Slots : take[i] <= Lefts(a)[i]
      /\ SumOver(take, Slots) = Least(amount, SumOver(Lefts(a), Slots))
  BY <1>1, TakeFacts
<1> HIDE DEF take
<1>3. /\ b \in Acct /\ SameRows(a, b)
      /\ b.balance = a.balance - amount
      /\ \A i \in Slots : /\ b.rows[i].used = a.rows[i].used + take[i]
                          /\ b.rows[i].expired = a.rows[i].expired
      /\ SumOver(Lefts(a), Slots) = SumOver(Lefts(b), Slots) + SumOver(take, Slots)
      /\ SumOver(take, Slots) \in Nat
  BY <1>2, SpendFacts
<1> HIDE DEF b
<1>4. SumOver(Lefts(b), Slots) \in Nat
  BY <1>3, LeftsFacts
<1>5. Slack(b) = Slack(a) - amount + SumOver(take, Slots)
  BY <1>1, <1>3, <1>4 DEF Slack
<1>6. ASSUME NEW w \in [Slots -> Nat], Books(a, w, t)
      PROVE  Books(b, [i \in Slots |-> w[i] + take[i]], t)
  <2>1. b.balance >= SumOver(Lefts(b), Slots)
    <3>1. a.balance >= SumOver(Lefts(a), Slots)
      BY <1>6 DEF Books
    <3> QED BY <1>1, <1>2, <1>3, <1>4, <3>1 DEF Least
  <2>2. ASSUME NEW i \in Slots
        PROVE  /\ w[i] + take[i] <= b.rows[i].used /\ b.rows[i].used <= b.rows[i].points
               /\ b.rows[i].expired => b.rows[i].expires <= t
    <3>1. /\ w[i] <= a.rows[i].used /\ a.rows[i].used <= a.rows[i].points
          /\ (a.rows[i].expired => a.rows[i].expires <= t)
      BY <1>6 DEF Books
    <3>2. /\ b.rows[i].used = a.rows[i].used + take[i] /\ b.rows[i].expired = a.rows[i].expired
          /\ b.rows[i].points = a.rows[i].points /\ b.rows[i].expires = a.rows[i].expires
      BY <1>3 DEF SameRows
    <3>3. a.rows[i] \in Row /\ take[i] \in Nat /\ take[i] <= Left(a.rows[i])
      BY <1>2 DEF Acct, Lefts
    <3> QED BY <3>1, <3>2, <3>3 DEF Row, Left, Monus
  <2> QED BY <2>1, <2>2 DEF Books
<1> QED BY <1>2, <1>3, <1>5, <1>6 DEF b, take

(* A new earn row. *)
LEMMA AddBooks ==
  ASSUME NEW a \in Acct, NEW amount \in Nat, NEW t \in Nat, a.made < MaxRows,
         a.rows[a.made + 1].points = 0
  PROVE  LET b == AddPoints(a, amount, t)
         IN  /\ b \in Acct /\ b.made = a.made + 1
             /\ \A i \in Slots \ {a.made + 1} : b.rows[i] = a.rows[i]
             /\ \A w \in [Slots -> Nat] : Books(a, w, t) => Books(b, w, t) /\ Slack(b) = Slack(a)
<1> DEFINE n == a.made + 1
           new == [BlankRow EXCEPT !.points = amount, !.expires = t + Life]
           b == AddPoints(a, amount, t)
<1>1. n \in Slots /\ n \in 0..MaxRows /\ a.balance \in Nat /\ a.rows \in [Slots -> Row]
  BY SlotsFinite DEF Acct, Slots
<1>2. /\ new \in Row /\ new.points = amount /\ new.used = 0 /\ new.expired = FALSE
  <2>1. t + Life \in Nat
    BY PointConstants
  <2> QED BY <2>1 DEF BlankRow, Row
<1> HIDE DEF new
<1>3. /\ b \in Acct /\ b.made = a.made + 1 /\ b.balance = a.balance + amount
      /\ b.rows = [a.rows EXCEPT ![n] = new]
  BY <1>1, <1>2 DEF AddPoints, Acct, new
<1> HIDE DEF b
<1>4. b.rows[n] = new /\ \A i \in Slots \ {n} : b.rows[i] = a.rows[i]
  BY <1>1, <1>3
<1>5. ASSUME NEW w \in [Slots -> Nat], Books(a, w, t)
      PROVE  Books(b, w, t) /\ Slack(b) = Slack(a)
  <2>0. a.rows[n] \in Row /\ w[n] = 0 /\ a.rows[n].used = 0 /\ Left(a.rows[n]) = 0
    <3>1. a.rows[n] \in Row /\ w[n] \in Nat /\ w[n] <= a.rows[n].used /\ a.rows[n].used <= a.rows[n].points
      BY <1>1, <1>5 DEF Books
    <3> QED BY <3>1 DEF Row, Left, Monus
  <2>1. Left(b.rows[n]) = amount
    BY <1>2, <1>4 DEF Left, Monus
  <2>2. Lefts(a)[n] = 0 /\ Lefts(b)[n] = amount /\ \A i \in Slots \ {n} : Lefts(b)[i] = Lefts(a)[i]
    BY <1>1, <1>4, <2>0, <2>1 DEF Lefts
  <2>3. Lefts(a) \in [Slots -> Nat] /\ SumOver(Lefts(a), Slots) \in Nat
    BY LeftsFacts
  <2>4. Counts(Lefts(a), Slots)
    BY <2>3 DEF Counts
  <2>5. SumOver(Lefts(b), Slots) = SumOver(Lefts(a), Slots) - Lefts(a)[n] + Lefts(b)[n]
    BY <1>1, <2>2, <2>4, SlotsFinite, SumUpdate
  <2>6. SumOver(Lefts(b), Slots) = SumOver(Lefts(a), Slots) + amount
    BY <2>2, <2>3, <2>5
  <2>7. a.balance >= SumOver(Lefts(a), Slots)
    BY <1>5 DEF Books
  <2>8. b.balance >= SumOver(Lefts(b), Slots) /\ Slack(b) = Slack(a)
    BY <1>1, <1>3, <2>3, <2>6, <2>7 DEF Slack
  <2>9. ASSUME NEW i \in Slots
        PROVE  /\ w[i] <= b.rows[i].used /\ b.rows[i].used <= b.rows[i].points
               /\ b.rows[i].expired => b.rows[i].expires <= t
    <3>1. CASE i = n
      BY <1>2, <1>4, <2>0, <3>1
    <3>2. CASE i # n
      BY <1>4, <1>5, <3>2 DEF Books
    <3> QED BY <3>1, <3>2
  <2> QED BY <2>8, <2>9 DEF Books
<1> QED BY <1>3, <1>4, <1>5 DEF b

(* A row expires. *)
LEMMA ExpireBooks ==
  ASSUME NEW a \in Acct, NEW n \in Slots, NEW t \in Nat
  PROVE  LET b == ExpireRow(a, n, t)
         IN  /\ b \in Acct /\ SameRows(a, b)
             /\ \A w \in [Slots -> Nat] :
                  Books(a, w, t) /\ a.rows[n].expires <= t => Books(b, w, t) /\ Slack(b) = Slack(a)
<1> DEFINE b == ExpireRow(a, n, t)
           left == Left(a.rows[n])
           c == [a EXCEPT !.balance = Monus(@, left), !.rows[n].expired = TRUE]
<1>1. a.balance \in Nat /\ a.rows \in [Slots -> Row] /\ a.rows[n] \in Row /\ left \in Nat
  BY DEF Acct, Row, Left, Monus
<1>2. CASE left = 0
  <2>1. b = a
    BY <1>2 DEF ExpireRow
  <2>2. SameRows(a, a)
    BY DEF SameRows
  <2> QED BY <2>1, <2>2
<1>3. CASE left # 0
  <2>1. b = c
    BY <1>3 DEF ExpireRow
  <2> DEFINE gone == [a.rows[n] EXCEPT !.expired = TRUE]
  <2>2. Monus(a.balance, left) \in Nat
    BY <1>1 DEF Monus
  <2>3. /\ gone \in Row /\ gone.points = a.rows[n].points /\ gone.expires = a.rows[n].expires
        /\ gone.used = a.rows[n].used /\ gone.expired = TRUE
    BY <1>1 DEF Row
  <2>4. /\ c.balance = Monus(a.balance, left) /\ c.made = a.made
        /\ c.rows = [a.rows EXCEPT ![n] = gone]
    BY <1>1 DEF Acct
  <2>5. c \in Acct
    <3>1. c = [a EXCEPT !.balance = Monus(@, left), !.rows = [a.rows EXCEPT ![n] = gone]]
      OBVIOUS
    <3>2. [a.rows EXCEPT ![n] = gone] \in [Slots -> Row]
      BY <1>1, <2>3
    <3> HIDE DEF c, gone, left
    <3> QED BY <2>2, <3>1, <3>2 DEF Acct
  <2> HIDE DEF c, gone
  <2>6. c.rows[n] = gone /\ \A i \in Slots \ {n} : c.rows[i] = a.rows[i]
    BY <1>1, <2>4
  <2>7. SameRows(a, c)
    BY <2>3, <2>4, <2>6 DEF SameRows
  <2>8. ASSUME NEW w \in [Slots -> Nat], Books(a, w, t), a.rows[n].expires <= t
        PROVE  Books(c, w, t) /\ Slack(c) = Slack(a)
    <3>1. Lefts(a)[n] = left /\ Lefts(c)[n] = 0 /\ \A i \in Slots \ {n} : Lefts(c)[i] = Lefts(a)[i]
      BY <2>3, <2>6 DEF Lefts, Left
    <3>2. Lefts(a) \in [Slots -> Nat] /\ SumOver(Lefts(a), Slots) \in Nat
      BY LeftsFacts
    <3>3. Counts(Lefts(a), Slots)
      BY <3>2 DEF Counts
    <3>4. SumOver(Lefts(c), Slots) = SumOver(Lefts(a), Slots) - Lefts(a)[n] + Lefts(c)[n]
      BY <3>1, <3>3, SlotsFinite, SumUpdate
    <3>5. left <= SumOver(Lefts(a), Slots)
      BY <3>1, <3>3, SlotsFinite, SumBounds
    <3>6. a.balance >= SumOver(Lefts(a), Slots)
      BY <2>8 DEF Books
    <3> HIDE DEF left
    <3>7. c.balance >= SumOver(Lefts(c), Slots) /\ Slack(c) = Slack(a)
      BY <1>1, <2>4, <3>1, <3>2, <3>4, <3>5, <3>6 DEF Slack, Monus
    <3>8. ASSUME NEW i \in Slots
          PROVE  /\ w[i] <= c.rows[i].used /\ c.rows[i].used <= c.rows[i].points
                 /\ c.rows[i].expired => c.rows[i].expires <= t
      <4>1. CASE i = n
        BY <2>3, <2>6, <2>8, <4>1 DEF Books
      <4>2. CASE i # n
        BY <2>6, <2>8, <4>2 DEF Books
      <4> QED BY <4>1, <4>2
    <3> QED BY <3>7, <3>8 DEF Books
  <2> QED BY <2>1, <2>5, <2>7, <2>8
<1> QED BY <1>2, <1>3

-----------------------------------------------------------------------------
(* The invariant. *)

(* What all orders may still get back from row i. *)
Owed == [i \in Slots |-> SumOver([o \in Orders |-> orders[o].owed[i]], Orders)]

LedgerInv == lapses = {} => Books(acct, Owed, now)

(* The slots beyond the last row hold nothing. *)
RowsFilled == \A i \in Slots : i > acct.made => acct.rows[i].points = 0

(* A batch has listed rows that exist and are overdue. *)
ListedDue == \A b \in Batches : \A i \in listed[b] : i <= acct.made /\ acct.rows[i].expires <= now

(* An order that does not exist has used nothing, only a delivered order is *)
(* asked to be returned, and a check runs for a paid order or a return.     *)
Shape(r) ==
  /\ r.status = "none" => r.owed = NoPoints /\ r.used = 0 /\ r.refunded = 0
  /\ r.asked > 0 => r.status \in {"delivered", "canceled", "refunded"}
  /\ r.at > 0 => (r.status = "paid" \/ r.asked > 0) /\ r.at <= now

OrdersShaped == \A o \in Orders : Shape(orders[o])

(* The rows may get back no more than the order has used and not been given *)
(* back; an order given back twice is owed nothing by any row.              *)
Within(r) == SumOver(r.owed, Slots) = 0 \/ r.refunded + SumOver(r.owed, Slots) <= r.used

OrdersWithin == \A o \in Orders : Within(orders[o])

(* The rows a checked cancellation or refund counts on are still there. *)
Covered(r) ==
  lapses = {} /\ r.at > 0 /\ ~ExpiresSince(r.at) /\ EarnedBack(r) > 0
    => SumOver(Usable(acct, now), Slots) >= EarnedBack(r)

ChecksCovered == \A o \in Orders : Covered(orders[o])

PointInv ==
  /\ TypeOK /\ LedgerInv /\ RowsFilled /\ ListedDue
  /\ OrdersShaped /\ OrdersWithin /\ ChecksCovered

-----------------------------------------------------------------------------
(* Orders. *)

LEMMA ShareFacts ==
  ASSUME NEW points \in Nat, NEW m \in Nat, NEW n \in Nat
  PROVE  Share(points, m) \in Nat /\ Share(points, m + n) - Share(points, m) \in Nat
<1>1. Goods \in Nat /\ Goods > 0
  BY PointConstants
<1>2. points * m \in Nat /\ points * n \in Nat /\ points * (m + n) = points * m + points * n
  OBVIOUS
<1>3. ASSUME NEW x \in Nat, NEW y \in Nat PROVE x \div Goods \in Nat /\ x \div Goods <= (x + y) \div Goods
  BY <1>1
<1> DEFINE x == points * m
           y == points * n
<1>4. x \div Goods \in Nat /\ (x + y) \div Goods \in Nat /\ x \div Goods <= (x + y) \div Goods
  <2>1. x \in Nat /\ y \in Nat /\ x + y \in Nat /\ 0 \in Nat
    BY <1>2
  <2> HIDE DEF x, y
  <2> QED BY <1>3, <2>1
<1>5. Share(points, m) = x \div Goods /\ Share(points, m + n) = (x + y) \div Goods
  BY <1>2 DEF Share
<1> HIDE DEF x, y
<1>6. \A u, v \in Nat : u <= v => v - u \in Nat
  OBVIOUS
<1> QED BY <1>4, <1>5, <1>6

LEMMA BackFacts ==
  ASSUME NEW r \in OrderRec
  PROVE  PointsBack(r) \in Nat /\ EarnedBack(r) \in Nat
<1>1. r.used \in Nat /\ r.earned \in Nat /\ r.returned \in Nat /\ r.asked \in Nat
  BY DEF OrderRec
<1> QED BY <1>1, ShareFacts DEF PointsBack, EarnedBack

LEMMA OwedFacts ==
  ASSUME orders \in [Orders -> OrderRec]
  PROVE  /\ Owed \in [Slots -> Nat]
         /\ \A o \in Orders : orders[o].owed \in [Slots -> Nat]
         /\ \A o \in Orders, i \in Slots : orders[o].owed[i] <= Owed[i]
         /\ \A o \in Orders, r \in OrderRec : orders' = [orders EXCEPT ![o] = r] =>
              \A i \in Slots : Owed'[i] = Owed[i] - orders[o].owed[i] + r.owed[i]
<1>1. \A r \in OrderRec : r.owed \in [Slots -> Nat]
  BY DEF OrderRec
<1>2. \A o \in Orders : orders[o].owed \in [Slots -> Nat]
  BY <1>1
<1>3. IsFiniteSet(Orders)
  BY PointConstants
<1>4. ASSUME NEW i \in Slots
      PROVE  /\ Owed[i] \in Nat
             /\ \A o \in Orders : orders[o].owed[i] <= Owed[i]
             /\ \A o \in Orders, r \in OrderRec : orders' = [orders EXCEPT ![o] = r] =>
                  Owed'[i] = Owed[i] - orders[o].owed[i] + r.owed[i]
  <2> DEFINE f == [o \in Orders |-> orders[o].owed[i]]
  <2>1. Counts(f, Orders) /\ Owed[i] = SumOver(f, Orders)
    BY <1>2 DEF Counts, Owed
  <2>2. SumOver(f, Orders) \in Nat
    BY <1>3, <2>1, SumIsNat
  <2>3. ASSUME NEW o \in Orders PROVE f[o] <= SumOver(f, Orders)
    <3> HIDE DEF f
    <3> QED BY <1>3, <2>1, SumBounds
  <2>4. ASSUME NEW o \in Orders, NEW r \in OrderRec, orders' = [orders EXCEPT ![o] = r]
        PROVE  Owed'[i] = Owed[i] - orders[o].owed[i] + r.owed[i]
    <3> DEFINE g == [p \in Orders |-> orders'[p].owed[i]]
    <3>1. Owed'[i] = SumOver(g, Orders)
      BY DEF Owed
    <3>2. g[o] = r.owed[i] /\ g[o] \in Nat /\ \A p \in Orders \ {o} : g[p] = f[p]
      BY <1>1, <2>4
    <3>3. f[o] = orders[o].owed[i]
      OBVIOUS
    <3> HIDE DEF f, g
    <3>4. SumOver(g, Orders) = SumOver(f, Orders) - f[o] + g[o]
      BY <1>3, <2>1, <3>2, SumUpdate
    <3> QED BY <2>1, <3>1, <3>2, <3>3, <3>4
  <2> QED BY <2>1, <2>2, <2>3, <2>4
<1> QED BY <1>2, <1>4 DEF Owed

(* A refund as it is kept with the order. *)
LEMMA GivenBackKept ==
  ASSUME NEW r \in OrderRec, NEW amount \in Nat
  PROVE  LET b == GivenBack(r, amount)
             back == GiveBackLifo(r.owed, amount)
         IN  /\ b \in OrderRec /\ b.refunded = r.refunded + amount
             /\ \A i \in Slots : b.owed[i] = r.owed[i] - back[i]
             /\ SumOver(r.owed, Slots) = SumOver(b.owed, Slots) + SumOver(back, Slots)
             /\ SumOver(b.owed, Slots) \in Nat /\ SumOver(back, Slots) \in Nat
             /\ b.status = r.status /\ b.used = r.used /\ b.earned = r.earned
             /\ b.hasRow = r.hasRow /\ b.due = r.due
             /\ b.asked = r.asked /\ b.returned = r.returned /\ b.at = r.at
             /\ Within(r) => Within(b)
<1> DEFINE b == GivenBack(r, amount)
           back == GiveBackLifo(r.owed, amount)
           owed == [i \in Slots |-> r.owed[i] - back[i]]
<1>1. r.owed \in [Slots -> Nat] /\ r.refunded \in Nat
  BY DEF OrderRec
<1>2. /\ back \in [Slots -> Nat] /\ \A i \in Slots : back[i] <= r.owed[i]
      /\ SumOver(back, Slots) \in Nat
      /\ SumOver(back, Slots) = amount \/ SumOver(back, Slots) = SumOver(r.owed, Slots)
      /\ SumOver(back, Slots) <= amount
  <2>1. /\ back \in [Slots -> Nat] /\ \A i \in Slots : back[i] <= r.owed[i]
        /\ SumOver(back, Slots) = Least(amount, SumOver(r.owed, Slots))
        /\ SumOver(r.owed, Slots) \in Nat
    BY <1>1, GiveBackFacts
  <2> HIDE DEF back
  <2> QED BY <2>1 DEF Least
<1>3. b = [r EXCEPT !.refunded = @ + amount, !.owed = owed]
  BY DEF GivenBack
<1> HIDE DEF back, b
<1>4. owed \in [Slots -> Nat] /\ r.refunded + amount \in Nat
  BY <1>1, <1>2
<1>5. \A i \in Slots : r.owed[i] = owed[i] + back[i]
  BY <1>1, <1>2
<1>6. SumOver(r.owed, Slots) = SumOver(owed, Slots) + SumOver(back, Slots) /\ SumOver(owed, Slots) \in Nat
  <2>1. Counts(owed, Slots) /\ Counts(back, Slots)
    BY <1>2, <1>4 DEF Counts
  <2> HIDE DEF owed
  <2> QED BY <1>5, <2>1, SlotsFinite, SumPlus, SumIsNat
<1> HIDE DEF owed
<1>7. /\ b \in OrderRec /\ b.refunded = r.refunded + amount /\ b.owed = owed
      /\ b.status = r.status /\ b.used = r.used /\ b.earned = r.earned
      /\ b.hasRow = r.hasRow /\ b.due = r.due
      /\ b.asked = r.asked /\ b.returned = r.returned /\ b.at = r.at
  BY <1>3, <1>4 DEF OrderRec
<1>8. \A i \in Slots : b.owed[i] = r.owed[i] - back[i]
  BY <1>7 DEF owed
<1>9. ASSUME Within(r) PROVE Within(b)
  <2>1. r.used \in Nat
    BY DEF OrderRec
  <2> QED BY <1>1, <1>2, <1>6, <1>7, <1>9, <2>1 DEF Within
<1> QED BY <1>2, <1>6, <1>7, <1>8, <1>9, Zenon DEF b, back

-----------------------------------------------------------------------------
(* Steps of one order. *)

Filled(a, b) ==
  \/ SameRows(a, b)
  \/ b.made = a.made + 1 /\ \A i \in Slots \ {a.made + 1} : b.rows[i] = a.rows[i]

OwedAfter(o, r) == [i \in Slots |-> Owed[i] - orders[o].owed[i] + r.owed[i]]

(* What no step changes but a reclaim that fails: Unbacked less GivenTwice  *)
(* (NetOfTwice below).                                                      *)
Net ==
  acct.balance - SumOver(Lefts(acct), Slots)
    + SumOver([o \in Orders |-> orders[o].used], Orders)
    - SumOver([o \in Orders |-> orders[o].refunded], Orders)
    - SumOver([o \in Orders |-> SumOver(orders[o].owed, Slots)], Orders)

(* An amount stays, or a failed reclaim of order o adds less than it earned. *)
Stays(o, before, after) ==
  \/ after = before
  \/ ReclaimsTooLittle(o) /\ before <= after /\ after < before + orders[o].earned

(* The part of Net that an order's step can change. *)
Worth(a, r) == Slack(a) + r.used - r.refunded - SumOver(r.owed, Slots)

(* Order o becomes r and the account a, and the invariant survives it. *)
Step(o, r, a) ==
  /\ r \in OrderRec /\ a \in Acct
  /\ orders' = [orders EXCEPT ![o] = r] /\ acct' = a
  /\ UNCHANGED <<now, listed, notices, drafts, lapses>>
  /\ lapses = {} => Books(a, OwedAfter(o, r), now)
  /\ Filled(acct, a)
  /\ a = acct \/ UserFreeFor(o)
  /\ Shape(r) /\ Within(r)
  /\ r.at = 0 \/ (a = acct /\ Covered(r))
  /\ lapses = {} => Stays(o, Worth(acct, orders[o]), Worth(a, r))

LEMMA StepKeepsRows ==
  ASSUME PointInv, NEW o \in Orders, NEW r, NEW a, Step(o, r, a)
  PROVE  RowsFilled' /\ ListedDue'
<1>1. acct \in Acct /\ listed \in [Batches -> SUBSET Slots]
  BY DEF PointInv, TypeOK, Acct
<1>2. acct.made \in Nat /\ acct' = a /\ now' = now /\ listed' = listed
  BY <1>1, SlotsFinite DEF Acct, Step
<1>3. CASE SameRows(acct, a)
  BY <1>1, <1>2, <1>3 DEF PointInv, RowsFilled, ListedDue, SameRows
<1>4. CASE a.made = acct.made + 1 /\ \A i \in Slots \ {acct.made + 1} : a.rows[i] = acct.rows[i]
  <2>1. ASSUME NEW i \in Slots, i > a.made PROVE a.rows[i].points = 0
    <3>1. i \in Slots \ {acct.made + 1} /\ i > acct.made
      BY <1>2, <1>4, <2>1 DEF Slots
    <3> QED BY <1>4, <3>1 DEF PointInv, RowsFilled
  <2>2. ASSUME NEW b \in Batches, NEW i \in listed[b] PROVE i <= a.made /\ a.rows[i].expires <= now
    <3>1. i \in Slots /\ i <= acct.made /\ acct.rows[i].expires <= now
      BY <1>1 DEF PointInv, ListedDue
    <3>2. i \in Slots \ {acct.made + 1}
      BY <1>2, <3>1 DEF Slots
    <3> QED BY <1>2, <1>4, <3>1, <3>2 DEF Slots
  <2> QED BY <1>2, <2>1, <2>2 DEF RowsFilled, ListedDue
<1> QED BY <1>3, <1>4 DEF Step, Filled

LEMMA StepKeepsInv ==
  ASSUME PointInv, NEW o \in Orders, NEW r, NEW a, Step(o, r, a)
  PROVE  PointInv'
<1>1. /\ orders' = [orders EXCEPT ![o] = r] /\ acct' = a /\ r \in OrderRec /\ a \in Acct
      /\ now' = now /\ listed' = listed /\ lapses' = lapses
      /\ notices' = notices /\ drafts' = drafts
  BY DEF Step
<1>2. acct \in Acct /\ orders \in [Orders -> OrderRec]
  BY DEF PointInv, TypeOK, Acct
<1>3. orders'[o] = r /\ \A p \in Orders \ {o} : orders'[p] = orders[p]
  BY <1>1, <1>2
<1>4. TypeOK'
  BY <1>1, <1>2 DEF PointInv, TypeOK, Acct
<1>5. LedgerInv'
  <2>1. \A i \in Slots : Owed'[i] = OwedAfter(o, r)[i]
    BY <1>1, <1>2, OwedFacts DEF OwedAfter
  <2>2. Books(a, OwedAfter(o, r), now) => Books(a, Owed', now)
    BY <2>1 DEF Books
  <2> QED BY <1>1, <2>2 DEF Step, LedgerInv
<1>6. OrdersShaped'
  <2>1. ASSUME NEW p \in Orders PROVE Shape(orders[p])'
    <3>1. CASE p = o
      BY <1>1, <1>3, <3>1 DEF Step, Shape
    <3>2. CASE p # o
      BY <1>1, <1>3, <3>2 DEF PointInv, OrdersShaped, Shape
    <3> QED BY <3>1, <3>2
  <2> QED BY <2>1 DEF OrdersShaped
<1>7. ChecksCovered'
  <2>1. ASSUME NEW p \in Orders PROVE Covered(orders[p])'
    <3>1. CASE p = o
      <4>1. CASE r.at = 0
        BY <1>3, <3>1, <4>1 DEF Covered
      <4>2. CASE a = acct /\ Covered(r)
        BY <1>1, <1>3, <3>1, <4>2 DEF Covered, ExpiresSince, Usable, EarnedBack
      <4> QED BY <4>1, <4>2 DEF Step
    <3>2. CASE p # o
      <4>1. orders'[p] = orders[p] /\ Covered(orders[p])
        BY <1>3, <3>2 DEF PointInv, ChecksCovered
      <4>2. CASE a = acct
        BY <1>1, <4>1, <4>2 DEF Covered, ExpiresSince, Usable, EarnedBack
      <4>3. CASE UserFreeFor(o)
        <5>1. ~HoldsUser(p)
          BY <3>2, <4>3 DEF UserFreeFor
        <5>2. orders[p] \in OrderRec
          BY <1>2
        <5>3. orders[p].at > 0 => ~(EarnedBack(orders[p]) > 0)
          BY <5>1, <5>2 DEF HoldsUser, Checking, EarnedBack, OrderRec
        <5> QED BY <4>1, <5>3 DEF Covered, EarnedBack
      <4> QED BY <4>2, <4>3 DEF Step
    <3> QED BY <3>1, <3>2
  <2> QED BY <2>1 DEF ChecksCovered
<1>8. OrdersWithin'
  <2>1. ASSUME NEW p \in Orders PROVE Within(orders'[p])
    BY <1>1, <1>3 DEF Step, PointInv, OrdersWithin
  <2> QED BY <2>1 DEF OrdersWithin, Within
<1> QED BY <1>4, <1>5, <1>6, <1>7, <1>8, StepKeepsRows DEF PointInv

(* Net, with the three sums over the orders named. *)
LEMMA StepKeepsNet ==
  ASSUME PointInv, NEW o \in Orders, NEW r, NEW a, Step(o, r, a)
  PROVE  lapses' = {} => Stays(o, Net, Net')
<1> DEFINE Used == [p \in Orders |-> orders[p].used]
           Given == [p \in Orders |-> orders[p].refunded]
           Sums == [p \in Orders |-> SumOver(orders[p].owed, Slots)]
<1>1. orders' = [orders EXCEPT ![o] = r] /\ acct' = a /\ r \in OrderRec /\ lapses' = lapses
  BY DEF Step
<1>2. acct \in Acct /\ a \in Acct /\ orders \in [Orders -> OrderRec] /\ IsFiniteSet(Orders)
  BY PointConstants DEF PointInv, TypeOK, Acct, Step
<1>3. ASSUME NEW q \in OrderRec
      PROVE  q.used \in Nat /\ q.refunded \in Nat /\ SumOver(q.owed, Slots) \in Nat
  <2>1. q.used \in Nat /\ q.refunded \in Nat /\ q.owed \in [Slots -> Nat]
    BY DEF OrderRec
  <2>2. Counts(q.owed, Slots)
    BY <2>1 DEF Counts
  <2> QED BY <2>1, <2>2, SlotsFinite, SumIsNat
<1>4. Counts(Used, Orders) /\ Counts(Given, Orders) /\ Counts(Sums, Orders)
  BY <1>2, <1>3 DEF Counts
<1>5. /\ SumOver(Used, Orders) \in Nat /\ SumOver(Given, Orders) \in Nat /\ SumOver(Sums, Orders) \in Nat
  <2> HIDE DEF Used, Given, Sums
  <2> QED BY <1>2, <1>4, SumIsNat
<1>6. /\ Used'[o] = r.used /\ Given'[o] = r.refunded /\ Sums'[o] = SumOver(r.owed, Slots)
      /\ \A p \in Orders \ {o} : Used'[p] = Used[p] /\ Given'[p] = Given[p] /\ Sums'[p] = Sums[p]
  BY <1>1, <1>2
<1>7. Used[o] = orders[o].used /\ Given[o] = orders[o].refunded /\ Sums[o] = SumOver(orders[o].owed, Slots)
  OBVIOUS
<1>8. /\ Net = Slack(acct) + SumOver(Used, Orders) - SumOver(Given, Orders) - SumOver(Sums, Orders)
      /\ Net' = Slack(a) + SumOver(Used', Orders) - SumOver(Given', Orders) - SumOver(Sums', Orders)
  BY <1>1 DEF Net, Slack, Lefts
<1>9. /\ r.used \in Nat /\ r.refunded \in Nat /\ SumOver(r.owed, Slots) \in Nat
      /\ orders[o].used \in Nat /\ orders[o].refunded \in Nat /\ SumOver(orders[o].owed, Slots) \in Nat
  BY <1>1, <1>2, <1>3
<1> HIDE DEF Used, Given, Sums
<1>10. /\ SumOver(Used', Orders) = SumOver(Used, Orders) - Used[o] + Used'[o]
       /\ SumOver(Given', Orders) = SumOver(Given, Orders) - Given[o] + Given'[o]
       /\ SumOver(Sums', Orders) = SumOver(Sums, Orders) - Sums[o] + Sums'[o]
  BY <1>2, <1>4, <1>6, <1>9, SumUpdate
<1>11. Slack(a) \in Int /\ Slack(acct) \in Int
  <2>1. ASSUME NEW b \in Acct PROVE Slack(b) \in Int
    <3>1. b.balance \in Nat /\ SumOver(Lefts(b), Slots) \in Nat
      BY <1>2, LeftsFacts, 0 \in Nat DEF Acct
    <3> QED BY <3>1 DEF Slack
  <2> QED BY <1>2, <2>1
<1>12. Net' - Net = Worth(a, r) - Worth(acct, orders[o])
  <2>1. /\ SumOver(Used', Orders) = SumOver(Used, Orders) - orders[o].used + r.used
        /\ SumOver(Given', Orders) = SumOver(Given, Orders) - orders[o].refunded + r.refunded
        /\ SumOver(Sums', Orders) = SumOver(Sums, Orders) - SumOver(orders[o].owed, Slots) + SumOver(r.owed, Slots)
    BY <1>6, <1>7, <1>10, Zenon
  <2> DEFINE u == SumOver(Used, Orders)  u0 == orders[o].used      u1 == r.used
             g == SumOver(Given, Orders) g0 == orders[o].refunded  g1 == r.refunded
             w == SumOver(Sums, Orders)  w0 == SumOver(orders[o].owed, Slots)
             w1 == SumOver(r.owed, Slots)
             s0 == Slack(acct)           s1 == Slack(a)
  <2>2. /\ u \in Nat /\ u0 \in Nat /\ u1 \in Nat /\ g \in Nat /\ g0 \in Nat /\ g1 \in Nat
        /\ w \in Nat /\ w0 \in Nat /\ w1 \in Nat /\ s0 \in Int /\ s1 \in Int
    BY <1>5, <1>9, <1>11
  <2>3. /\ Net = s0 + u - g - w
        /\ Net' = s1 + (u - u0 + u1) - (g - g0 + g1) - (w - w0 + w1)
        /\ Worth(a, r) = s1 + u1 - g1 - w1 /\ Worth(acct, orders[o]) = s0 + u0 - g0 - w0
    BY <1>8, <2>1, Zenon DEF Worth
  <2> HIDE DEF u, u0, u1, g, g0, g1, w, w0, w1, s0, s1
  <2> QED BY <2>2, <2>3
<1>13. Net \in Int /\ Net' \in Int /\ Worth(a, r) \in Int /\ Worth(acct, orders[o]) \in Int /\ orders[o].earned \in Nat
  <2>1. Net \in Int /\ Worth(a, r) \in Int /\ Worth(acct, orders[o]) \in Int
    BY <1>5, <1>8, <1>9, <1>11 DEF Worth
  <2>2. Net' \in Int
    <3>1. Used'[o] \in Nat /\ Given'[o] \in Nat /\ Sums'[o] \in Nat /\ Used[o] \in Nat /\ Given[o] \in Nat /\ Sums[o] \in Nat
      BY <1>6, <1>7, <1>9
    <3>2. SumOver(Used', Orders) \in Int /\ SumOver(Given', Orders) \in Int /\ SumOver(Sums', Orders) \in Int
      BY <1>5, <1>10, <3>1
    <3> QED BY <1>8, <1>11, <3>2
  <2>3. orders[o].earned \in Nat
    BY <1>2 DEF OrderRec
  <2> QED BY <2>1, <2>2, <2>3
<1>14. Stays(o, Worth(acct, orders[o]), Worth(a, r)) => Stays(o, Net, Net')
  BY <1>12, <1>13 DEF Stays
<1> QED BY <1>1, <1>14 DEF Step

(* A refund of no points is no refund. *)
LEMMA MaybeRefund ==
  ASSUME NEW a \in Acct, NEW r \in OrderRec, NEW amount \in Nat, NEW t \in Nat
  PROVE  LET b == IF amount > 0 THEN RefundUsed(a, r.owed, amount, t) ELSE a
             back == GiveBackLifo(r.owed, amount)
         IN  /\ b \in Acct /\ SameRows(a, b)
             /\ \A w \in [Slots -> Nat] :
                  Books(a, w, t) /\ (\A i \in Slots : r.owed[i] <= w[i])
                    => /\ Books(b, [i \in Slots |-> w[i] - back[i]], t)
                       /\ Slack(b) = Slack(a) + amount - SumOver(back, Slots)
<1> DEFINE back == GiveBackLifo(r.owed, amount)
<1>1. r.owed \in [Slots -> Nat]
  BY DEF OrderRec
<1>2. CASE amount > 0
  <2>1. RefundUsed(a, r.owed, amount, t) \in Acct /\ SameRows(a, RefundUsed(a, r.owed, amount, t))
    BY <1>1, RefundFacts
  <2>2. \A w \in [Slots -> Nat] :
          Books(a, w, t) /\ (\A i \in Slots : r.owed[i] <= w[i])
            => /\ Books(RefundUsed(a, r.owed, amount, t), [i \in Slots |-> w[i] - back[i]], t)
               /\ Slack(RefundUsed(a, r.owed, amount, t)) = Slack(a) + amount - SumOver(back, Slots)
    BY <1>1, RefundBooks
  <2> QED BY <1>2, <2>1, <2>2, Zenon
<1>3. CASE ~(amount > 0)
  <2>1. amount = 0
    BY <1>3
  <2>2. /\ back \in [Slots -> Nat]
        /\ SumOver(back, Slots) = Least(amount, SumOver(r.owed, Slots))
        /\ SumOver(r.owed, Slots) \in Nat
    BY <1>1, GiveBackFacts
  <2> HIDE DEF back
  <2>3. SumOver(back, Slots) = 0
    BY <2>1, <2>2 DEF Least
  <2>4. Counts(back, Slots)
    BY <2>2 DEF Counts
  <2>5. ASSUME NEW i \in Slots PROVE back[i] = 0
    <3>1. back[i] <= SumOver(back, Slots) /\ back[i] \in Nat
      BY <2>2, <2>4, SlotsFinite, SumBounds
    <3> QED BY <2>3, <3>1
  <2>6. SameRows(a, a)
    BY DEF SameRows
  <2>7. ASSUME NEW w \in [Slots -> Nat], Books(a, w, t)
        PROVE  Books(a, [i \in Slots |-> w[i] - back[i]], t)
    <3>1. \A i \in Slots : w[i] - back[i] = w[i]
      BY <2>5
    <3> QED BY <2>7, <3>1 DEF Books
  <2>8. Slack(a) = Slack(a) + amount - SumOver(back, Slots)
    <3>1. a.balance \in Nat /\ SumOver(Lefts(a), Slots) \in Nat
      BY LeftsFacts DEF Acct
    <3> QED BY <2>1, <2>3, <3>1 DEF Slack
  <2> QED BY <1>3, <2>6, <2>7, <2>8 DEF back
<1> QED BY <1>2, <1>3

LEMMA InvFacts ==
  ASSUME PointInv
  PROVE  /\ acct \in Acct /\ orders \in [Orders -> OrderRec] /\ now \in Nat
         /\ Owed \in [Slots -> Nat]
         /\ Slack(acct) \in Int
         /\ \A o \in Orders : /\ orders[o] \in OrderRec /\ Shape(orders[o]) /\ Covered(orders[o])
                              /\ Within(orders[o])
                              /\ orders[o].owed \in [Slots -> Nat]
                              /\ SumOver(orders[o].owed, Slots) \in Nat
                              /\ \A i \in Slots : orders[o].owed[i] <= Owed[i]
<1>1. acct \in Acct /\ orders \in [Orders -> OrderRec] /\ now \in Nat
  BY DEF PointInv, TypeOK, Acct
<1>2. Owed \in [Slots -> Nat]
  BY <1>1, OwedFacts
<1>3. ASSUME NEW o \in Orders
      PROVE  /\ orders[o] \in OrderRec /\ Shape(orders[o]) /\ Covered(orders[o]) /\ Within(orders[o])
             /\ orders[o].owed \in [Slots -> Nat]
             /\ SumOver(orders[o].owed, Slots) \in Nat
             /\ \A i \in Slots : orders[o].owed[i] <= Owed[i]
  <2>1. orders[o].owed \in [Slots -> Nat] /\ \A i \in Slots : orders[o].owed[i] <= Owed[i]
    BY <1>1, OwedFacts
  <2>2. Counts(orders[o].owed, Slots)
    BY <2>1 DEF Counts
  <2> QED BY <1>1, <2>1, <2>2, SlotsFinite, SumIsNat DEF PointInv, OrdersShaped, OrdersWithin, ChecksCovered
<1>4. Slack(acct) \in Int
  <2>1. acct.balance \in Nat /\ SumOver(Lefts(acct), Slots) \in Nat
    BY <1>1, LeftsFacts DEF Acct
  <2> QED BY <2>1 DEF Slack
<1> QED BY <1>1, <1>2, <1>3, <1>4

(* A step that leaves the points an order has used as they are. *)
LEMMA SameOwed ==
  ASSUME PointInv, NEW o \in Orders, NEW r \in OrderRec, r.owed = orders[o].owed
  PROVE  /\ \A a : Books(a, Owed, now) => Books(a, OwedAfter(o, r), now)
         /\ \A a : r.used = orders[o].used /\ r.refunded = orders[o].refunded /\ Slack(a) = Slack(acct)
                     => Worth(a, r) = Worth(acct, orders[o])
         /\ r.used = orders[o].used /\ r.refunded = orders[o].refunded => Within(r)
<1>1. \A i \in Slots : OwedAfter(o, r)[i] = Owed[i]
  BY InvFacts DEF OwedAfter
<1>2. r.used = orders[o].used /\ r.refunded = orders[o].refunded => Within(r)
  BY InvFacts DEF Within
<1> QED BY <1>1, <1>2 DEF Books, Worth

LEMMA NoRefill ==
  \A a : SameRows(a, a) /\ Filled(a, a)
BY DEF SameRows, Filled

(* An order is confirmed. *)
LEMMA ConfirmStep ==
  ASSUME PointInv, NEW o \in Orders, NEW amount \in UseAmounts, ConfirmOrder(o, amount)
  PROVE  \E r, a : Step(o, r, a)
<1> DEFINE take == TakeFifo(Lefts(acct), amount)
           r == [orders[o] EXCEPT !.status = "confirmed", !.used = amount, !.owed = take]
<1>1. /\ acct \in Acct /\ orders[o] \in OrderRec /\ now \in Nat /\ amount \in Nat /\ acct.balance \in Nat
      /\ Owed \in [Slots -> Nat] /\ Slack(acct) \in Int
  BY InvFacts, PointConstants DEF Acct
<1>2. orders[o].owed = NoPoints /\ orders[o].used = 0 /\ orders[o].refunded = 0 /\ orders[o].asked = 0
      /\ orders[o].at = 0
  <2>1. Shape(orders[o]) /\ orders[o].status = "none" /\ orders[o].asked \in Nat /\ orders[o].at \in Nat
    BY <1>1, InvFacts DEF ConfirmOrder, OrderRec
  <2> QED BY <2>1 DEF Shape
<1>3. Lefts(acct) \in [Slots -> Nat] /\ SumOver(Lefts(acct), Slots) \in Nat
  BY <1>1, LeftsFacts
<1>4. /\ take \in [Slots -> Nat] /\ SumOver(take, Slots) = Least(amount, SumOver(Lefts(acct), Slots))
  BY <1>1, <1>3, TakeFacts
<1> HIDE DEF take
<1>5. "confirmed" \in Statuses
  BY DEF Statuses
<1>6. /\ r \in OrderRec /\ r.status = "confirmed" /\ r.used = amount /\ r.owed = take
      /\ r.refunded = 0 /\ r.asked = 0 /\ r.at = 0
  BY <1>1, <1>2, <1>4, <1>5 DEF OrderRec
<1>7. orders' = [orders EXCEPT ![o] = r] /\ UNCHANGED <<now, listed, notices, drafts, lapses>> /\ UserFree
  BY DEF ConfirmOrder, SaveOrder, take
<1> HIDE DEF r
<1>8. Shape(r) /\ Within(r)
  <2>1. SumOver(take, Slots) <= amount /\ SumOver(take, Slots) \in Nat
    BY <1>1, <1>3, <1>4 DEF Least
  <2> QED BY <1>6, <2>1 DEF Shape, Within
<1>9. SumOver(orders[o].owed, Slots) = 0 /\ \A i \in Slots : OwedAfter(o, r)[i] = Owed[i] + take[i]
  <2>1. \A i \in Slots : orders[o].owed[i] = 0
    BY <1>2 DEF NoPoints
  <2>2. SumOver(orders[o].owed, Slots) = 0
    BY <2>1, SumOfZeros
  <2> QED BY <1>1, <1>4, <1>6, <2>1, <2>2 DEF OwedAfter
<1>10. Worth(acct, orders[o]) = Slack(acct)
  BY <1>1, <1>2, <1>9 DEF Worth
<1>11. UserFreeFor(o)
  BY <1>7 DEF UserFree, UserFreeFor
<1>12. SumOver(take, Slots) \in Nat
  BY <1>1, <1>3, <1>4 DEF Least
<1>13. CASE amount = 0 /\ UNCHANGED acct
  <2>1. SumOver(take, Slots) = 0
    BY <1>3, <1>4, <1>13 DEF Least
  <2>2. ASSUME NEW i \in Slots PROVE take[i] = 0
    <3>1. Counts(take, Slots)
      BY <1>4 DEF Counts
    <3>2. take[i] <= SumOver(take, Slots) /\ take[i] \in Nat
      BY <1>4, <3>1, SlotsFinite, SumBounds
    <3> QED BY <2>1, <3>2
  <2>3. \A i \in Slots : OwedAfter(o, r)[i] = Owed[i]
    BY <1>1, <1>9, <2>2
  <2>4. lapses = {} => Books(acct, OwedAfter(o, r), now)
    BY <2>3 DEF PointInv, LedgerInv, Books
  <2>5. Worth(acct, r) = Slack(acct)
    BY <1>1, <1>6, <1>13, <2>1 DEF Worth
  <2>6. Step(o, r, acct)
    BY <1>1, <1>6, <1>7, <1>8, <1>10, <1>11, <1>13, <2>4, <2>5, NoRefill DEF Step, Stays
  <2> QED BY <2>6
<1>14. CASE CanUse(acct, amount) /\ acct' = Spend(acct, amount, take)
  <2> DEFINE b == Spend(acct, amount, take)
  <2>1. amount <= acct.balance
    BY <1>1, <1>14 DEF CanUse
  <2>2. /\ b \in Acct /\ SameRows(acct, b)
        /\ \A w \in [Slots -> Nat] :
             Books(acct, w, now) => Books(b, [i \in Slots |-> w[i] + take[i]], now)
        /\ Slack(b) = Slack(acct) - amount + SumOver(take, Slots)
    BY <1>1, <2>1, UseBooks DEF take
  <2>3. acct' = b
    BY <1>14
  <2> HIDE DEF b
  <2>4. lapses = {} => Books(b, OwedAfter(o, r), now)
    <3>1. ASSUME lapses = {} PROVE Books(b, [i \in Slots |-> Owed[i] + take[i]], now)
      BY <1>1, <2>2, <3>1 DEF PointInv, LedgerInv
    <3> QED BY <1>9, <3>1 DEF Books
  <2>5. Worth(b, r) = Slack(acct)
    BY <1>1, <1>6, <1>12, <2>2 DEF Worth
  <2>6. Step(o, r, b)
    BY <1>6, <1>7, <1>8, <1>10, <1>11, <2>2, <2>3, <2>4, <2>5 DEF Step, Filled, Stays
  <2> QED BY <2>6
<1> QED BY <1>13, <1>14 DEF ConfirmOrder, take

(* An order ends unpaid and gets its points back. *)
LEMMA EndUnpaidStep ==
  ASSUME PointInv, NEW o \in Orders, NEW status \in {"canceled", "payment_failed"}, EndUnpaid(o, status)
  PROVE  \E r, a : Step(o, r, a)
<1> DEFINE q == orders[o]
           g == GivenBack(q, q.used)
           back == GiveBackLifo(q.owed, q.used)
           r == [g EXCEPT !.status = status]
           a == IF q.used > 0 THEN RefundUsed(acct, q.owed, q.used, now) ELSE acct
<1>1. /\ acct \in Acct /\ q \in OrderRec /\ now \in Nat /\ q.used \in Nat /\ q.refunded \in Nat
      /\ Owed \in [Slots -> Nat] /\ Slack(acct) \in Int /\ Shape(q) /\ Within(q)
      /\ q.owed \in [Slots -> Nat] /\ SumOver(q.owed, Slots) \in Nat
      /\ \A i \in Slots : q.owed[i] <= Owed[i]
  BY InvFacts DEF OrderRec
<1>2. orders' = [orders EXCEPT ![o] = r] /\ acct' = a
      /\ UNCHANGED <<now, listed, notices, drafts, lapses>> /\ UserFreeFor(o) /\ q.status = "confirmed"
  BY DEF EndUnpaid, SaveOrder, UserFree, UserFreeFor
<1>3. /\ g \in OrderRec /\ g.refunded = q.refunded + q.used /\ g.used = q.used
      /\ \A i \in Slots : g.owed[i] = q.owed[i] - back[i]
      /\ SumOver(q.owed, Slots) = SumOver(g.owed, Slots) + SumOver(back, Slots)
      /\ SumOver(g.owed, Slots) \in Nat /\ SumOver(back, Slots) \in Nat
      /\ g.asked = q.asked /\ g.at = q.at /\ Within(g)
  BY <1>1, GivenBackKept
<1>4. /\ a \in Acct /\ SameRows(acct, a)
      /\ \A w \in [Slots -> Nat] :
           Books(acct, w, now) /\ (\A i \in Slots : q.owed[i] <= w[i])
             => /\ Books(a, [i \in Slots |-> w[i] - back[i]], now)
                /\ Slack(a) = Slack(acct) + q.used - SumOver(back, Slots)
  BY <1>1, MaybeRefund
<1>5. back \in [Slots -> Nat]
  BY <1>1, GiveBackFacts
<1> HIDE DEF g, back, a
<1>6. status \in Statuses
  BY DEF Statuses
<1>7. /\ r \in OrderRec /\ r.status = status /\ r.refunded = g.refunded /\ r.used = g.used
      /\ r.owed = g.owed /\ r.asked = g.asked /\ r.at = g.at
  BY <1>3, <1>6 DEF OrderRec
<1> HIDE DEF r
<1>8. q.asked = 0 /\ q.at = 0
  <2>1. q.asked \in Nat /\ q.at \in Nat
    BY <1>1 DEF OrderRec
  <2> QED BY <1>1, <1>2, <2>1 DEF Shape
<1>9. Shape(r) /\ Within(r) /\ r.at = 0
  BY <1>3, <1>7, <1>8 DEF Shape, Within
<1> HIDE DEF q
<1>10. ASSUME lapses = {} PROVE Books(a, OwedAfter(o, r), now) /\ Worth(a, r) = Worth(acct, orders[o])
  <2>1. Books(a, [i \in Slots |-> Owed[i] - back[i]], now) /\ Slack(a) = Slack(acct) + q.used - SumOver(back, Slots)
    BY <1>1, <1>4, <1>10 DEF PointInv, LedgerInv
  <2>2. \A i \in Slots : OwedAfter(o, r)[i] = Owed[i] - back[i]
    BY <1>1, <1>3, <1>5, <1>7 DEF OwedAfter, q
  <2>3. Books(a, OwedAfter(o, r), now)
    BY <2>1, <2>2 DEF Books
  <2>4. Worth(a, r) = Worth(acct, q)
    BY <1>1, <1>3, <1>7, <2>1 DEF Worth
  <2> QED BY <2>3, <2>4 DEF q
<1>11. Step(o, r, a)
  BY <1>2, <1>4, <1>7, <1>9, <1>10 DEF Step, Filled, Stays
<1> QED BY <1>11

(* A step that changes no points. *)
LEMMA QuietStep ==
  ASSUME PointInv, NEW o \in Orders, NEW r \in OrderRec, orders' = [orders EXCEPT ![o] = r],
         UNCHANGED acct, UNCHANGED <<now, listed, notices, drafts, lapses>>,
         r.owed = orders[o].owed, r.used = orders[o].used, r.refunded = orders[o].refunded,
         Shape(r), r.at = 0 \/ Covered(r)
  PROVE  \E q, a : Step(o, q, a)
<1>1. lapses = {} => Books(acct, OwedAfter(o, r), now)
  BY SameOwed DEF PointInv, LedgerInv
<1>2. Worth(acct, r) = Worth(acct, orders[o])
  BY SameOwed
<1>3. Step(o, r, acct)
  BY <1>1, <1>2, InvFacts, SameOwed, NoRefill DEF Step, Stays
<1> QED BY <1>3

(* A step that writes an earn row for the order. *)
LEMMA EarnStep ==
  ASSUME PointInv, NEW o \in Orders, NEW r \in OrderRec, orders' = [orders EXCEPT ![o] = r],
         NEW amount \in Nat, acct.made < MaxRows, acct' = AddPoints(acct, amount, now), UserFree,
         UNCHANGED <<now, listed, notices, drafts, lapses>>,
         r.owed = orders[o].owed, r.used = orders[o].used, r.refunded = orders[o].refunded,
         Shape(r), r.at = 0
  PROVE  \E q, a : Step(o, q, a)
<1> DEFINE a == AddPoints(acct, amount, now)
<1>1. acct \in Acct /\ now \in Nat /\ Owed \in [Slots -> Nat]
  BY InvFacts
<1>2. acct.rows[acct.made + 1].points = 0
  <2>1. acct.made \in Nat /\ acct.made + 1 \in Slots
    BY <1>1, SlotsFinite DEF Acct, Slots
  <2>2. acct.made + 1 > acct.made
    BY <2>1
  <2> QED BY <2>1, <2>2 DEF PointInv, RowsFilled
<1>3. /\ a \in Acct /\ a.made = acct.made + 1
      /\ \A i \in Slots \ {acct.made + 1} : a.rows[i] = acct.rows[i]
      /\ \A w \in [Slots -> Nat] : Books(acct, w, now) => Books(a, w, now) /\ Slack(a) = Slack(acct)
  BY <1>1, <1>2, AddBooks
<1>4. acct' = a
  OBVIOUS
<1> HIDE DEF a
<1>5. ASSUME lapses = {} PROVE Books(a, OwedAfter(o, r), now) /\ Worth(a, r) = Worth(acct, orders[o])
  <2>1. Books(a, Owed, now) /\ Slack(a) = Slack(acct)
    BY <1>1, <1>3, <1>5 DEF PointInv, LedgerInv
  <2> QED BY <2>1, SameOwed
<1>6. Step(o, r, a)
  BY <1>3, <1>4, <1>5, SameOwed DEF Step, Filled, Stays, UserFree, UserFreeFor
<1> QED BY <1>6

LEMMA NotAsked ==
  ASSUME PointInv, NEW o \in Orders, orders[o].status \notin {"delivered", "canceled", "refunded"}
  PROVE  orders[o].asked = 0 /\ (orders[o].at > 0 => orders[o].status = "paid")
<1>1. Shape(orders[o]) /\ orders[o].asked \in Nat /\ orders[o].at \in Nat
  BY InvFacts DEF OrderRec
<1> QED BY <1>1 DEF Shape

LEMMA StatusValues ==
  "none" \in Statuses /\ "confirmed" \in Statuses /\ "payment_failed" \in Statuses /\ "paid" \in Statuses
  /\ "delivered" \in Statuses /\ "canceled" \in Statuses /\ "refunded" \in Statuses
BY DEF Statuses

LEMMA PayStep ==
  ASSUME PointInv, NEW o \in Orders, PayOrder(o)
  PROVE  \E r, a : Step(o, r, a)
<1> DEFINE r == [orders[o] EXCEPT !.status = "paid", !.due = TRUE]
<1>1. orders[o] \in OrderRec /\ Shape(orders[o]) /\ orders[o].at \in Nat
  BY InvFacts DEF OrderRec
<1>2. /\ r \in OrderRec /\ r.status = "paid" /\ r.asked = orders[o].asked /\ r.at = orders[o].at
      /\ r.owed = orders[o].owed /\ r.used = orders[o].used /\ r.refunded = orders[o].refunded
  BY <1>1, StatusValues DEF OrderRec
<1>3. /\ orders' = [orders EXCEPT ![o] = r] /\ UNCHANGED acct
      /\ UNCHANGED <<now, listed, notices, drafts, lapses>>
      /\ orders[o].status \in {"confirmed", "payment_failed"}
  BY DEF PayOrder, SaveOrder, Payable
<1> HIDE DEF r
<1>4. orders[o].asked = 0 /\ orders[o].at = 0
  BY <1>1, <1>3, NotAsked
<1>5. Shape(r)
  BY <1>2, <1>4 DEF Shape
<1> QED BY <1>2, <1>3, <1>4, <1>5, QuietStep

LEMMA EarnTaskStep ==
  ASSUME PointInv, NEW o \in Orders, NEW amount \in EarnAmounts, EarnTask(o, amount)
  PROVE  \E r, a : Step(o, r, a)
<1> DEFINE q == orders[o]
           r1 == [q EXCEPT !.due = FALSE]
           r2 == [q EXCEPT !.due = FALSE, !.earned = amount, !.hasRow = TRUE]
<1>1. q \in OrderRec /\ Shape(q) /\ q.at \in Nat /\ amount \in Nat
  BY InvFacts, PointConstants DEF OrderRec
<1>2. q.at = 0 /\ UserFree
  BY <1>1 DEF EarnTask, Checking
<1>3. /\ r1 \in OrderRec /\ r1.status = q.status /\ r1.asked = q.asked /\ r1.at = q.at
      /\ r1.owed = q.owed /\ r1.used = q.used /\ r1.refunded = q.refunded
  BY <1>1 DEF OrderRec
<1>4. /\ r2 \in OrderRec /\ r2.status = q.status /\ r2.asked = q.asked /\ r2.at = q.at
      /\ r2.owed = q.owed /\ r2.used = q.used /\ r2.refunded = q.refunded
  BY <1>1 DEF OrderRec
<1>5. UNCHANGED <<now, listed, notices, drafts, lapses>>
  BY DEF EarnTask
<1>6. \/ orders' = [orders EXCEPT ![o] = r1] /\ UNCHANGED acct
      \/ orders' = [orders EXCEPT ![o] = r2] /\ acct.made < MaxRows /\ acct' = AddPoints(acct, amount, now)
  BY DEF EarnTask, SaveOrder
<1> HIDE DEF r1, r2
<1>7. Shape(r1) /\ Shape(r2)
  BY <1>1, <1>3, <1>4 DEF Shape
<1>8. CASE orders' = [orders EXCEPT ![o] = r1] /\ UNCHANGED acct
  BY <1>2, <1>3, <1>5, <1>7, <1>8, QuietStep
<1>9. CASE orders' = [orders EXCEPT ![o] = r2] /\ acct.made < MaxRows /\ acct' = AddPoints(acct, amount, now)
  BY <1>1, <1>2, <1>4, <1>5, <1>7, <1>9, EarnStep
<1> QED BY <1>6, <1>8, <1>9

LEMMA WebhookDoneStep ==
  ASSUME PointInv, NEW o \in Orders, NEW amount \in EarnAmounts, WebhookDone(o, amount)
  PROVE  \E r, a : Step(o, r, a)
<1> DEFINE q == orders[o]
           r1 == [q EXCEPT !.status = "paid"]
           r2 == [q EXCEPT !.status = "paid", !.earned = amount, !.hasRow = TRUE]
<1>1. q \in OrderRec /\ Shape(q) /\ q.at \in Nat /\ amount \in Nat
  BY InvFacts, PointConstants DEF OrderRec
<1>2. q.at = 0 /\ q.asked = 0 /\ UserFree
  <2>1. q.status \in {"confirmed", "payment_failed"} /\ UserFree
    BY DEF WebhookDone, Payable
  <2> QED BY <1>1, <2>1, NotAsked
<1>3. /\ r1 \in OrderRec /\ r1.status = "paid" /\ r1.asked = q.asked /\ r1.at = q.at
      /\ r1.owed = q.owed /\ r1.used = q.used /\ r1.refunded = q.refunded
  BY <1>1, StatusValues DEF OrderRec
<1>4. /\ r2 \in OrderRec /\ r2.status = "paid" /\ r2.asked = q.asked /\ r2.at = q.at
      /\ r2.owed = q.owed /\ r2.used = q.used /\ r2.refunded = q.refunded
  BY <1>1, StatusValues DEF OrderRec
<1>5. UNCHANGED <<now, listed, notices, drafts, lapses>>
  BY DEF WebhookDone
<1>6. \/ orders' = [orders EXCEPT ![o] = r1] /\ UNCHANGED acct
      \/ orders' = [orders EXCEPT ![o] = r2] /\ acct.made < MaxRows /\ acct' = AddPoints(acct, amount, now)
  BY DEF WebhookDone, SaveOrder
<1> HIDE DEF r1, r2
<1>7. Shape(r1) /\ Shape(r2)
  BY <1>2, <1>3, <1>4 DEF Shape
<1>8. CASE orders' = [orders EXCEPT ![o] = r1] /\ UNCHANGED acct
  BY <1>2, <1>3, <1>5, <1>7, <1>8, QuietStep
<1>9. CASE orders' = [orders EXCEPT ![o] = r2] /\ acct.made < MaxRows /\ acct' = AddPoints(acct, amount, now)
  BY <1>1, <1>2, <1>4, <1>5, <1>7, <1>9, EarnStep
<1> QED BY <1>6, <1>8, <1>9

LEMMA DeliverStep ==
  ASSUME PointInv, NEW o \in Orders, Deliver(o)
  PROVE  \E r, a : Step(o, r, a)
<1> DEFINE r == [orders[o] EXCEPT !.status = "delivered"]
<1>1. orders[o] \in OrderRec /\ Shape(orders[o]) /\ orders[o].at \in Nat
  BY InvFacts DEF OrderRec
<1>2. /\ r \in OrderRec /\ r.status = "delivered" /\ r.asked = orders[o].asked /\ r.at = orders[o].at
      /\ r.owed = orders[o].owed /\ r.used = orders[o].used /\ r.refunded = orders[o].refunded
  BY <1>1, StatusValues DEF OrderRec
<1>3. /\ orders' = [orders EXCEPT ![o] = r] /\ UNCHANGED acct
      /\ UNCHANGED <<now, listed, notices, drafts, lapses>>
      /\ orders[o].at = 0
  BY <1>1 DEF Deliver, SaveOrder, Checking
<1> HIDE DEF r
<1>5. Shape(r)
  BY <1>2, <1>3 DEF Shape
<1> QED BY <1>2, <1>3, <1>5, QuietStep

LEMMA AskReturnStep ==
  ASSUME PointInv, NEW o \in Orders, NEW quantity \in 1..Goods, AskReturn(o, quantity)
  PROVE  \E r, a : Step(o, r, a)
<1> DEFINE r == [orders[o] EXCEPT !.asked = quantity]
<1>1. orders[o] \in OrderRec /\ Shape(orders[o]) /\ orders[o].at \in Nat /\ quantity \in Nat
  BY InvFacts, PointConstants DEF OrderRec
<1>2. /\ r \in OrderRec /\ r.status = orders[o].status /\ r.asked = quantity /\ r.at = orders[o].at
      /\ r.owed = orders[o].owed /\ r.used = orders[o].used /\ r.refunded = orders[o].refunded
  BY <1>1 DEF OrderRec
<1>3. /\ orders' = [orders EXCEPT ![o] = r] /\ UNCHANGED acct
      /\ UNCHANGED <<now, listed, notices, drafts, lapses>>
      /\ orders[o].status = "delivered" /\ orders[o].asked = 0
  BY DEF AskReturn, SaveOrder
<1> HIDE DEF r
<1>4. orders[o].at = 0
  BY <1>1, <1>3 DEF Shape
<1>5. Shape(r)
  BY <1>2, <1>3, <1>4 DEF Shape
<1> QED BY <1>2, <1>3, <1>4, <1>5, QuietStep

LEMMA CheckStep ==
  ASSUME PointInv, NEW o \in Orders, CheckUnwind(o)
  PROVE  \E r, a : Step(o, r, a)
<1> DEFINE r == [orders[o] EXCEPT !.at = now]
<1>1. orders[o] \in OrderRec /\ Shape(orders[o]) /\ now \in Nat /\ acct \in Acct
  BY InvFacts
<1>2. /\ r \in OrderRec /\ r.status = orders[o].status /\ r.asked = orders[o].asked /\ r.at = now
      /\ r.returned = orders[o].returned /\ r.earned = orders[o].earned
      /\ r.owed = orders[o].owed /\ r.used = orders[o].used /\ r.refunded = orders[o].refunded
  BY <1>1 DEF OrderRec
<1>3. /\ orders' = [orders EXCEPT ![o] = r] /\ UNCHANGED acct
      /\ UNCHANGED <<now, listed, notices, drafts, lapses>>
      /\ orders[o].status = "paid" \/ orders[o].asked > 0
      /\ Reclaimable(orders[o])
  BY DEF CheckUnwind, SaveOrder
<1> HIDE DEF r
<1>4. Shape(r)
  BY <1>1, <1>2, <1>3 DEF Shape
<1>5. EarnedBack(r) = EarnedBack(orders[o])
  BY <1>2 DEF EarnedBack
<1>6. Covered(r)
  <2>1. ASSUME EarnedBack(orders[o]) > 0
        PROVE  SumOver(Usable(acct, now), Slots) >= EarnedBack(orders[o])
    <3>1. Least(acct.balance + PointsBack(orders[o]), SumOver(Usable(acct, now), Slots)) >= EarnedBack(orders[o])
      BY <1>3, <2>1 DEF Reclaimable
    <3>2. /\ acct.balance \in Nat /\ PointsBack(orders[o]) \in Nat /\ EarnedBack(orders[o]) \in Nat
          /\ SumOver(Usable(acct, now), Slots) \in Nat
      BY <1>1, BackFacts, LeftsFacts DEF Acct
    <3> QED BY <3>1, <3>2 DEF Least
  <2> QED BY <1>5, <2>1 DEF Covered
<1> QED BY <1>2, <1>3, <1>4, <1>6, QuietStep

(* A step that gives an order back part of what it has used. *)
LEMMA BackStep ==
  ASSUME PointInv, NEW o \in Orders, NEW amount \in Nat, NEW r \in OrderRec, NEW a \in Acct,
         orders' = [orders EXCEPT ![o] = r], acct' = a, UserFreeFor(o), SameRows(acct, a),
         UNCHANGED <<now, listed, notices, drafts, lapses>>,
         r.used = orders[o].used, r.refunded = orders[o].refunded + amount,
         r.owed = GivenBack(orders[o], amount).owed, Shape(r), r.at = 0,
         lapses = {} =>
           /\ Books(a, [i \in Slots |-> Owed[i] - GiveBackLifo(orders[o].owed, amount)[i]], now)
           /\ Stays(o, Slack(acct) + amount - SumOver(GiveBackLifo(orders[o].owed, amount), Slots), Slack(a))
  PROVE  \E q, b : Step(o, q, b)
<1> DEFINE q == orders[o]
           g == GivenBack(q, amount)
           back == GiveBackLifo(q.owed, amount)
<1>1. /\ q \in OrderRec /\ q.used \in Nat /\ q.refunded \in Nat
      /\ Owed \in [Slots -> Nat] /\ Slack(acct) \in Int
      /\ q.owed \in [Slots -> Nat] /\ SumOver(q.owed, Slots) \in Nat
      /\ q.earned \in Nat /\ Within(q)
  BY InvFacts DEF OrderRec
<1>2. /\ \A i \in Slots : g.owed[i] = q.owed[i] - back[i]
      /\ SumOver(q.owed, Slots) = SumOver(g.owed, Slots) + SumOver(back, Slots)
      /\ SumOver(g.owed, Slots) \in Nat /\ SumOver(back, Slots) \in Nat
      /\ g.used = q.used /\ g.refunded = q.refunded + amount /\ Within(g)
  BY <1>1, GivenBackKept
<1>3. back \in [Slots -> Nat]
  BY <1>1, GiveBackFacts
<1>4. r.used = q.used /\ r.refunded = q.refunded + amount /\ r.owed = g.owed
  OBVIOUS
<1>5. lapses = {} => /\ Books(a, [i \in Slots |-> Owed[i] - back[i]], now)
                     /\ Stays(o, Slack(acct) + amount - SumOver(back, Slots), Slack(a))
  OBVIOUS
<1> HIDE DEF g, back, q
<1>6. ASSUME lapses = {}
      PROVE  /\ Books(a, OwedAfter(o, r), now)
             /\ Stays(o, Worth(acct, orders[o]), Worth(a, r))
  <2>1. \A i \in Slots : OwedAfter(o, r)[i] = Owed[i] - back[i]
    BY <1>1, <1>2, <1>3, <1>4 DEF OwedAfter, q
  <2>2. Books(a, OwedAfter(o, r), now)
    BY <1>5, <1>6, <2>1 DEF Books
  <2>3. Slack(a) \in Int
    BY LeftsFacts, 0 \in Nat DEF Slack, Acct
  <2>4. Worth(a, r) - Worth(acct, q) = Slack(a) - (Slack(acct) + amount - SumOver(back, Slots))
    BY <1>1, <1>2, <1>4, <2>3 DEF Worth
  <2>5. Worth(a, r) \in Int /\ Worth(acct, q) \in Int /\ Slack(acct) + amount - SumOver(back, Slots) \in Int
    BY <1>1, <1>2, <1>4, <2>3 DEF Worth
  <2>6. Stays(o, Worth(acct, q), Worth(a, r))
    BY <1>1, <1>5, <1>6, <2>3, <2>4, <2>5 DEF Stays, q
  <2> QED BY <2>2, <2>6 DEF q
<1>7. Within(r)
  BY <1>2, <1>4 DEF Within
<1>8. Step(o, r, a)
  BY <1>6, <1>7 DEF Step, Filled
<1> QED BY <1>8

(* A step that takes earned points back and changes nothing of the order's  *)
(* used points.                                                             *)
LEMMA ReclaimStep ==
  ASSUME PointInv, NEW o \in Orders, NEW r \in OrderRec, orders' = [orders EXCEPT ![o] = r],
         acct' = IF orders[o].status = "paid" /\ orders[o].earned > 0
                 THEN Reclaim(acct, orders[o].earned, now) ELSE acct,
         UserFreeFor(o), UNCHANGED <<now, listed, notices, drafts, lapses>>,
         r.owed = orders[o].owed, r.used = orders[o].used, r.refunded = orders[o].refunded,
         Shape(r), r.at = 0, orders[o].at = 0, r.status \in {"canceled", "confirmed"}
  PROVE  \E q, a : Step(o, q, a)
<1> DEFINE a == Reclaim(acct, orders[o].earned, now)
<1>1. /\ acct \in Acct /\ now \in Nat /\ Owed \in [Slots -> Nat] /\ orders[o] \in OrderRec
      /\ orders \in [Orders -> OrderRec] /\ orders[o].earned \in Nat
  BY InvFacts DEF OrderRec
<1>2. CASE orders[o].status = "paid" /\ orders[o].earned > 0
  <2>1. /\ a \in Acct /\ SameRows(acct, a)
        /\ \A w \in [Slots -> Nat] : Books(acct, w, now) => Books(a, w, now)
        /\ CanReclaim(acct, orders[o].earned, now) => Slack(a) = Slack(acct)
        /\ ~CanReclaim(acct, orders[o].earned, now) =>
             Slack(acct) <= Slack(a) /\ Slack(a) < Slack(acct) + orders[o].earned
    BY <1>1, ReclaimBooks
  <2>2. acct' = a
    BY <1>2
  <2> HIDE DEF a
  <2>3. ~CanReclaim(acct, orders[o].earned, now) => ReclaimsTooLittle(o)
    <3>1. orders'[o] = r
      BY <1>1
    <3>2. ~Checking(o)
      BY DEF Checking
    <3> QED BY <1>2, <3>1, <3>2 DEF ReclaimsTooLittle
  <2>4. lapses = {} => Books(a, OwedAfter(o, r), now)
    BY <1>1, <2>1, SameOwed DEF PointInv, LedgerInv
  <2>5. Stays(o, Worth(acct, orders[o]), Worth(a, r))
    <3>1. /\ Slack(a) \in Int /\ Slack(acct) \in Int /\ SumOver(r.owed, Slots) \in Nat
          /\ r.used \in Nat /\ r.refunded \in Nat
      BY <1>1, <2>1, InvFacts, LeftsFacts DEF Slack, Acct, OrderRec
    <3>2. Worth(a, r) - Worth(acct, orders[o]) = Slack(a) - Slack(acct)
          /\ Worth(a, r) \in Int /\ Worth(acct, orders[o]) \in Int
      BY <3>1 DEF Worth
    <3>3. CASE CanReclaim(acct, orders[o].earned, now)
      BY <2>1, <3>1, <3>2, <3>3 DEF Stays
    <3>4. CASE ~CanReclaim(acct, orders[o].earned, now)
      BY <1>1, <2>1, <2>3, <3>1, <3>2, <3>4 DEF Stays
    <3> QED BY <3>3, <3>4
  <2>6. Step(o, r, a)
    BY <2>1, <2>2, <2>4, <2>5, SameOwed DEF Step, Filled
  <2> QED BY <2>6
<1>3. CASE ~(orders[o].status = "paid" /\ orders[o].earned > 0)
  <2>1. UNCHANGED acct
    BY <1>3
  <2> QED BY <2>1, QuietStep
<1> QED BY <1>2, <1>3

LEMMA DepositRevertedStep ==
  ASSUME PointInv, NEW o \in Orders, DepositReverted(o)
  PROVE  \E r, a : Step(o, r, a)
<1> DEFINE q == orders[o]
           n == IF CanReclaim(acct, q.earned, now) THEN 0 ELSE q.earned
           r == [q EXCEPT !.status = "confirmed", !.earned = n]
<1>1. q \in OrderRec /\ Shape(q) /\ q.at \in Nat /\ q.earned \in Nat
  BY InvFacts DEF OrderRec
<1>2. n \in Nat
  BY <1>1
<1>3. /\ orders' = [orders EXCEPT ![o] = r] /\ UNCHANGED <<now, listed, notices, drafts, lapses>>
      /\ q.status = "paid" /\ ~Checking(o) /\ UserFreeFor(o)
      /\ acct' = IF q.earned > 0 THEN Reclaim(acct, q.earned, now) ELSE acct
  BY DEF DepositReverted, SaveOrder, UserFree, UserFreeFor
<1> HIDE DEF n
<1>4. /\ r \in OrderRec /\ r.status = "confirmed" /\ r.asked = q.asked /\ r.at = q.at
      /\ r.owed = q.owed /\ r.used = q.used /\ r.refunded = q.refunded
  BY <1>1, <1>2, StatusValues DEF OrderRec
<1> HIDE DEF r
<1>5. q.at = 0
  BY <1>1, <1>3 DEF Checking
<1>6. q.asked = 0
  BY <1>3, NotAsked
<1>7. Shape(r)
  BY <1>4, <1>5, <1>6 DEF Shape
<1>8. acct' = IF q.status = "paid" /\ q.earned > 0 THEN Reclaim(acct, q.earned, now) ELSE acct
  BY <1>3
<1> QED BY <1>3, <1>4, <1>5, <1>7, <1>8, ReclaimStep

LEMMA WebhookCanceledStep ==
  ASSUME PointInv, NEW o \in Orders, WebhookCanceled(o)
  PROVE  \E r, a : Step(o, r, a)
<1> DEFINE q == orders[o]
           c == IF q.status = "paid" /\ q.earned > 0 THEN Reclaim(acct, q.earned, now) ELSE acct
           given == q.status \in {"confirmed", "paid"} /\ q.used > 0
           g == GivenBack(q, q.used)
           back == GiveBackLifo(q.owed, q.used)
           r == [g EXCEPT !.status = "canceled"]
           s == [q EXCEPT !.status = "canceled"]
           a == RefundUsed(c, q.owed, q.used, now)
<1>1. /\ acct \in Acct /\ q \in OrderRec /\ now \in Nat /\ q.used \in Nat /\ q.refunded \in Nat
      /\ Owed \in [Slots -> Nat] /\ Slack(acct) \in Int /\ Shape(q) /\ q.earned \in Nat
      /\ q.owed \in [Slots -> Nat] /\ SumOver(q.owed, Slots) \in Nat /\ q.at \in Nat
      /\ \A i \in Slots : q.owed[i] <= Owed[i]
      /\ orders \in [Orders -> OrderRec]
  BY InvFacts DEF OrderRec
<1>2. /\ UNCHANGED <<now, listed, notices, drafts, lapses>> /\ ~Checking(o) /\ UserFreeFor(o)
      /\ q.status # "none"
      /\ given => orders' = [orders EXCEPT ![o] = r] /\ acct' = a
      /\ ~given => orders' = [orders EXCEPT ![o] = s] /\ acct' = c
  <2>1. /\ UNCHANGED <<now, listed, notices, drafts, lapses>> /\ ~Checking(o) /\ UserFreeFor(o)
        /\ q.status # "none"
    BY DEF WebhookCanceled, UserFree, UserFreeFor
  <2>2. /\ acct' = IF given THEN a ELSE c
        /\ orders' = [orders EXCEPT ![o] = [(IF given THEN g ELSE q) EXCEPT !.status = "canceled"]]
    BY DEF WebhookCanceled, SaveOrder
  <2> HIDE DEF given, g, a, c
  <2> QED BY <2>1, <2>2
<1>3. q.at = 0
  BY <1>1, <1>2 DEF Checking
<1>4. CASE ~given
  <2>1. /\ s \in OrderRec /\ s.status = "canceled" /\ s.at = q.at
        /\ s.owed = q.owed /\ s.used = q.used /\ s.refunded = q.refunded
    BY <1>1, StatusValues DEF OrderRec
  <2>2. orders' = [orders EXCEPT ![o] = s] /\ acct' = c
    BY <1>2, <1>4
  <2> HIDE DEF s, given
  <2>3. Shape(s)
    BY <1>3, <2>1 DEF Shape
  <2> QED BY <1>2, <1>3, <2>1, <2>2, <2>3, ReclaimStep
<1>5. CASE given
  <2>1. /\ g \in OrderRec /\ g.refunded = q.refunded + q.used /\ g.used = q.used /\ g.at = q.at
    BY <1>1, GivenBackKept
  <2>2. /\ c \in Acct /\ SameRows(acct, c)
        /\ \A w \in [Slots -> Nat] : Books(acct, w, now) => Books(c, w, now)
        /\ \/ Slack(c) = Slack(acct)
           \/ /\ q.status = "paid" /\ q.earned > 0 /\ ~CanReclaim(acct, q.earned, now)
              /\ Slack(acct) <= Slack(c) /\ Slack(c) < Slack(acct) + q.earned
    BY <1>1, ReclaimBooks, NoRefill
  <2>3. orders' = [orders EXCEPT ![o] = r] /\ acct' = a
    BY <1>2, <1>5
  <2> HIDE DEF c
  <2>4. a \in Acct /\ SameRows(c, a)
    BY <1>1, <2>2, RefundFacts
  <2>5. SameRows(acct, a)
    BY <2>2, <2>4 DEF SameRows
  <2>6. \A w \in [Slots -> Nat] :
          Books(c, w, now) /\ (\A i \in Slots : q.owed[i] <= w[i])
            => /\ Books(a, [i \in Slots |-> w[i] - back[i]], now)
               /\ Slack(a) = Slack(c) + q.used - SumOver(back, Slots)
    <3> SUFFICES ASSUME NEW w \in [Slots -> Nat], Books(c, w, now), \A i \in Slots : q.owed[i] <= w[i]
                 PROVE  /\ Books(a, [i \in Slots |-> w[i] - back[i]], now)
                        /\ Slack(a) = Slack(c) + q.used - SumOver(back, Slots)
      OBVIOUS
    <3>1. c \in Acct /\ q.owed \in [Slots -> Nat] /\ q.used \in Nat /\ now \in Nat
      BY <1>1, <2>2
    <3> HIDE DEF q
    <3> QED BY <3>1, RefundBooks
  <2> HIDE DEF a, g
  <2>7. /\ r \in OrderRec /\ r.status = "canceled" /\ r.at = g.at
        /\ r.owed = g.owed /\ r.used = g.used /\ r.refunded = g.refunded
    BY <2>1, StatusValues DEF OrderRec
  <2>8. orders'[o] = r
    BY <1>1, <2>3
  <2> HIDE DEF r
  <2>9. Stays(o, Slack(acct), Slack(c))
    BY <1>2, <2>2, <2>7, <2>8 DEF ReclaimsTooLittle, Stays
  <2>10. Shape(r)
    BY <1>3, <2>1, <2>7 DEF Shape
  <2> HIDE DEF back
  <2>11. ASSUME lapses = {}
         PROVE  /\ Books(a, [i \in Slots |-> Owed[i] - back[i]], now)
                /\ Stays(o, Slack(acct) + q.used - SumOver(back, Slots), Slack(a))
    <3>1. Books(a, [i \in Slots |-> Owed[i] - back[i]], now) /\ Slack(a) = Slack(c) + q.used - SumOver(back, Slots)
      BY <1>1, <2>2, <2>6, <2>11 DEF PointInv, LedgerInv
    <3>2. Slack(c) \in Int /\ SumOver(back, Slots) \in Nat
      <4>1. c.balance \in Nat /\ SumOver(Lefts(c), Slots) \in Nat
        BY <1>1, <2>2, LeftsFacts DEF Acct
      <4>2. SumOver(back, Slots) \in Nat
        BY <1>1, GivenBackKept DEF back
      <4> QED BY <4>1, <4>2 DEF Slack
    <3> HIDE DEF q
    <3>3. Stays(o, Slack(acct) + q.used - SumOver(back, Slots), Slack(a))
      BY <1>1, <2>9, <3>1, <3>2 DEF Stays, q
    <3> QED BY <3>1, <3>3
  <2>12. r.used = q.used /\ r.refunded = q.refunded + q.used /\ r.owed = g.owed /\ r.at = 0
    BY <1>3, <2>1, <2>7
  <2> QED BY <1>1, <1>2, <2>3, <2>4, <2>5, <2>7, <2>10, <2>11, <2>12, BackStep DEF back, g
<1> QED BY <1>4, <1>5

LEMMA FinishUnwindStep ==
  ASSUME PointInv, NEW o \in Orders, FinishUnwind(o)
  PROVE  \E r, a : Step(o, r, a)
<1> DEFINE q == orders[o]
           p == PointsBack(q)
           e == EarnedBack(q)
           g == GivenBack(q, p)
           back == GiveBackLifo(q.owed, p)
           total == q.returned + q.asked
           unwound == IF q.status = "paid" THEN [g EXCEPT !.status = "canceled"]
                      ELSE [g EXCEPT !.status = IF total >= Goods THEN "refunded" ELSE @,
                                     !.returned = total, !.asked = 0]
           r == [unwound EXCEPT !.at = 0]
           s == [q EXCEPT !.at = 0]
           c == Refunded(q)
           a == Unwound(q)
<1>1. /\ acct \in Acct /\ q \in OrderRec /\ now \in Nat /\ q.used \in Nat /\ q.refunded \in Nat
      /\ Owed \in [Slots -> Nat] /\ Slack(acct) \in Int /\ Shape(q)
      /\ q.owed \in [Slots -> Nat] /\ SumOver(q.owed, Slots) \in Nat
      /\ \A i \in Slots : q.owed[i] <= Owed[i]
  BY InvFacts DEF OrderRec
<1>2. p \in Nat /\ e \in Nat /\ q.returned \in Nat /\ q.asked \in Nat /\ q.status \in Statuses
  BY <1>1, BackFacts DEF OrderRec
<1>3. q.status # "none"
  BY <1>1 DEF FinishUnwind, Checking, Shape
<1>4. UNCHANGED <<now, listed, notices, drafts, lapses>> /\ UserFreeFor(o)
  BY DEF FinishUnwind
<1>5. CASE GoesThrough(q) /\ acct' = a /\ orders' = [orders EXCEPT ![o] = r]
  <2>1. /\ g \in OrderRec /\ g.refunded = q.refunded + p /\ g.used = q.used /\ g.status = q.status
    BY <1>1, <1>2, GivenBackKept
  <2>2. c = IF p > 0 THEN RefundUsed(acct, q.owed, p, now) ELSE acct
    <3>1. p = 0 <=> ~(p > 0)
      BY <1>2
    <3> QED BY <3>1 DEF Refunded
  <2>3. /\ c \in Acct /\ SameRows(acct, c)
        /\ \A w \in [Slots -> Nat] :
             Books(acct, w, now) /\ (\A i \in Slots : q.owed[i] <= w[i])
               => /\ Books(c, [i \in Slots |-> w[i] - back[i]], now)
                  /\ Slack(c) = Slack(acct) + p - SumOver(back, Slots)
    <3> HIDE DEF p, q, c
    <3> QED BY <1>1, <1>2, <2>2, MaybeRefund
  <2>4. a = IF e > 0 THEN Reclaim(c, e, now) ELSE c
    BY DEF Unwound
  <2>5. e > 0 => CanReclaim(c, e, now)
    BY <1>5 DEF GoesThrough
  <2> HIDE DEF a, c, e
  <2>6. /\ a \in Acct /\ SameRows(c, a) /\ Slack(a) = Slack(c)
        /\ \A w \in [Slots -> Nat] : Books(c, w, now) => Books(a, w, now)
    BY <1>1, <1>2, <2>3, <2>4, <2>5, ReclaimBooks, NoRefill
  <2>7. SameRows(acct, a)
    BY <2>3, <2>6 DEF SameRows
  <2>8. [i \in Slots |-> Owed[i] - back[i]] \in [Slots -> Nat]
    <3>1. back \in [Slots -> Nat] /\ \A i \in Slots : back[i] <= q.owed[i]
      BY <1>1, <1>2, GiveBackFacts
    <3> HIDE DEF back, q
    <3>2. \A i \in Slots : Owed[i] - back[i] \in Nat
      BY <1>1, <3>1
    <3> QED BY <3>2
  <2> HIDE DEF back, g, p
  <2>9. lapses = {} =>
          /\ Books(a, [i \in Slots |-> Owed[i] - back[i]], now)
          /\ Stays(o, Slack(acct) + p - SumOver(back, Slots), Slack(a))
    BY <1>1, <2>3, <2>6, <2>8 DEF PointInv, LedgerInv, Stays
  <2>10. total \in Nat
    BY <1>2
  <2>11. /\ r \in OrderRec /\ r.owed = g.owed /\ r.used = g.used /\ r.refunded = g.refunded
         /\ r.at = 0 /\ r.status # "none" /\ (r.status = "canceled" \/ r.asked = 0)
    <3> HIDE DEF total
    <3>1. CASE q.status = "paid"
      <4>1. unwound = [g EXCEPT !.status = "canceled"]
        BY <3>1
      <4> HIDE DEF unwound
      <4>2. /\ unwound \in OrderRec /\ unwound.owed = g.owed /\ unwound.used = g.used
            /\ unwound.refunded = g.refunded /\ unwound.status = "canceled"
        BY <2>1, <4>1, StatusValues DEF OrderRec
      <4>3. /\ r \in OrderRec /\ r.owed = unwound.owed /\ r.used = unwound.used
            /\ r.refunded = unwound.refunded /\ r.status = unwound.status /\ r.at = 0
        BY <4>2 DEF OrderRec
      <4> HIDE DEF r
      <4> QED BY <4>2, <4>3
    <3>2. CASE q.status # "paid"
      <4> DEFINE st == IF total >= Goods THEN "refunded" ELSE g.status
      <4>1. unwound = [g EXCEPT !.status = st, !.returned = total, !.asked = 0]
        BY <3>2
      <4>2. st \in Statuses /\ st # "none"
        BY <1>2, <1>3, <2>1, StatusValues
      <4> HIDE DEF unwound, st
      <4>3. /\ unwound \in OrderRec /\ unwound.owed = g.owed /\ unwound.used = g.used
            /\ unwound.refunded = g.refunded /\ unwound.status = st /\ unwound.asked = 0
        BY <2>1, <2>10, <4>1, <4>2 DEF OrderRec
      <4>4. /\ r \in OrderRec /\ r.owed = unwound.owed /\ r.used = unwound.used /\ r.asked = unwound.asked
            /\ r.refunded = unwound.refunded /\ r.status = unwound.status /\ r.at = 0
        BY <4>3 DEF OrderRec
      <4> HIDE DEF r
      <4> QED BY <4>2, <4>3, <4>4
    <3> QED BY <3>1, <3>2
  <2>12. orders' = [orders EXCEPT ![o] = r] /\ acct' = a
    BY <1>5
  <2> HIDE DEF r
  <2>13. Shape(r)
    BY <2>11 DEF Shape
  <2>14. r.used = q.used /\ r.refunded = q.refunded + p
    BY <2>1, <2>11
  <2> QED BY <1>2, <1>4, <2>6, <2>7, <2>9, <2>11, <2>12, <2>13, <2>14, BackStep DEF back, g
<1>6. CASE orders' = [orders EXCEPT ![o] = s] /\ UNCHANGED acct
  <2>1. /\ s \in OrderRec /\ s.status = q.status /\ s.asked = q.asked /\ s.at = 0
        /\ s.owed = q.owed /\ s.used = q.used /\ s.refunded = q.refunded
    BY <1>1 DEF OrderRec
  <2> HIDE DEF s
  <2>2. Shape(s)
    BY <1>1, <2>1 DEF Shape
  <2> QED BY <1>4, <1>6, <2>1, <2>2, QuietStep
<1>7. \/ GoesThrough(q) /\ acct' = a /\ orders' = [orders EXCEPT ![o] = r]
      \/ orders' = [orders EXCEPT ![o] = s] /\ UNCHANGED acct
  BY DEF FinishUnwind, SaveOrder
<1> QED BY <1>5, <1>6, <1>7

LEMMA OrderStep ==
  ASSUME PointInv, NEW o \in Orders, OrderNext(o)
  PROVE  PointInv' /\ (lapses' = {} => Stays(o, Net, Net'))
<1>1. \E r, a : Step(o, r, a)
  BY ConfirmStep, EndUnpaidStep, PayStep, EarnTaskStep, WebhookDoneStep, WebhookCanceledStep,
     DepositRevertedStep, DeliverStep, AskReturnStep, CheckStep, FinishUnwindStep DEF OrderNext
<1> QED BY <1>1, StepKeepsInv, StepKeepsNet

-----------------------------------------------------------------------------
(* Steps of the batches and of the unlocked writers. *)

LEMMA LedgerStep ==
  ASSUME PointInv, TypeOK', ListedDue', UNCHANGED <<orders, now>>, SameRows(acct, acct'),
         lapses' = {} => lapses = {} /\ Books(acct', Owed, now) /\ Slack(acct') = Slack(acct),
         UserFree \/ (lapses' = {} => \A i \in Slots : Usable(acct', now)[i] = Usable(acct, now)[i])
  PROVE  PointInv' /\ (lapses' = {} => Net' = Net)
<1>1. orders' = orders /\ now' = now /\ acct \in Acct /\ acct' \in Acct
      /\ listed \in [Batches -> SUBSET Slots]
  BY InvFacts DEF TypeOK, Acct, PointInv
<1>2. LedgerInv'
  <2>1. Owed' = Owed
    BY <1>1 DEF Owed
  <2> QED BY <1>1, <2>1 DEF LedgerInv
<1>3. RowsFilled'
  BY DEF PointInv, RowsFilled, SameRows
<1>4. OrdersShaped'
  BY <1>1 DEF PointInv, OrdersShaped, Shape
<1>5. ChecksCovered'
  <2>1. ASSUME NEW p \in Orders PROVE Covered(orders[p])'
    <3>1. orders'[p] = orders[p] /\ Covered(orders[p]) /\ orders[p] \in OrderRec
      BY <1>1, InvFacts
    <3>2. CASE UserFree
      <4>1. orders[p].at > 0 => ~(EarnedBack(orders[p]) > 0)
        BY <3>1, <3>2 DEF UserFree, HoldsUser, Checking, EarnedBack, OrderRec
      <4> QED BY <3>1, <4>1 DEF Covered, EarnedBack
    <3>3. CASE lapses' = {} => \A i \in Slots : Usable(acct', now)[i] = Usable(acct, now)[i]
      <4>1. lapses' = {} => lapses = {} /\ SumOver(Usable(acct', now), Slots) = SumOver(Usable(acct, now), Slots)
        BY <3>3, SumSame
      <4>2. ExpiresSince(orders[p].at)' <=> ExpiresSince(orders[p].at)
        BY <1>1, <3>1 DEF ExpiresSince, SameRows
      <4>3. EarnedBack(orders[p])' = EarnedBack(orders[p])
        BY <1>1 DEF EarnedBack
      <4> QED BY <1>1, <3>1, <4>1, <4>2, <4>3 DEF Covered
    <3> QED BY <3>2, <3>3
  <2> QED BY <2>1 DEF ChecksCovered
<1>6. Slack(acct') = Slack(acct) => Net' = Net
  BY <1>1 DEF Net, Slack
<1>7. OrdersWithin'
  BY <1>1 DEF PointInv, OrdersWithin, Within
<1> QED BY <1>2, <1>3, <1>4, <1>5, <1>6, <1>7 DEF PointInv

LEMMA TickStep ==
  ASSUME PointInv, Tick
  PROVE  PointInv' /\ (lapses' = {} => Net' = Net)
<1>1. /\ acct' = acct /\ orders' = orders /\ listed' = listed /\ lapses' = lapses
      /\ notices' = notices /\ drafts' = drafts /\ now' = now + 1 /\ now \in Nat
      /\ acct \in Acct /\ orders \in [Orders -> OrderRec] /\ listed \in [Batches -> SUBSET Slots]
  BY InvFacts DEF Tick, PointInv, TypeOK
<1>2. TypeOK'
  BY <1>1 DEF PointInv, TypeOK
<1>3. ASSUME NEW i \in Slots PROVE acct.rows[i].expires \in Nat
  BY <1>1 DEF Acct, Row
<1>4. LedgerInv'
  <2>1. Owed' = Owed
    BY <1>1 DEF Owed
  <2>2. Books(acct, Owed, now) => Books(acct, Owed, now + 1)
    BY <1>1, <1>3 DEF Books
  <2> QED BY <1>1, <2>1, <2>2 DEF PointInv, LedgerInv
<1>5. ListedDue'
  <2>1. ASSUME NEW b \in Batches, NEW i \in listed[b] PROVE i <= acct.made /\ acct.rows[i].expires <= now + 1
    <3>1. i \in Slots /\ i <= acct.made /\ acct.rows[i].expires <= now
      BY <1>1 DEF PointInv, ListedDue
    <3> QED BY <1>1, <1>3, <3>1
  <2> QED BY <1>1, <2>1 DEF ListedDue
<1>6. OrdersShaped'
  <2>1. ASSUME NEW p \in Orders PROVE Shape(orders[p])'
    <3>1. Shape(orders[p]) /\ orders[p].at \in Nat
      BY InvFacts DEF OrderRec
    <3> QED BY <1>1, <3>1 DEF Shape
  <2> QED BY <2>1 DEF OrdersShaped
<1>7. ChecksCovered'
  <2>1. ASSUME NEW p \in Orders, lapses = {}, orders[p].at > 0, ~ExpiresSince(orders[p].at)',
               EarnedBack(orders[p]) > 0
        PROVE  SumOver(Usable(acct, now + 1), Slots) >= EarnedBack(orders[p])
    <3>1. Covered(orders[p]) /\ Shape(orders[p]) /\ orders[p].at \in Nat
      BY InvFacts DEF OrderRec
    <3>2. orders[p].at <= now
      BY <2>1, <3>1 DEF Shape
    <3>3. \A i \in Slots : ~(orders[p].at < acct.rows[i].expires /\ acct.rows[i].expires <= now + 1)
      BY <1>1, <2>1 DEF ExpiresSince
    <3>4. ~ExpiresSince(orders[p].at)
      BY <1>1, <1>3, <3>3 DEF ExpiresSince
    <3>5. \A i \in Slots : acct.rows[i].expires > now + 1 <=> acct.rows[i].expires > now
      BY <1>1, <1>3, <3>1, <3>2, <3>3
    <3>6. Usable(acct, now + 1) = Usable(acct, now)
      BY <3>5 DEF Usable
    <3> QED BY <2>1, <3>1, <3>4, <3>6 DEF Covered
  <2>2. ASSUME NEW p \in Orders PROVE Covered(orders[p])'
    BY <1>1, <2>1 DEF Covered, EarnedBack
  <2> QED BY <2>2 DEF ChecksCovered
<1>8. RowsFilled' /\ OrdersWithin' /\ Net' = Net
  BY <1>1 DEF PointInv, RowsFilled, OrdersWithin, Within, Net
<1> QED BY <1>2, <1>4, <1>5, <1>6, <1>7, <1>8 DEF PointInv

(* A step that only reads, or drops what it has read. *)
LEMMA ReadingStep ==
  ASSUME PointInv, TypeOK', ListedDue', UNCHANGED <<acct, orders, now, lapses>>
  PROVE  PointInv' /\ (lapses' = {} => Net' = Net)
<1>1. acct' = acct /\ UNCHANGED <<orders, now>> /\ lapses' = lapses
  OBVIOUS
<1>2. lapses' = {} => lapses = {} /\ Books(acct', Owed, now) /\ Slack(acct') = Slack(acct)
  BY <1>1 DEF PointInv, LedgerInv
<1> QED BY <1>1, <1>2, NoRefill, LedgerStep

LEMMA BatchStep ==
  ASSUME PointInv, NEW b \in Batches, BatchNext(b)
  PROVE  PointInv' /\ (lapses' = {} => Net' = Net)
<1>1. /\ acct \in Acct /\ now \in Nat /\ Owed \in [Slots -> Nat]
      /\ listed \in [Batches -> SUBSET Slots] /\ acct.made \in 0..MaxRows
  BY InvFacts DEF PointInv, TypeOK, Acct
<1>2. CASE ListExpired(b)
  <2>1. /\ UNCHANGED <<acct, orders, now, notices, drafts, lapses>>
        /\ listed' = [listed EXCEPT ![b] = GetExpired]
    BY <1>2 DEF ListExpired
  <2>2. GetExpired \in SUBSET Slots
    BY DEF GetExpired
  <2>3. TypeOK'
    BY <2>1, <2>2 DEF PointInv, TypeOK
  <2>4. ASSUME NEW i \in GetExpired PROVE i <= acct.made /\ acct.rows[i].expires <= now
    <3>1. i \in Slots /\ acct.rows[i].expires <= now /\ Left(acct.rows[i]) > 0 /\ acct.rows[i] \in Row
      BY <1>1 DEF GetExpired, Acct
    <3>2. acct.rows[i].points # 0
      BY <3>1 DEF Left, Monus, Row
    <3>3. ~(i > acct.made)
      BY <3>1, <3>2 DEF PointInv, RowsFilled
    <3> QED BY <1>1, <3>1, <3>3, SlotsFinite DEF Slots
  <2>5. ListedDue'
    BY <1>1, <2>1, <2>4 DEF PointInv, ListedDue
  <2> QED BY <2>1, <2>3, <2>5, ReadingStep
<1>3. CASE \E i \in Slots : ExpireOneFails(b, i)
  <2>1. PICK i \in Slots : ExpireOneFails(b, i)
    BY <1>3
  <2>2. UNCHANGED <<acct, orders, now, notices, drafts, lapses>> /\ listed' = [listed EXCEPT ![b] = @ \ {i}]
    BY <2>1 DEF ExpireOneFails
  <2>3. TypeOK' /\ ListedDue'
    BY <1>1, <2>2 DEF PointInv, TypeOK, ListedDue
  <2> QED BY <2>2, <2>3, ReadingStep
<1>4. CASE \E i \in Slots : ExpireOne(b, i)
  <2>1. PICK i \in Slots : ExpireOne(b, i)
    BY <1>4
  <2> DEFINE a == ExpireRow(acct, i, now)
  <2>2. /\ UNCHANGED <<orders, now, notices, drafts, lapses>> /\ listed' = [listed EXCEPT ![b] = @ \ {i}]
        /\ UserFree /\ acct' = a /\ i \in listed[b]
    BY <2>1 DEF ExpireOne
  <2>3. /\ a \in Acct /\ SameRows(acct, a)
        /\ \A w \in [Slots -> Nat] :
             Books(acct, w, now) /\ acct.rows[i].expires <= now => Books(a, w, now) /\ Slack(a) = Slack(acct)
    BY <1>1, ExpireBooks
  <2> HIDE DEF a
  <2>4. acct.rows[i].expires <= now
    BY <2>2 DEF PointInv, ListedDue
  <2>5. lapses' = {} => lapses = {} /\ Books(acct', Owed, now) /\ Slack(acct') = Slack(acct)
    BY <1>1, <2>2, <2>3, <2>4 DEF PointInv, LedgerInv
  <2>6. TypeOK'
    BY <1>1, <2>2, <2>3 DEF PointInv, TypeOK, Acct
  <2>7. ListedDue'
    BY <1>1, <2>2, <2>3 DEF PointInv, ListedDue, SameRows
  <2> QED BY <2>2, <2>3, <2>5, <2>6, <2>7, LedgerStep
<1> QED BY <1>2, <1>3, <1>4 DEF BatchNext

(* A write-back of what a row still holds is no lapse and changes no sum. *)
LEMMA NoticeStep ==
  ASSUME PointInv, NEW n \in notices, WriteNotice(n)
  PROVE  PointInv' /\ (lapses' = {} => Net' = Net)
<1> DEFINE k == n.row
           row == [acct.rows[k] EXCEPT !.used = n.used, !.expired = n.expired, !.notified = TRUE]
           a == [acct EXCEPT !.rows[k] = row]
<1>1. /\ acct \in Acct /\ k \in Slots /\ n.used \in Nat /\ n.expired \in BOOLEAN
      /\ acct.rows \in [Slots -> Row] /\ acct.rows[k] \in Row
  BY InvFacts DEF PointInv, TypeOK, Acct
<1>2. /\ UNCHANGED <<orders, now, listed, drafts>> /\ notices' = notices \ {n} /\ acct' = a
      /\ lapses' = IF n.used = acct.rows[k].used /\ n.expired = acct.rows[k].expired
                   THEN lapses ELSE lapses \cup {"notice"}
  BY DEF WriteNotice
<1>3. /\ row \in Row /\ row.points = acct.rows[k].points /\ row.expires = acct.rows[k].expires
      /\ row.used = n.used /\ row.expired = n.expired
  BY <1>1 DEF Row
<1> HIDE DEF row, k
<1>4. a = [acct EXCEPT !.rows = [acct.rows EXCEPT ![k] = row]]
  BY <1>1 DEF Acct
<1>5. [acct.rows EXCEPT ![k] = row] \in [Slots -> Row]
  BY <1>1, <1>3
<1>6. /\ a \in Acct /\ a.balance = acct.balance /\ a.made = acct.made
      /\ a.rows[k] = row /\ \A i \in Slots \ {k} : a.rows[i] = acct.rows[i]
  <2> DEFINE rows == [acct.rows EXCEPT ![k] = row]
  <2>1. rows[k] = row /\ \A i \in Slots \ {k} : rows[i] = acct.rows[i]
    BY <1>1
  <2> HIDE DEF rows, a
  <2>2. a \in Acct /\ a.balance = acct.balance /\ a.made = acct.made /\ a.rows = rows
    BY <1>1, <1>4, <1>5 DEF Acct, rows
  <2> QED BY <2>1, <2>2
<1> HIDE DEF a
<1>7. SameRows(acct, a)
  BY <1>3, <1>6 DEF SameRows
<1>8. TypeOK'
  BY <1>2, <1>6 DEF PointInv, TypeOK, Acct
<1>9. ListedDue'
  BY <1>2, <1>7 DEF PointInv, TypeOK, ListedDue, SameRows
<1>10. ASSUME lapses' = {}
       PROVE  /\ lapses = {} /\ Books(a, Owed, now) /\ Slack(a) = Slack(acct)
              /\ \A i \in Slots : Usable(a, now)[i] = Usable(acct, now)[i]
  <2>1. lapses = {} /\ n.used = acct.rows[k].used /\ n.expired = acct.rows[k].expired
    BY <1>2, <1>10
  <2>2. ASSUME NEW i \in Slots
        PROVE  /\ a.rows[i].used = acct.rows[i].used /\ a.rows[i].expired = acct.rows[i].expired
               /\ a.rows[i].points = acct.rows[i].points /\ a.rows[i].expires = acct.rows[i].expires
    BY <1>3, <1>6, <2>1
  <2>3. \A i \in Slots : Left(a.rows[i]) = Left(acct.rows[i])
    BY <2>2 DEF Left
  <2>4. Lefts(a) = Lefts(acct) /\ \A i \in Slots : Usable(a, now)[i] = Usable(acct, now)[i]
    BY <2>2, <2>3 DEF Lefts, Usable
  <2>5. Slack(a) = Slack(acct)
    BY <1>6, <2>4 DEF Slack
  <2>6. Books(acct, Owed, now)
    BY <2>1 DEF PointInv, LedgerInv
  <2>7. Books(a, Owed, now)
    BY <1>6, <2>2, <2>4, <2>6 DEF Books
  <2> QED BY <2>1, <2>4, <2>5, <2>7
<1> QED BY <1>2, <1>7, <1>8, <1>9, <1>10, LedgerStep

LEMMA ProfileStep ==
  ASSUME PointInv, NEW balance \in drafts, SaveProfile(balance)
  PROVE  PointInv' /\ (lapses' = {} => Net' = Net)
<1> DEFINE a == [acct EXCEPT !.balance = balance]
<1>1. acct \in Acct /\ balance \in Nat
  BY InvFacts DEF PointInv, TypeOK
<1>2. /\ UNCHANGED <<orders, now, listed, notices>> /\ drafts' = {} /\ acct' = a /\ UserFree
      /\ lapses' = IF balance = acct.balance THEN lapses ELSE lapses \cup {"profile"}
  BY DEF SaveProfile
<1>3. a \in Acct /\ a.balance = balance /\ a.made = acct.made /\ a.rows = acct.rows
  BY <1>1 DEF Acct
<1> HIDE DEF a
<1>4. SameRows(acct, a)
  BY <1>3 DEF SameRows
<1>5. TypeOK'
  BY <1>2, <1>3 DEF PointInv, TypeOK, Acct
<1>6. ListedDue'
  BY <1>2, <1>4 DEF PointInv, TypeOK, ListedDue, SameRows
<1>7. lapses' = {} => lapses = {} /\ Books(a, Owed, now) /\ Slack(a) = Slack(acct)
  <2>1. lapses' = {} => lapses = {} /\ a.balance = acct.balance
    BY <1>2, <1>3
  <2>2. Lefts(a) = Lefts(acct)
    BY <1>3 DEF Lefts
  <2> QED BY <1>3, <2>1, <2>2 DEF PointInv, LedgerInv, Books, Slack
<1> QED BY <1>2, <1>4, <1>5, <1>6, <1>7, LedgerStep

LEMMA NextKeeps ==
  ASSUME PointInv, Next
  PROVE  /\ PointInv'
         /\ lapses' = {} => Net' = Net \/ \E o \in Orders : Stays(o, Net, Net')
<1>1. CASE \E o \in Orders : OrderNext(o)
  BY <1>1, OrderStep
<1>2. CASE \E b \in Batches : BatchNext(b)
  BY <1>2, BatchStep
<1>3. CASE Tick
  BY <1>3, TickStep
<1>4. CASE ReadNotices
  <2>1. /\ UNCHANGED <<acct, orders, now, listed, drafts, lapses>>
        /\ notices' = {[row |-> i, used |-> acct.rows[i].used, expired |-> acct.rows[i].expired] : i \in Expiring}
    BY <1>4 DEF ReadNotices
  <2>2. ASSUME NEW i \in Expiring
        PROVE  [row |-> i, used |-> acct.rows[i].used, expired |-> acct.rows[i].expired]
                 \in [row : Slots, used : Nat, expired : BOOLEAN]
    <3>1. i \in Slots /\ acct.rows[i].used \in Nat /\ acct.rows[i].expired \in BOOLEAN
      BY InvFacts DEF Expiring, Acct, Row
    <3> QED BY <3>1
  <2>3. TypeOK'
    BY <2>1, <2>2 DEF PointInv, TypeOK
  <2>4. ListedDue'
    BY <2>1 DEF PointInv, ListedDue
  <2> QED BY <2>1, <2>3, <2>4, ReadingStep
<1>5. CASE \E n \in notices : WriteNotice(n)
  BY <1>5, NoticeStep
<1>6. CASE NoticeMailFails
  <2>1. UNCHANGED <<acct, orders, now, listed, drafts, lapses>> /\ notices' = {}
    BY <1>6 DEF NoticeMailFails
  <2>2. TypeOK' /\ ListedDue'
    BY <2>1 DEF PointInv, TypeOK, ListedDue
  <2> QED BY <2>1, <2>2, ReadingStep
<1>7. CASE ReadProfile
  <2>1. UNCHANGED <<acct, orders, now, listed, notices, lapses>> /\ drafts' = {acct.balance}
    BY <1>7 DEF ReadProfile
  <2>2. acct.balance \in Nat
    BY InvFacts DEF Acct
  <2>3. TypeOK' /\ ListedDue'
    BY <2>1, <2>2 DEF PointInv, TypeOK, ListedDue
  <2> QED BY <2>1, <2>3, ReadingStep
<1>8. CASE \E balance \in drafts : SaveProfile(balance)
  BY <1>8, ProfileStep
<1> QED BY <1>1, <1>2, <1>3, <1>4, <1>5, <1>6, <1>7, <1>8 DEF Next

LEMMA StutterKeeps ==
  ASSUME PointInv, UNCHANGED vars
  PROVE  PointInv' /\ Net' = Net
<1>1. UNCHANGED <<acct, orders, now, lapses>> /\ listed' = listed /\ notices' = notices /\ drafts' = drafts
  BY DEF vars
<1>2. TypeOK' /\ ListedDue'
  BY <1>1 DEF PointInv, TypeOK, ListedDue
<1>3. PointInv'
  BY <1>1, <1>2, ReadingStep
<1> QED BY <1>1, <1>3 DEF Net

LEMMA InitHolds ==
  ASSUME Init
  PROVE  PointInv
<1> DEFINE L == Len(Earlier)
           old == 1..L
           paid == [i \in 1..Len(Earlier) |-> Earlier[i].points]
           row(i) == IF i <= Len(Earlier)
                     THEN [BlankRow EXCEPT !.points = Earlier[i].points, !.expires = Earlier[i].expires]
                     ELSE BlankRow
<1>1. L \in Nat /\ L <= MaxRows /\ MaxRows \in Nat /\ Granted \in Nat /\ IsFiniteSet(Orders)
  BY PointConstants
<1>2. ASSUME NEW i \in 1..L PROVE Earlier[i].points \in Nat /\ Earlier[i].expires \in Nat
  <2>1. Earlier[i] \in [points : Nat \ {0}, expires : Nat]
    <3> DEFINE E == [points : Nat \ {0}, expires : Nat]
    <3>1. Earlier \in Seq(E)
      BY PointConstants
    <3> HIDE DEF E
    <3>2. Earlier[i] \in E
      BY <3>1
    <3> QED BY <3>2 DEF E
  <2> QED BY <2>1
<1>3. ASSUME NEW i \in Slots
      PROVE  /\ row(i) \in Row /\ row(i).used = 0 /\ row(i).expired = FALSE
             /\ i \in old => row(i).points = paid[i]
             /\ i \notin old => row(i).points = 0
  <2>1. CASE i <= L
    <3>1. i \in 1..L
      BY <1>1, <2>1 DEF Slots
    <3>2. Earlier[i].points \in Nat /\ Earlier[i].expires \in Nat
      BY <1>2, <3>1
    <3>3. row(i) = [BlankRow EXCEPT !.points = Earlier[i].points, !.expires = Earlier[i].expires]
      BY <2>1
    <3> QED BY <3>1, <3>2, <3>3 DEF BlankRow, Row
  <2>2. CASE ~(i <= L)
    <3>1. i \notin old /\ row(i) = BlankRow
      BY <1>1, <2>2
    <3>2. BlankRow \in Row /\ BlankRow.points = 0 /\ BlankRow.used = 0 /\ BlankRow.expired = FALSE
      BY DEF BlankRow, Row
    <3> QED BY <3>1, <3>2
  <2> QED BY <2>1, <2>2
<1>4. /\ acct.balance = Granted + SumOver(paid, old) /\ acct.made = L
      /\ acct.rows = [i \in Slots |-> row(i)]
      /\ acct = [balance |-> acct.balance, made |-> acct.made, rows |-> acct.rows]
  BY DEF Init
<1> HIDE DEF row
<1>5. /\ orders = [o \in Orders |-> NewOrder] /\ now = 1 /\ listed = [b \in Batches |-> {}]
      /\ notices = {} /\ drafts = {} /\ lapses = {}
  BY DEF Init
<1>6. old \in SUBSET Slots /\ IsFiniteSet(old) /\ Counts(paid, old) /\ SumOver(paid, old) \in Nat
  <2>1. old \in SUBSET Slots /\ IsFiniteSet(old)
    BY <1>1, FS_Interval DEF Slots
  <2>2. Counts(paid, old)
    BY <1>2 DEF Counts
  <2> QED BY <2>1, <2>2, SumIsNat
<1>7. acct \in Acct
  <2>1. acct.balance \in Nat
    BY <1>1, <1>4, <1>6
  <2>2. acct.made \in 0..MaxRows
    BY <1>1, <1>4
  <2>3. acct.rows \in [Slots -> Row]
    BY <1>3, <1>4
  <2> QED BY <1>4, <2>1, <2>2, <2>3, Zenon DEF Acct
<1>8. NewOrder \in OrderRec /\ NewOrder.owed = NoPoints /\ NewOrder.used = 0 /\ NewOrder.refunded = 0
      /\ NewOrder.asked = 0 /\ NewOrder.at = 0
  BY StatusValues DEF NewOrder, OrderRec, NoPoints
<1>9. TypeOK
  BY <1>5, <1>7, <1>8 DEF TypeOK, Acct
<1>10. SumOver(Lefts(acct), Slots) = SumOver(paid, old)
  <2> DEFINE f == Lefts(acct)
             new == Slots \ old
  <2>1. ASSUME NEW i \in Slots PROVE f[i] = acct.rows[i].points
    <3>1. acct.rows[i] = row(i) /\ row(i).points \in Nat
      BY <1>3, <1>4 DEF Row
    <3>2. acct.rows[i].expired = FALSE /\ acct.rows[i].used = 0 /\ acct.rows[i].points \in Nat
      BY <1>3, <3>1
    <3>3. f[i] = Left(acct.rows[i])
      BY DEF Lefts
    <3>4. Left(acct.rows[i]) = acct.rows[i].points
      BY <3>2 DEF Left, Monus
    <3> QED BY <3>3, <3>4
  <2>2. \A i \in old : f[i] = paid[i]
    BY <1>3, <1>4, <1>6, <2>1
  <2>3. \A i \in new : f[i] = 0
    BY <1>3, <1>4, <2>1
  <2>4. Slots = old \cup new /\ old \cap new = {} /\ IsFiniteSet(new)
    BY <1>6, SlotsFinite, FS_Subset
  <2>5. Counts(f, old) /\ Counts(f, new)
    <3>1. f \in [Slots -> Nat]
      BY <1>5, <1>7, LeftsFacts
    <3> HIDE DEF f
    <3> QED BY <1>6, <3>1 DEF Counts
  <2> HIDE DEF f, new, old, paid
  <2>6. SumOver(f, Slots) = SumOver(f, old) + SumOver(f, new)
    BY <1>6, <2>4, <2>5, SumSplit
  <2>7. SumOver(f, old) = SumOver(paid, old) /\ SumOver(f, new) = 0
    BY <2>2, <2>3, SumSame, SumOfZeros
  <2>8. SumOver(f, Slots) = SumOver(paid, old)
    BY <1>6, <2>6, <2>7
  <2> QED BY <2>8 DEF f
<1>11. ASSUME NEW i \in Slots PROVE Owed[i] = 0
  <2> DEFINE h == [o \in Orders |-> orders[o].owed[i]]
  <2>1. \A o \in Orders : h[o] = 0
    BY <1>5, <1>8 DEF NoPoints
  <2>2. Owed[i] = SumOver(h, Orders)
    BY DEF Owed
  <2> HIDE DEF h
  <2> QED BY <2>1, <2>2, SumOfZeros
<1>12. LedgerInv
  <2>1. acct.balance >= SumOver(Lefts(acct), Slots)
    BY <1>1, <1>4, <1>6, <1>10
  <2>2. ASSUME NEW i \in Slots
        PROVE  /\ Owed[i] <= acct.rows[i].used /\ acct.rows[i].used <= acct.rows[i].points
               /\ ~acct.rows[i].expired
    <3>1. acct.rows[i] = row(i) /\ row(i).points \in Nat /\ row(i).used = 0 /\ row(i).expired = FALSE
      BY <1>3, <1>4 DEF Row
    <3> QED BY <1>11, <3>1
  <2> QED BY <2>1, <2>2 DEF LedgerInv, Books
<1>13. RowsFilled
  <2>1. ASSUME NEW i \in Slots, i > acct.made PROVE acct.rows[i].points = 0
    <3>1. i \notin old /\ acct.rows[i] = row(i)
      BY <1>1, <1>4, <2>1 DEF Slots
    <3> QED BY <1>3, <3>1
  <2> QED BY <2>1 DEF RowsFilled
<1>14. ListedDue
  BY <1>5 DEF ListedDue
<1>15. OrdersShaped /\ ChecksCovered
  BY <1>5, <1>8 DEF OrdersShaped, Shape, ChecksCovered, Covered
<1>16. OrdersWithin
  <2>1. SumOver(NoPoints, Slots) = 0
    BY SumOfZeros DEF NoPoints
  <2> QED BY <1>5, <1>8, <2>1 DEF OrdersWithin, Within
<1> QED BY <1>9, <1>12, <1>13, <1>14, <1>15, <1>16 DEF PointInv

(* The inductive invariant holds in every reachable state. *)
THEOREM PointInvHolds == Spec => []PointInv
<1>1. PointInv /\ [Next]_vars => PointInv'
  BY NextKeeps, StutterKeeps
<1> QED BY <1>1, InitHolds, PTL DEF Spec

-----------------------------------------------------------------------------
(* The results. *)

(* Every value the ledger keeps has its type: no transaction of             *)
(* PointService ever drives the balance or a used amount below zero.        *)
THEOREM LedgerTypes == Spec => []TypeOK
BY PointInvHolds, PTL DEF PointInv

(* However the orders, cancellations, returns, webhooks and overlapping     *)
(* expiry runs interleave, the balance covers what the earn rows promise,   *)
(* unless an unlocked writer has written something stale.                   *)
THEOREM BalanceCoversRows == Spec => []LedgerAgreesUnlessLapsed
<1>1. PointInv => LedgerAgreesUnlessLapsed
  BY DEF PointInv, LedgerInv, Books, LedgerAgreesUnlessLapsed, LedgerAgrees
<1> QED BY <1>1, PointInvHolds, PTL

(* refund_used_points never gives a row back more than was taken from it.   *)
THEOREM RefundsWereUsed == Spec => []OwedWasUsed
<1>1. PointInv => OwedWasUsed
  <2> SUFFICES ASSUME PointInv, lapses = {}, NEW i \in Slots
               PROVE  /\ SumOver([o \in Orders |-> orders[o].owed[i]], Orders) <= acct.rows[i].used
                      /\ acct.rows[i].used <= acct.rows[i].points
    BY DEF OwedWasUsed
  <2>1. Books(acct, Owed, now)
    BY DEF PointInv, LedgerInv
  <2>2. Owed[i] = SumOver([o \in Orders |-> orders[o].owed[i]], Orders)
    BY DEF Owed
  <2> QED BY <2>1, <2>2 DEF Books
<1> QED BY <1>1, PointInvHolds, PTL

(* The points given back before the earned ones are taken make neither the  *)
(* balance nor what the live rows hold any smaller.                         *)
LEMMA RefundLeavesMore ==
  ASSUME PointInv, lapses = {}, NEW o \in Orders
  PROVE  /\ Refunded(orders[o]) \in Acct
         /\ Refunded(orders[o]).balance >= acct.balance
         /\ SumOver(Usable(Refunded(orders[o]), now), Slots) >= SumOver(Usable(acct, now), Slots)
<1> DEFINE q == orders[o]
           p == PointsBack(q)
           c == RefundUsed(acct, q.owed, p, now)
<1>1. /\ acct \in Acct /\ q \in OrderRec /\ now \in Nat /\ Owed \in [Slots -> Nat]
      /\ q.owed \in [Slots -> Nat] /\ \A i \in Slots : q.owed[i] <= Owed[i]
  BY InvFacts
<1>2. p \in Nat /\ Books(acct, Owed, now)
  BY <1>1, BackFacts DEF PointInv, LedgerInv
<1>3. Refunded(q) = IF p = 0 THEN acct ELSE c
  BY DEF Refunded
<1>4. acct.balance >= acct.balance /\ SumOver(Usable(acct, now), Slots) >= SumOver(Usable(acct, now), Slots)
  <2>1. acct.balance \in Nat /\ SumOver(Usable(acct, now), Slots) \in Nat
    BY <1>1, LeftsFacts DEF Acct
  <2> QED BY <2>1
<1> HIDE DEF p, q
<1>5. c \in Acct
  BY <1>1, <1>2, RefundFacts
<1>6. c.balance >= acct.balance /\ SumOver(Usable(c, now), Slots) >= SumOver(Usable(acct, now), Slots)
  BY <1>1, <1>2, RefundBooks
<1> HIDE DEF c
<1>7. /\ Refunded(q) \in Acct /\ Refunded(q).balance >= acct.balance
      /\ SumOver(Usable(Refunded(q), now), Slots) >= SumOver(Usable(acct, now), Slots)
  BY <1>1, <1>3, <1>4, <1>5, <1>6
<1> QED BY <1>7 DEF q

(* Once cancel_payment or complete_refund has checked that the earned       *)
(* points can be taken back, and has told Toss to refund, the reclaim       *)
(* succeeds, unless a row expired in between.                               *)
THEOREM CheckSuffices == Spec => []CheckedUnwindGoesThrough
<1>1. PointInv => CheckedUnwindGoesThrough
  <2> SUFFICES ASSUME PointInv, NEW o \in Orders, lapses = {}, Checking(o), ~ExpiresSince(orders[o].at),
                      EarnedBack(orders[o]) > 0
               PROVE  CanReclaim(Refunded(orders[o]), EarnedBack(orders[o]), now)
    BY DEF CheckedUnwindGoesThrough, GoesThrough
  <2> DEFINE e == EarnedBack(orders[o])
             c == Refunded(orders[o])
             u == SumOver(Usable(acct, now), Slots)
             l == SumOver(Lefts(acct), Slots)
             v == SumOver(Usable(c, now), Slots)
  <2>1. acct \in Acct /\ now \in Nat /\ orders[o] \in OrderRec /\ Covered(orders[o])
    BY InvFacts
  <2>2. u >= e
    BY <2>1 DEF Covered, Checking
  <2>3. acct.balance >= l
    BY DEF PointInv, LedgerInv, Books
  <2>4. l >= u /\ l \in Nat /\ u \in Nat
    <3>1. /\ Lefts(acct) \in [Slots -> Nat] /\ Usable(acct, now) \in [Slots -> Nat]
          /\ \A i \in Slots : Usable(acct, now)[i] <= Lefts(acct)[i]
          /\ l \in Nat /\ u \in Nat
      BY <2>1, LeftsFacts
    <3>2. Counts(Lefts(acct), Slots) /\ Counts(Usable(acct, now), Slots)
      BY <3>1 DEF Counts
    <3>3. u <= l
      BY <3>1, <3>2, SlotsFinite, SumMonotone
    <3> QED BY <3>1, <3>3
  <2>5. c \in Acct /\ c.balance >= acct.balance /\ v >= u
    BY RefundLeavesMore
  <2>6. v \in Nat /\ c.balance \in Nat /\ acct.balance \in Nat /\ e \in Nat
    BY <2>1, <2>5, LeftsFacts, BackFacts DEF Acct
  <2> HIDE DEF c, u, l, v, e
  <2>7. c.balance >= e /\ v >= e
    BY <2>2, <2>3, <2>4, <2>5, <2>6
  <2> QED BY <2>7 DEF CanReclaim, c, e, v
<1> QED BY <1>1, PointInvHolds, PTL

(* Order by order, what it has spent of unbacked points is what it has used *)
(* less what it was given back and what the rows still owe it, or it was    *)
(* given back more than it has used.                                        *)
LEMMA NetOfTwice ==
  ASSUME PointInv
  PROVE  Unbacked = Net + GivenTwice /\ Net \in Int /\ GivenTwice \in Nat
<1> DEFINE Used == [o \in Orders |-> orders[o].used]
           Given == [o \in Orders |-> orders[o].refunded]
           Sums == [o \in Orders |-> SumOver(orders[o].owed, Slots)]
           Open == [o \in Orders |-> SpentUnbacked(orders[o])]
           Twice == [o \in Orders |-> Monus(orders[o].refunded, orders[o].used)]
           Back == [o \in Orders |-> Given[o] + Sums[o]]
           Whole == [o \in Orders |-> Open[o] + Back[o]]
<1>1. IsFiniteSet(Orders) /\ Slack(acct) \in Int
  BY PointConstants, InvFacts
<1>2. ASSUME NEW o \in Orders
      PROVE  /\ Used[o] \in Nat /\ Given[o] \in Nat /\ Sums[o] \in Nat
             /\ Open[o] \in Nat /\ Twice[o] \in Nat /\ Back[o] \in Nat
             /\ Whole[o] = Used[o] + Twice[o]
             /\ Back[o] = Given[o] + Sums[o] /\ Whole[o] = Open[o] + Back[o]
  <2>1. /\ orders[o].used \in Nat /\ orders[o].refunded \in Nat /\ SumOver(orders[o].owed, Slots) \in Nat
        /\ Within(orders[o])
    BY InvFacts DEF OrderRec
  <2>2. /\ SpentUnbacked(orders[o]) \in Nat /\ Monus(orders[o].refunded, orders[o].used) \in Nat
        /\ SpentUnbacked(orders[o]) + (orders[o].refunded + SumOver(orders[o].owed, Slots))
             = orders[o].used + Monus(orders[o].refunded, orders[o].used)
    BY <2>1 DEF SpentUnbacked, Monus, Within
  <2> QED BY <2>1, <2>2
<1>3. /\ Unbacked = Slack(acct) + SumOver(Open, Orders) /\ GivenTwice = SumOver(Twice, Orders)
      /\ Net = Slack(acct) + SumOver(Used, Orders) - SumOver(Given, Orders) - SumOver(Sums, Orders)
  BY DEF Unbacked, GivenTwice, Net, Slack
<1> HIDE DEF Used, Given, Sums, Open, Twice, Back, Whole
<1>4. /\ Counts(Used, Orders) /\ Counts(Given, Orders) /\ Counts(Sums, Orders)
      /\ Counts(Open, Orders) /\ Counts(Twice, Orders) /\ Counts(Back, Orders)
  BY <1>2 DEF Counts
<1>5. SumOver(Back, Orders) = SumOver(Given, Orders) + SumOver(Sums, Orders)
  BY <1>1, <1>2, <1>4, SumPlus
<1>6. SumOver(Whole, Orders) = SumOver(Open, Orders) + SumOver(Back, Orders)
  BY <1>1, <1>2, <1>4, SumPlus
<1>7. SumOver(Whole, Orders) = SumOver(Used, Orders) + SumOver(Twice, Orders)
  BY <1>1, <1>2, <1>4, SumPlus
<1>8. /\ SumOver(Used, Orders) \in Nat /\ SumOver(Given, Orders) \in Nat /\ SumOver(Sums, Orders) \in Nat
      /\ SumOver(Open, Orders) \in Nat /\ SumOver(Twice, Orders) \in Nat
  BY <1>1, <1>4, SumIsNat
<1> QED BY <1>1, <1>3, <1>5, <1>6, <1>7, <1>8

(* Points lose their expiry date in two ways only, and by no more than      *)
(* that: in a refund of an order that was already given back its points, by *)
(* exactly what goes beyond the points used; and in a webhook's reclaim     *)
(* that fails, by less than the order has earned.                           *)
THEOREM ExpiryLossIsBounded == Spec => ExpiryIsLostInTwoWays
<1> DEFINE otherwise == (Unbacked' - Unbacked) - (GivenTwice' - GivenTwice)
<1>1. ASSUME PointInv, Next
      PROVE  lapses' = {} => \/ otherwise = 0
                             \/ \E o \in Orders : /\ ReclaimsTooLittle(o)
                                                 /\ 0 <= otherwise /\ otherwise < orders[o].earned
  <2> USE <1>1
  <2>1. PointInv' /\ (lapses' = {} => Net' = Net \/ \E o \in Orders : Stays(o, Net, Net'))
    BY NextKeeps
  <2>2. Unbacked = Net + GivenTwice /\ Net \in Int /\ GivenTwice \in Nat
    BY NetOfTwice
  <2>3. (PointInv => Unbacked = Net + GivenTwice /\ Net \in Int /\ GivenTwice \in Nat)'
    BY NetOfTwice, PTL
  <2>4. otherwise = Net' - Net /\ Net \in Int /\ Net' \in Int
    BY <2>1, <2>2, <2>3
  <2> HIDE DEF otherwise
  <2>5. ASSUME NEW o \in Orders, Stays(o, Net, Net')
        PROVE  otherwise = 0 \/ (ReclaimsTooLittle(o) /\ 0 <= otherwise /\ otherwise < orders[o].earned)
    <3>1. orders[o].earned \in Nat
      BY InvFacts DEF OrderRec
    <3> QED BY <2>4, <2>5, <3>1 DEF Stays
  <2> QED BY <2>1, <2>4, <2>5
<1>2. PointInv /\ [Next]_vars =>
        [lapses' = {} =>
           LET gained == (Unbacked' - Unbacked) - (GivenTwice' - GivenTwice)
           IN  \/ gained = 0
               \/ \E o \in Orders : /\ ReclaimsTooLittle(o)
                                   /\ 0 <= gained /\ gained < orders[o].earned]_vars
  BY <1>1
<1> QED BY <1>2, PointInvHolds, PTL DEF Spec, ExpiryIsLostInTwoWays

=============================================================================
