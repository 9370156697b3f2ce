--------------------------- MODULE ReturnFlowProofs ---------------------------
(***************************************************************************)
(* Returns, for any number of them, any quantities, prices, points and     *)
(* fees: the shares add up, the payment suffices, Toss and the books agree *)
(* and a refund moves stock and money once.                                *)
(***************************************************************************)
EXTENDS ReturnFlow, SumTheorems

(* What the first m pieces cost less the points used for them: all the cash *)
(* that can have been refunded for them.                                    *)
Due(m) == m * Price - Share(UsedForGoods, m)

SmallFees == \A fee \in Fees : fee < Price

(* What holds of a return whatever the unlocked requests overwrite: its     *)
(* kind and quantity stay, and stock moves only with something booked.      *)
RowKept(r) ==
  /\ row[r].status = "none" => moves[r] = 0 /\ booked[r] = Nothing
  /\ row[r].status # "none" => row[r].quantity > 0
  /\ row[r].fee \in Fees \cup {0}
  /\ SmallFees /\ row[r].kind = "refund" =>
       moves[r] <= 1 /\ (booked[r] = Nothing => moves[r] = 0)
  /\ r \in calling => row[r].status = "received" /\ row[r].kind = "refund" /\ booked[r] = Nothing
  /\ r \in deleting => row[r].status # "none"

AskKept(a) ==
  /\ row[a.id].status = "none" /\ a.quantity > 0
  /\ \A b \in asking : b.id = a.id => b = a

PatchKept(p) ==
  /\ row[p.id].status # "none" /\ p.row.status = "approved"
  /\ p.row.kind = row[p.id].kind /\ p.row.quantity = row[p.id].quantity
  /\ p.row.fee \in Fees \cup {0}

Kept ==
  /\ \A r \in Returns : RowKept(r)
  /\ \A a \in asking : AskKept(a)
  /\ \A p \in patching : PatchKept(p)

(* One return is open at a time and fits into what is left of the order. *)
OneOpen ==
  /\ \A r, s \in OpenReturns : r = s
  /\ AlreadyReturned <= Quantity
  /\ \A r \in OpenReturns : AlreadyReturned + row[r].quantity <= Quantity

(* The books of the completed refunds. *)
BooksAdd ==
  /\ \A r \in Returns : booked[r] # Nothing => r \in Completed
  /\ SumOver(BookedTaken, Returns) = Share(Earned, AlreadyReturned)
  /\ \A r \in Completed : booked[r].cash + booked[r].points = Monus(row[r].quantity * Price, row[r].fee)
  /\ (\A r \in Completed : row[r].fee = 0) =>
       SumOver(BookedPoints, Returns) = Share(UsedForGoods, AlreadyReturned)
  /\ canceled = SumOver(BookedCash, Returns)
  /\ canceled <= Due(AlreadyReturned)

(* What Toss has refunded and the books do not hold is what the retry will  *)
(* compute again.                                                           *)
TossAgrees ==
  \A r \in Returns :
    /\ toss[r] # booked[r].cash =>
         /\ row[r].status = "received" /\ row[r].kind = "refund"
         /\ booked[r] = Nothing /\ toss[r] = Amounts(r).cash
    /\ r \in calling => toss[r] = Amounts(r).cash

Proper == OneOpen /\ BooksAdd /\ TossAgrees

ReturnInv == TypeOK /\ Kept /\ (lapses = {} => Proper)

-----------------------------------------------------------------------------
(* Shares. *)

LEMMA DivFacts ==
  ASSUME NEW x \in Nat, NEW y \in Nat, NEW m \in Nat, NEW Q \in Nat, Q > 0
  PROVE  /\ x \div Q \in Nat
         /\ x \div Q <= (x + y) \div Q
         /\ y <= Q * m => (x + y) \div Q <= x \div Q + m
<1> DEFINE d == x \div Q
           e == (x + y) \div Q
<1>1. d \in Nat /\ e \in Nat
  OBVIOUS
<1>2. Q * d <= x /\ x < Q * (d + 1)
  OBVIOUS
<1>3. Q * e <= x + y /\ x + y < Q * (e + 1)
  OBVIOUS
<1> HIDE DEF d, e
<1>4. ASSUME NEW i \in Int, NEW j \in Int, Q * i < Q * j PROVE i < j
  BY <1>4
<1>5. d <= e
  <2>1. Q * d < Q * (e + 1)
    <3>1. Q * d \in Int /\ Q * (e + 1) \in Int
      BY <1>1
    <3> QED BY <1>2, <1>3, <3>1
  <2>2. d < e + 1
    BY <1>1, <1>4, <2>1
  <2> QED BY <1>1, <2>2
<1>6. ASSUME y <= Q * m PROVE e <= d + m
  <2>1. Q * (d + 1) + Q * m = Q * (d + 1 + m)
    BY <1>1
  <2>2. Q * e < Q * (d + 1 + m)
    <3>1. Q * e \in Int /\ Q * (d + 1) \in Int /\ Q * m \in Int /\ Q * (d + 1 + m) \in Int
      BY <1>1
    <3> QED BY <1>2, <1>3, <1>6, <2>1, <3>1
  <2>3. e < d + 1 + m
    BY <1>1, <1>4, <2>2
  <2> QED BY <1>1, <2>3
<1> QED BY <1>1, <1>5, <1>6 DEF d, e

LEMMA ShareFacts ==
  ASSUME NEW total \in Nat, NEW m \in Nat, NEW n \in Nat
  PROVE  /\ Share(total, m) \in Nat
         /\ Share(total, m) <= Share(total, m + n)
         /\ total <= Quantity * Price => Share(total, m + n) <= Share(total, m) + n * Price
<1> DEFINE x == total * m
           y == total * n
           k == n * Price
<1>1. Quantity \in Nat /\ Quantity > 0 /\ Price \in Nat
  BY ReturnConstants
<1>2. x \in Nat /\ y \in Nat /\ total * (m + n) = x + y /\ k \in Nat
  BY <1>1
<1>3. ASSUME total <= Quantity * Price PROVE y <= Quantity * k
  <2>1. \A a, b, c \in Nat : a <= b => a * c <= b * c
    OBVIOUS
  <2>2. total * n <= (Quantity * Price) * n
    BY <1>1, <1>3, <2>1
  <2>3. (Quantity * Price) * n = Quantity * k
    BY <1>1
  <2> QED BY <2>2, <2>3
<1>4. Share(total, m) = x \div Quantity /\ Share(total, m + n) = (x + y) \div Quantity
  BY <1>2 DEF Share
<1> HIDE DEF x, y, k
<1>5. /\ x \div Quantity \in Nat
      /\ x \div Quantity <= (x + y) \div Quantity
      /\ y <= Quantity * k => (x + y) \div Quantity <= x \div Quantity + k
  BY <1>1, <1>2, DivFacts
<1> QED BY <1>3, <1>4, <1>5 DEF k

LEMMA WholeShare ==
  ASSUME NEW total \in Nat
  PROVE  Share(total, 0) = 0 /\ Share(total, Quantity) = total
<1>1. Quantity \in Nat /\ Quantity > 0
  BY ReturnConstants
<1>2. total * 0 = 0 /\ 0 \div Quantity = 0
  BY <1>1
<1>3. (total * Quantity) \div Quantity = total
  <2> DEFINE e == (total * Quantity) \div Quantity
  <2>1. total * Quantity \in Nat
    BY <1>1
  <2>2. e \in Nat /\ Quantity * e <= total * Quantity /\ total * Quantity < Quantity * (e + 1)
    BY <1>1, <2>1
  <2> HIDE DEF e
  <2>3. Quantity * e <= Quantity * total /\ Quantity * total < Quantity * (e + 1)
    BY <1>1, <2>2
  <2>4. e <= total
    BY <1>1, <2>2, <2>3
  <2>5. total < e + 1
    BY <1>1, <2>2, <2>3
  <2> QED BY <2>2, <2>4, <2>5 DEF e
<1> QED BY <1>2, <1>3 DEF Share

LEMMA GoodsFacts ==
  /\ UsedForGoods \in Nat /\ UsedForGoods <= Quantity * Price
  /\ Quantity * Price - UsedForGoods <= Paid
<1>1. Quantity \in Nat /\ Price \in Nat /\ Used \in Nat /\ Paid \in Nat /\ Paid + Used >= Total
  BY ReturnConstants
<1> DEFINE t == Quantity * Price
<1>2. t \in Nat /\ Total = t
  BY <1>1 DEF Total
<1> HIDE DEF t
<1>3. UsedForGoods \in Nat /\ UsedForGoods <= t /\ t - UsedForGoods <= Paid
  BY <1>1, <1>2 DEF UsedForGoods, Least
<1> QED BY <1>3 DEF t

LEMMA DueFacts ==
  ASSUME NEW m \in Nat, NEW n \in Nat
  PROVE  /\ Due(0) = 0 /\ Due(m) \in Int /\ Due(m + n) \in Int
         /\ Due(m + n) = Due(m) + (n * Price - (Share(UsedForGoods, m + n) - Share(UsedForGoods, m)))
         /\ Due(m) <= Due(m + n)
         /\ m <= Quantity => Due(m) <= Paid
<1> DEFINE U == UsedForGoods
<1>1. Quantity \in Nat /\ Price \in Nat /\ Paid \in Nat /\ U \in Nat
  BY ReturnConstants, GoodsFacts
<1>2. ASSUME NEW k \in Nat, NEW l \in Nat
      PROVE  /\ Share(U, k) \in Nat /\ Share(U, k + l) \in Nat
             /\ Share(U, k + l) <= Share(U, k) + l * Price
             /\ k * Price \in Nat /\ l * Price \in Nat /\ (k + l) * Price = k * Price + l * Price
  <2>1. k + l \in Nat
    OBVIOUS
  <2>2. k * Price \in Nat /\ l * Price \in Nat /\ (k + l) * Price = k * Price + l * Price
    BY <1>1
  <2>3. Share(U, k) \in Nat /\ Share(U, k + l) \in Nat
    BY <1>1, <2>1, ShareFacts
  <2>4. Share(U, k + l) <= Share(U, k) + l * Price
    BY <1>1, ShareFacts, GoodsFacts
  <2> QED BY <2>2, <2>3, <2>4
<1> HIDE DEF U
<1>3. ASSUME NEW k \in Nat, NEW l \in Nat
      PROVE  /\ Due(k) \in Int /\ Due(k + l) \in Int
             /\ Due(k + l) = Due(k) + (l * Price - (Share(U, k + l) - Share(U, k)))
             /\ Due(k) <= Due(k + l)
  <2> DEFINE s == Share(U, k)
             t == Share(U, k + l)
             a == k * Price
             b == l * Price
  <2>1. s \in Nat /\ t \in Nat /\ t <= s + b /\ a \in Nat /\ b \in Nat
    BY <1>2
  <2>2. Due(k) = a - s /\ Due(k + l) = (a + b) - t
    BY <1>2 DEF Due, U
  <2> HIDE DEF s, t, a, b
  <2>3. /\ Due(k) \in Int /\ Due(k + l) \in Int /\ Due(k + l) = Due(k) + (b - (t - s))
        /\ Due(k) <= Due(k + l)
    BY <2>1, <2>2
  <2> QED BY <2>3 DEF s, t, b
<1>4. Due(0) = 0
  BY <1>1, WholeShare DEF Due, U
<1>5. ASSUME m <= Quantity PROVE Due(m) <= Paid
  <2>1. Quantity - m \in Nat /\ m + (Quantity - m) = Quantity
    BY <1>1, <1>5
  <2>2. Due(m) <= Due(Quantity) /\ Due(m) \in Int /\ Due(Quantity) \in Int
    BY <1>3, <2>1
  <2>3. Due(Quantity) = Quantity * Price - U
    BY <1>1, WholeShare DEF Due, U
  <2>4. Due(Quantity) <= Paid
    BY <2>3, GoodsFacts DEF U
  <2> QED BY <1>1, <2>2, <2>4
<1> QED BY <1>3, <1>4, <1>5 DEF U

(* What is already returned is a number, and so is a return's share. *)
LEMMA ReturnedFacts ==
  ASSUME row \in [Returns -> Row]
  PROVE  /\ Counts(Quantities, Returns) /\ Completed \in SUBSET Returns /\ IsFiniteSet(Completed)
         /\ AlreadyReturned \in Nat
<1>1. IsFiniteSet(Returns)
  BY ReturnConstants
<1>2. Counts(Quantities, Returns)
  BY DEF Counts, Quantities, Row
<1>3. Completed \in SUBSET Returns
  BY DEF Completed
<1> QED BY <1>1, <1>2, <1>3, SumOfPart, FS_Subset DEF AlreadyReturned

LEMMA AmountFacts ==
  ASSUME row \in [Returns -> Row], NEW r \in Returns
  PROVE  LET pts == ShareOf(UsedForGoods, r)
             goods == row[r].quantity * Price
             A == Amounts(r)
         IN  /\ A \in [cash : Nat, points : Nat, taken : Nat]
             /\ A.taken = ShareOf(Earned, r)
             /\ A.cash + A.points = Monus(goods, row[r].fee)
             /\ A.cash <= goods - pts
             /\ pts \in Nat /\ goods \in Nat /\ row[r].fee \in Nat
             /\ row[r].fee = 0 => A.points = pts
             /\ row[r].fee < Price /\ row[r].quantity > 0 => A # Nothing
<1> DEFINE pts == ShareOf(UsedForGoods, r)
           goods == row[r].quantity * Price
           fee == row[r].fee
           tk == ShareOf(Earned, r)
           A == Amounts(r)
<1>1. /\ row[r].quantity \in Nat /\ fee \in Nat /\ AlreadyReturned \in Nat
      /\ Price \in Nat /\ Price > 0 /\ Earned \in Nat
  BY ReturnConstants, ReturnedFacts DEF Row
<1>2. goods \in Nat
  BY <1>1
<1>3. pts \in Nat /\ pts <= goods
  <2> DEFINE u == Share(UsedForGoods, AlreadyReturned + row[r].quantity)
             v == Share(UsedForGoods, AlreadyReturned)
  <2>1. v \in Nat /\ v <= u /\ u <= v + goods
    BY <1>1, ShareFacts, GoodsFacts
  <2>2. u \in Nat
    <3>1. AlreadyReturned + row[r].quantity \in Nat
      BY <1>1
    <3> QED BY <1>1, <3>1, ShareFacts, GoodsFacts
  <2>3. pts = u - v
    BY DEF ShareOf
  <2> HIDE DEF u, v, goods, pts
  <2> QED BY <1>2, <2>1, <2>2, <2>3
<1>4. tk \in Nat
  <2> DEFINE u == Share(Earned, AlreadyReturned + row[r].quantity)
             v == Share(Earned, AlreadyReturned)
  <2>1. v \in Nat /\ v <= u
    BY <1>1, ShareFacts
  <2>2. u \in Nat
    <3>1. AlreadyReturned + row[r].quantity \in Nat
      BY <1>1
    <3> QED BY <1>1, <3>1, ShareFacts
  <2>3. tk = u - v
    BY DEF ShareOf
  <2> HIDE DEF u, v, tk
  <2> QED BY <2>1, <2>2, <2>3
<1>5. row[r].quantity > 0 => goods >= Price
  BY <1>1
<1>6. A = [cash |-> Monus(goods, pts + fee),
           points |-> IF goods >= pts + fee THEN pts ELSE Monus(goods, fee), taken |-> tk]
  BY DEF Amounts
<1> DEFINE c == Monus(goods, pts + fee)
           p == IF goods >= pts + fee THEN pts ELSE Monus(goods, fee)
<1> HIDE DEF goods, pts, fee, tk, A
<1>7. /\ c \in Nat /\ p \in Nat /\ c + p = Monus(goods, fee) /\ c <= goods - pts
      /\ fee = 0 => p = pts
      /\ fee < Price /\ goods >= Price => c + p > 0
  BY <1>1, <1>2, <1>3 DEF Monus
<1> HIDE DEF c, p
<1>8. /\ A \in [cash : Nat, points : Nat, taken : Nat] /\ A.cash = c /\ A.points = p /\ A.taken = tk
  BY <1>4, <1>6, <1>7 DEF c, p
<1>9. fee < Price /\ row[r].quantity > 0 => A # Nothing
  <2>1. A = Nothing => c = 0 /\ p = 0
    BY <1>8 DEF Nothing
  <2> QED BY <1>5, <1>7, <2>1
<1> QED BY <1>1, <1>2, <1>3, <1>7, <1>8, <1>9 DEF goods, pts, fee, tk, A

-----------------------------------------------------------------------------
(* Types. *)

LEMMA StatusValues ==
  /\ \A s \in {"none", "requested", "approved", "rejected", "shipping", "received", "completed", "deleted"} :
       s \in Statuses
  /\ NoReturn \in Row
BY DEF Statuses, Open, NoReturn, Row

(* Setting a status or a fee. *)
LEMMA RowSet ==
  ASSUME NEW n \in Row, NEW status \in Statuses, NEW fee \in Nat
  PROVE  /\ [n EXCEPT !.status = status] \in Row /\ [n EXCEPT !.fee = fee] \in Row
         /\ [n EXCEPT !.status = status].status = status
         /\ [n EXCEPT !.status = status].kind = n.kind
         /\ [n EXCEPT !.status = status].quantity = n.quantity
         /\ [n EXCEPT !.status = status].fee = n.fee
         /\ [n EXCEPT !.fee = fee].status = n.status
         /\ [n EXCEPT !.fee = fee].kind = n.kind
         /\ [n EXCEPT !.fee = fee].quantity = n.quantity
         /\ [n EXCEPT !.fee = fee].fee = fee
BY DEF Row

(* Every action that writes one return writes it as one of these. *)
LEMMA RowWritten ==
  ASSUME row \in [Returns -> Row], NEW r \in Returns, NEW n \in Row, row' = [row EXCEPT ![r] = n]
  PROVE  row' \in [Returns -> Row] /\ row'[r] = n /\ \A s \in Returns \ {r} : row'[s] = row[s]
OBVIOUS

LEMMA CustomerTypes ==
  ASSUME TypeOK, NEW r \in Returns, Customer(r)
  PROVE  TypeOK'
<1>1. CASE \E kind \in {"refund", "exchange"}, quantity \in 1..Quantity : Ask(r, kind, quantity)
  <2>1. PICK kind \in {"refund", "exchange"} : \E quantity \in 1..Quantity : Ask(r, kind, quantity)
    BY <1>1
  <2>2. PICK quantity \in 1..Quantity : Ask(r, kind, quantity)
    BY <2>1
  <2>3. quantity \in Nat
    BY ReturnConstants
  <2> QED BY <2>2, <2>3 DEF Ask, TypeOK, db
<1>2. CASE \E a \in asking : a.id = r /\ Create(a)
  <2>1. PICK a \in asking : Create(a)
    BY <1>2
  <2>2. a \in [id : Returns, kind : {"refund", "exchange"}, quantity : Nat]
    BY DEF TypeOK
  <2>3. "requested" \in Statuses
    BY StatusValues
  <2>4. [status |-> "requested", kind |-> a.kind, quantity |-> a.quantity, fee |-> 0] \in Row
    BY <2>2, <2>3 DEF Row
  <2>5. row' \in [Returns -> Row]
    BY <2>1, <2>2, <2>4 DEF Create, TypeOK
  <2> QED BY <2>1, <2>5 DEF Create, TypeOK
<1>3. CASE \E tab \in Tabs : ReadPatch(r, tab)
  BY <1>3 DEF ReadPatch, TypeOK, db
<1>4. CASE \E p \in patching : p.id = r /\ WritePatch(p)
  <2>1. PICK p \in patching : WritePatch(p)
    BY <1>4
  <2>2. p.row \in Row /\ p.id \in Returns /\ "shipping" \in Statuses
    BY StatusValues DEF TypeOK
  <2>3. [p.row EXCEPT !.status = "shipping"] \in Row
    BY <2>2 DEF Row
  <2>4. row' \in [Returns -> Row]
    BY <2>1, <2>2, <2>3 DEF WritePatch, TypeOK
  <2> QED BY <2>1, <2>4 DEF WritePatch, TypeOK
<1>5. CASE ReadDelete(r)
  BY <1>5 DEF ReadDelete, TypeOK, db
<1>6. CASE WriteDelete(r)
  <2>1. row[r] \in Row /\ "deleted" \in Statuses
    BY StatusValues DEF TypeOK
  <2>2. [row[r] EXCEPT !.status = "deleted"] \in Row
    BY <2>1 DEF Row
  <2>3. row' = [row EXCEPT ![r] = [row[r] EXCEPT !.status = "deleted"]]
    BY <1>6 DEF WriteDelete, TypeOK
  <2>4. row' \in [Returns -> Row]
    BY <2>2, <2>3 DEF TypeOK
  <2> QED BY <1>6, <2>4 DEF WriteDelete, TypeOK
<1> QED BY <1>1, <1>2, <1>3, <1>4, <1>5, <1>6 DEF Customer

(* The three steps of the seller that only set a status. *)
LEMMA SellerAdvances ==
  ASSUME NEW r, Approve(r) \/ Reject(r) \/ ConfirmReceive(r)
  PROVE  \E from \in {"requested", "shipping"}, to \in {"approved", "rejected", "received"} :
           Advance(r, from, to)
BY DEF Approve, Reject, ConfirmReceive

LEMMA SellerTypes ==
  ASSUME TypeOK, NEW r \in Returns, Seller(r)
  PROVE  TypeOK'
<1>1. row[r] \in Row /\ row \in [Returns -> Row] /\ 0 \in Nat
  BY DEF TypeOK
<1>2. ASSUME NEW to \in {"approved", "rejected", "received", "completed"}, row' = [row EXCEPT ![r].status = to]
      PROVE  row' \in [Returns -> Row]
  <2>1. to \in Statuses
    BY StatusValues
  <2>2. [row[r] EXCEPT !.status = to] \in Row
    BY <1>1, <2>1, RowSet
  <2>3. row' = [row EXCEPT ![r] = [row[r] EXCEPT !.status = to]]
    BY <1>1, <1>2
  <2> QED BY <1>1, <2>2, <2>3
<1>3. Amounts(r) \in [cash : Nat, points : Nat, taken : Nat] /\ Amounts(r).cash \in Nat
  <2>1. Amounts(r) \in [cash : Nat, points : Nat, taken : Nat]
    BY <1>1, AmountFacts
  <2> QED BY <2>1
<1>4. CASE Approve(r) \/ Reject(r) \/ ConfirmReceive(r)
  <2>1. PICK from \in {"requested", "shipping"} :
          \E to \in {"approved", "rejected", "received"} : Advance(r, from, to)
    BY <1>4, SellerAdvances
  <2>2. PICK to \in {"approved", "rejected", "received"} : Advance(r, from, to)
    BY <2>1
  <2> QED BY <1>2, <2>2 DEF Advance, TypeOK, requests
<1>5. CASE CallToss(r)
  <2>1. RefundUnderKey(r) \in Nat
    BY <1>3 DEF RefundUnderKey, TypeOK
  <2> QED BY <1>5, <2>1 DEF CallToss, TypeOK, db, requests
<1>6. CASE CompleteRefund(r)
  <2>1. row' \in [Returns -> Row]
    BY <1>2, <1>6 DEF CompleteRefund
  <2>2. canceled' \in Nat
    BY <1>3, <1>6 DEF CompleteRefund, TypeOK
  <2>3. booked' \in [Returns -> [cash : Nat, points : Nat, taken : Nat]] /\ moves' \in [Returns -> Nat]
    BY <1>3, <1>6 DEF CompleteRefund, TypeOK
  <2> QED BY <1>6, <2>1, <2>2, <2>3 DEF CompleteRefund, TypeOK, requests
<1>7. CASE RefundRollsBack(r)
  BY <1>7 DEF RefundRollsBack, TypeOK, db, requests
<1>8. CASE CompleteExchange(r)
  <2>1. row' \in [Returns -> Row]
    BY <1>2, <1>8 DEF CompleteExchange
  <2> QED BY <1>8, <2>1 DEF CompleteExchange, TypeOK, requests
<1>9. CASE \E fee \in Fees : SetFee(r, fee)
  <2>1. PICK fee \in Fees : SetFee(r, fee)
    BY <1>9
  <2>2. fee \in Nat
    BY ReturnConstants
  <2>3. [row[r] EXCEPT !.fee = fee] \in Row
    BY <1>1, <2>2 DEF Row
  <2>4. row' = [row EXCEPT ![r] = [row[r] EXCEPT !.fee = fee]]
    BY <1>1, <2>1 DEF SetFee
  <2>5. row' \in [Returns -> Row]
    BY <1>1, <2>3, <2>4
  <2> QED BY <2>1, <2>5 DEF SetFee, TypeOK, requests
<1> QED BY <1>4, <1>5, <1>6, <1>7, <1>8, <1>9 DEF Seller

-----------------------------------------------------------------------------
(* What holds whatever is overwritten. *)

(* One return is written; its kind and quantity are the ones it had. *)
LEMMA KeptWrite ==
  ASSUME TypeOK, Kept, NEW r \in Returns, NEW n \in Row, row' = [row EXCEPT ![r] = n],
         n.status # "none", n.quantity > 0, n.fee \in Fees \cup {0},
         row[r].status = "none" \/ (n.kind = row[r].kind /\ n.quantity = row[r].quantity),
         asking' \subseteq asking, \A a \in asking' : a.id # r,
         patching' \subseteq patching, deleting' \subseteq deleting,
         calling' \subseteq calling, r \notin calling',
         \A s \in Returns \ {r} : moves'[s] = moves[s] /\ booked'[s] = booked[s],
         SmallFees /\ n.kind = "refund" => moves'[r] <= 1 /\ (booked'[r] = Nothing => moves'[r] = 0)
  PROVE  Kept'
<1>1. row'[r] = n /\ \A s \in Returns \ {r} : row'[s] = row[s]
  BY RowWritten DEF TypeOK
<1>2. ASSUME NEW s \in Returns PROVE RowKept(s)'
  <2>1. CASE s = r
    BY <1>1, <2>1 DEF RowKept, SmallFees, Nothing
  <2>2. CASE s # r
    <3>1. RowKept(s)
      BY DEF Kept
    <3> QED BY <1>1, <2>2, <3>1 DEF RowKept, SmallFees, Nothing
  <2> QED BY <2>1, <2>2
<1>3. ASSUME NEW a \in asking' PROVE AskKept(a)'
  <2>1. AskKept(a) /\ a.id \in Returns /\ a.id # r
    BY DEF Kept, TypeOK
  <2> QED BY <1>1, <2>1 DEF AskKept
<1>4. ASSUME NEW p \in patching' PROVE PatchKept(p)'
  <2>1. PatchKept(p) /\ p.id \in Returns
    BY DEF Kept, TypeOK
  <2> QED BY <1>1, <2>1 DEF PatchKept
<1> QED BY <1>2, <1>3, <1>4 DEF Kept

(* No return is written. *)
LEMMA KeptRead ==
  ASSUME TypeOK, Kept, UNCHANGED <<row, booked, moves>>,
         \A a \in asking' : AskKept(a)', \A p \in patching' : PatchKept(p)',
         \A r \in Returns : r \in calling' => row[r].status = "received" /\ row[r].kind = "refund" /\ booked[r] = Nothing,
         \A r \in deleting' : row[r].status # "none"
  PROVE  Kept'
<1>1. row' = row /\ booked' = booked /\ moves' = moves
  OBVIOUS
<1>2. ASSUME NEW s \in Returns PROVE RowKept(s)'
  <2>1. RowKept(s)
    BY DEF Kept
  <2> QED BY <1>1, <2>1 DEF RowKept, SmallFees, Nothing
<1> QED BY <1>2 DEF Kept

LEMMA KeptFacts ==
  ASSUME TypeOK, Kept, NEW r \in Returns
  PROVE  /\ row[r] \in Row /\ RowKept(r)
         /\ row[r].status # "none" => \A a \in asking : a.id # r
         /\ \A a \in asking : AskKept(a)
         /\ \A p \in patching : PatchKept(p)
BY DEF TypeOK, Kept, AskKept

LEMMA CustomerKeeps ==
  ASSUME TypeOK, Kept, NEW r \in Returns, Customer(r)
  PROVE  Kept'
<1>1. /\ row[r] \in Row /\ RowKept(r) /\ row \in [Returns -> Row]
      /\ \A a \in asking : AskKept(a)
      /\ \A p \in patching : PatchKept(p)
  BY KeptFacts DEF TypeOK
<1>2. \A s \in Returns : s \in calling => row[s].status = "received" /\ row[s].kind = "refund" /\ booked[s] = Nothing
  BY DEF Kept, RowKept
<1>3. \A s \in deleting : row[s].status # "none"
  BY DEF Kept, RowKept, TypeOK
<1>4. CASE \E kind \in {"refund", "exchange"}, quantity \in 1..Quantity : Ask(r, kind, quantity)
  <2>1. PICK kind \in {"refund", "exchange"} : \E quantity \in 1..Quantity : Ask(r, kind, quantity)
    BY <1>4
  <2>2. PICK quantity \in 1..Quantity : Ask(r, kind, quantity)
    BY <2>1
  <2> DEFINE n == [id |-> r, kind |-> kind, quantity |-> quantity]
  <2>3. /\ row' = row /\ booked' = booked /\ moves' = moves /\ patching' = patching
        /\ calling' = calling /\ deleting' = deleting /\ asking' = asking \cup {n}
        /\ row[r].status = "none" /\ \A a \in asking : a.id # r
    BY <2>2 DEF Ask, db
  <2>4. n.id = r /\ n.quantity > 0
    BY ReturnConstants
  <2> HIDE DEF n
  <2>5. ASSUME NEW a \in asking' PROVE AskKept(a)'
    BY <1>1, <2>3, <2>4 DEF AskKept
  <2>6. ASSUME NEW p \in patching' PROVE PatchKept(p)'
    BY <1>1, <2>3 DEF PatchKept
  <2> QED BY <1>2, <1>3, <2>3, <2>5, <2>6, KeptRead
<1>5. CASE \E a \in asking : a.id = r /\ Create(a)
  <2>1. PICK a \in asking : a.id = r /\ Create(a)
    BY <1>5
  <2> DEFINE n == [status |-> "requested", kind |-> a.kind, quantity |-> a.quantity, fee |-> 0]
  <2>2. /\ a \in [id : Returns, kind : {"refund", "exchange"}, quantity : Nat] /\ "requested" \in Statuses
    BY StatusValues DEF TypeOK
  <2>3. n \in Row /\ n.status = "requested" /\ n.quantity = a.quantity /\ n.fee = 0
    BY <2>2 DEF Row
  <2>4. /\ row' = [row EXCEPT ![r] = n] /\ booked' = booked /\ moves' = moves /\ patching' = patching
        /\ calling' = calling /\ deleting' = deleting /\ asking' = asking \ {a} /\ calling = {}
    BY <2>1 DEF Create
  <2> HIDE DEF n
  <2>5. AskKept(a) /\ row[r].status = "none" /\ a.quantity > 0
    BY <1>1, <2>1 DEF AskKept
  <2>6. \A b \in asking' : b.id # r
    BY <2>1, <2>4, <2>5 DEF AskKept
  <2>7. moves[r] = 0
    BY <1>1, <2>5 DEF RowKept
  <2>8. moves'[r] <= 1 /\ (booked'[r] = Nothing => moves'[r] = 0)
    BY <2>4, <2>7
  <2>9. n.status # "none" /\ n.quantity > 0 /\ n.fee \in Fees \cup {0}
    BY <2>3, <2>5
  <2> QED BY <2>3, <2>4, <2>5, <2>6, <2>8, <2>9, KeptWrite
<1>6. CASE \E tab \in Tabs : ReadPatch(r, tab)
  <2>1. PICK tab \in Tabs : ReadPatch(r, tab)
    BY <1>6
  <2> DEFINE n == [id |-> r, tab |-> tab, row |-> row[r]]
  <2>2. /\ row' = row /\ booked' = booked /\ moves' = moves /\ patching' = patching \cup {n}
        /\ calling' = calling /\ deleting' = deleting /\ asking' = asking
        /\ row[r].status = "approved"
    BY <2>1 DEF ReadPatch, db
  <2>3. n.id = r /\ n.row = row[r]
    OBVIOUS
  <2> HIDE DEF n
  <2>4. ASSUME NEW a \in asking' PROVE AskKept(a)'
    BY <1>1, <2>2 DEF AskKept
  <2>5. ASSUME NEW p \in patching' PROVE PatchKept(p)'
    BY <1>1, <2>2, <2>3 DEF PatchKept, RowKept
  <2> QED BY <1>2, <1>3, <2>2, <2>4, <2>5, KeptRead
<1>7. CASE \E p \in patching : p.id = r /\ WritePatch(p)
  <2>1. PICK p \in patching : p.id = r /\ WritePatch(p)
    BY <1>7
  <2> DEFINE n == [p.row EXCEPT !.status = "shipping"]
  <2>2. PatchKept(p) /\ p.row \in Row /\ "shipping" \in Statuses /\ 0 \in Nat
    BY <1>1, StatusValues DEF TypeOK
  <2>3. n \in Row /\ n.status = "shipping" /\ n.quantity = p.row.quantity /\ n.fee = p.row.fee /\ n.kind = p.row.kind
    BY <2>2, RowSet
  <2>4. /\ booked' = booked /\ moves' = moves /\ patching' = patching \ {p} /\ r \notin calling
        /\ calling' = calling /\ deleting' = deleting /\ asking' = asking
        /\ row' = IF row[r].status = "deleted" THEN row ELSE [row EXCEPT ![r] = n]
    BY <2>1 DEF WritePatch
  <2> HIDE DEF n
  <2>5. CASE row[r].status = "deleted"
    <3>1. UNCHANGED <<row, booked, moves>>
      BY <2>4, <2>5
    <3>2. ASSUME NEW a \in asking' PROVE AskKept(a)'
      BY <1>1, <2>4, <3>1 DEF AskKept
    <3>3. ASSUME NEW q \in patching' PROVE PatchKept(q)'
      BY <1>1, <2>4, <3>1 DEF PatchKept
    <3> QED BY <1>2, <1>3, <2>4, <3>1, <3>2, <3>3, KeptRead
  <2>6. CASE row[r].status # "deleted"
    <3>1. row' = [row EXCEPT ![r] = n]
      BY <2>4, <2>6
    <3>2. /\ row[r].status # "none" /\ n.kind = row[r].kind /\ n.quantity = row[r].quantity
          /\ n.fee \in Fees \cup {0}
      BY <2>1, <2>2, <2>3 DEF PatchKept
    <3>3. n.quantity > 0 /\ \A a \in asking' : a.id # r
      BY <1>1, <2>4, <3>2, KeptFacts DEF RowKept
    <3>4. SmallFees /\ n.kind = "refund" => moves'[r] <= 1 /\ (booked'[r] = Nothing => moves'[r] = 0)
      BY <1>1, <2>4, <3>2 DEF RowKept
    <3>5. n.status # "none"
      BY <2>3
    <3> QED BY <2>3, <2>4, <3>1, <3>2, <3>3, <3>4, <3>5, KeptWrite
  <2> QED BY <2>5, <2>6
<1>8. CASE ReadDelete(r)
  <2>1. /\ row' = row /\ booked' = booked /\ moves' = moves /\ patching' = patching
        /\ calling' = calling /\ deleting' = deleting \cup {r} /\ asking' = asking
        /\ row[r].status = "requested"
    BY <1>8 DEF ReadDelete, db
  <2>2. ASSUME NEW a \in asking' PROVE AskKept(a)'
    BY <1>1, <2>1 DEF AskKept
  <2>3. ASSUME NEW p \in patching' PROVE PatchKept(p)'
    BY <1>1, <2>1 DEF PatchKept
  <2>4. \A s \in deleting' : row[s].status # "none"
    BY <1>3, <2>1
  <2> QED BY <1>2, <2>1, <2>2, <2>3, <2>4, KeptRead
<1>9. CASE WriteDelete(r)
  <2> DEFINE n == [row[r] EXCEPT !.status = "deleted"]
  <2>1. "deleted" \in Statuses /\ 0 \in Nat
    BY StatusValues
  <2>2. n \in Row /\ n.status = "deleted" /\ n.quantity = row[r].quantity /\ n.fee = row[r].fee /\ n.kind = row[r].kind
    BY <1>1, <2>1, RowSet
  <2>3. /\ row' = [row EXCEPT ![r] = n] /\ booked' = booked /\ moves' = moves /\ patching' = patching
        /\ calling' = calling /\ deleting' = deleting \ {r} /\ asking' = asking
        /\ r \in deleting /\ r \notin calling
    BY <1>1, <1>9 DEF WriteDelete
  <2> HIDE DEF n
  <2>4. row[r].status # "none"
    BY <1>3, <2>3
  <2>5. /\ n.quantity > 0 /\ n.fee \in Fees \cup {0} /\ n.status # "none"
        /\ \A a \in asking' : a.id # r
    BY <1>1, <2>2, <2>3, <2>4, KeptFacts DEF RowKept
  <2>6. SmallFees /\ n.kind = "refund" => moves'[r] <= 1 /\ (booked'[r] = Nothing => moves'[r] = 0)
    BY <1>1, <2>2, <2>3 DEF RowKept
  <2> QED BY <2>2, <2>3, <2>5, <2>6, KeptWrite
<1> QED BY <1>4, <1>5, <1>6, <1>7, <1>8, <1>9 DEF Customer

LEMMA SellerKeeps ==
  ASSUME TypeOK, Kept, NEW r \in Returns, Seller(r)
  PROVE  Kept'
<1>1. /\ row[r] \in Row /\ RowKept(r) /\ row \in [Returns -> Row]
      /\ \A a \in asking : AskKept(a)
      /\ \A p \in patching : PatchKept(p)
  BY KeptFacts DEF TypeOK
<1>2. \A s \in Returns : s \in calling => row[s].status = "received" /\ row[s].kind = "refund" /\ booked[s] = Nothing
  BY DEF Kept, RowKept
<1>3. \A s \in deleting : row[s].status # "none"
  BY DEF Kept, RowKept, TypeOK
<1>4. ASSUME NEW to \in {"approved", "rejected", "received", "completed"}, row' = [row EXCEPT ![r].status = to]
      PROVE  LET n == [row[r] EXCEPT !.status = to]
             IN  /\ row' = [row EXCEPT ![r] = n] /\ n \in Row /\ n.status = to
                 /\ n.kind = row[r].kind /\ n.quantity = row[r].quantity /\ n.fee = row[r].fee
  <2>1. to \in Statuses /\ 0 \in Nat
    BY StatusValues
  <2>2. row' = [row EXCEPT ![r] = [row[r] EXCEPT !.status = to]]
    BY <1>1, <1>4
  <2> QED BY <1>1, <2>1, <2>2, RowSet
<1>5. ASSUME NEW to \in {"approved", "rejected", "received", "completed"}, row' = [row EXCEPT ![r].status = to],
             row[r].status # "none", UNCHANGED requests, calling' \subseteq calling, r \notin calling',
             \A s \in Returns \ {r} : moves'[s] = moves[s] /\ booked'[s] = booked[s],
             SmallFees /\ row[r].kind = "refund" => moves'[r] <= 1 /\ (booked'[r] = Nothing => moves'[r] = 0)
      PROVE  Kept'
  <2> DEFINE n == [row[r] EXCEPT !.status = to]
  <2>1. /\ row' = [row EXCEPT ![r] = n] /\ n \in Row /\ n.status = to
        /\ n.kind = row[r].kind /\ n.quantity = row[r].quantity /\ n.fee = row[r].fee
    BY <1>4, <1>5
  <2> HIDE DEF n
  <2>2. /\ n.quantity > 0 /\ n.fee \in Fees \cup {0} /\ n.status # "none"
        /\ \A a \in asking : a.id # r
    BY <1>1, <1>5, <2>1, KeptFacts DEF RowKept
  <2>3. asking' = asking /\ patching' = patching /\ deleting' = deleting
    BY <1>5 DEF requests
  <2> QED BY <1>5, <2>1, <2>2, <2>3, KeptWrite
<1>6. CASE Approve(r) \/ Reject(r) \/ ConfirmReceive(r)
  <2>1. PICK from \in {"requested", "shipping"} :
          \E to \in {"approved", "rejected", "received"} : Advance(r, from, to)
    BY <1>6, SellerAdvances
  <2>2. PICK to \in {"approved", "rejected", "received"} : Advance(r, from, to)
    BY <2>1
  <2>3. /\ row' = [row EXCEPT ![r].status = to] /\ row[r].status \in {"requested", "shipping"}
        /\ UNCHANGED requests /\ moves' = moves /\ booked' = booked /\ calling' = calling
    BY <2>1, <2>2 DEF Advance
  <2>4. r \notin calling'
    BY <1>2, <2>3
  <2>5. SmallFees /\ row[r].kind = "refund" => moves'[r] <= 1 /\ (booked'[r] = Nothing => moves'[r] = 0)
    BY <1>1, <2>3 DEF RowKept
  <2> QED BY <1>5, <2>3, <2>4, <2>5
<1>7. CASE CompleteExchange(r)
  <2>1. /\ row' = [row EXCEPT ![r].status = "completed"] /\ row[r].status = "received"
        /\ row[r].kind = "exchange"
        /\ UNCHANGED requests /\ booked' = booked /\ calling' = calling
        /\ moves' = [moves EXCEPT ![r] = @ + 1]
    BY <1>7 DEF CompleteExchange
  <2>2. r \notin calling'
    BY <1>2, <2>1
  <2>3. \A s \in Returns \ {r} : moves'[s] = moves[s]
    BY <2>1 DEF TypeOK
  <2> QED BY <1>5, <2>1, <2>2, <2>3
<1>8. CASE CompleteRefund(r)
  <2>1. /\ row' = [row EXCEPT ![r].status = "completed"] /\ r \in calling /\ UNCHANGED requests
        /\ booked' = [booked EXCEPT ![r] = Amounts(r)] /\ calling' = {}
        /\ moves' = [moves EXCEPT ![r] = @ + 1]
    BY <1>8 DEF CompleteRefund
  <2>2. row[r].status = "received" /\ row[r].kind = "refund" /\ booked[r] = Nothing
    BY <1>2, <2>1
  <2>3. /\ \A s \in Returns \ {r} : moves'[s] = moves[s] /\ booked'[s] = booked[s]
        /\ moves'[r] = moves[r] + 1 /\ booked'[r] = Amounts(r)
    BY <2>1 DEF TypeOK
  <2>4. ASSUME SmallFees PROVE moves'[r] <= 1 /\ booked'[r] # Nothing
    <3>1. moves[r] = 0 /\ row[r].quantity > 0 /\ row[r].fee \in Fees \cup {0}
      BY <1>1, <2>2, <2>4 DEF RowKept
    <3>2. row[r].fee < Price
      <4>1. 0 < Price
        BY ReturnConstants
      <4> QED BY <2>4, <3>1, <4>1, Zenon DEF SmallFees
    <3>3. Amounts(r) # Nothing
      BY <1>1, <3>1, <3>2, AmountFacts
    <3> QED BY <2>3, <3>1, <3>3
  <2>5. row[r].status # "none" /\ calling' \subseteq calling /\ r \notin calling'
    BY <2>1, <2>2
  <2> QED BY <1>5, <2>1, <2>3, <2>4, <2>5
<1>9. CASE CallToss(r)
  <2>1. /\ row' = row /\ booked' = booked /\ moves' = moves /\ patching' = patching /\ calling' = {r}
        /\ deleting' = deleting /\ asking' = asking
        /\ row[r].status = "received" /\ row[r].kind = "refund" /\ booked[r] = Nothing
    BY <1>9 DEF CallToss, AlreadyMoved, db, requests
  <2>2. ASSUME NEW a \in asking' PROVE AskKept(a)'
    BY <1>1, <2>1 DEF AskKept
  <2>3. ASSUME NEW p \in patching' PROVE PatchKept(p)'
    BY <1>1, <2>1 DEF PatchKept
  <2> QED BY <1>3, <2>1, <2>2, <2>3, KeptRead
<1>10. CASE RefundRollsBack(r)
  <2>1. /\ row' = row /\ booked' = booked /\ moves' = moves /\ patching' = patching /\ calling' = {}
        /\ deleting' = deleting /\ asking' = asking
    BY <1>10 DEF RefundRollsBack, db, requests
  <2>2. ASSUME NEW a \in asking' PROVE AskKept(a)'
    BY <1>1, <2>1 DEF AskKept
  <2>3. ASSUME NEW p \in patching' PROVE PatchKept(p)'
    BY <1>1, <2>1 DEF PatchKept
  <2> QED BY <1>3, <2>1, <2>2, <2>3, KeptRead
<1>11. CASE \E fee \in Fees : SetFee(r, fee)
  <2>1. PICK fee \in Fees : SetFee(r, fee)
    BY <1>11
  <2> DEFINE n == [row[r] EXCEPT !.fee = fee]
  <2>2. fee \in Nat
    BY ReturnConstants
  <2>3. n \in Row /\ n.status = row[r].status /\ n.quantity = row[r].quantity /\ n.fee = fee /\ n.kind = row[r].kind
    BY <1>1, <2>2 DEF Row
  <2>4. /\ row' = [row EXCEPT ![r] = n] /\ booked' = booked /\ moves' = moves /\ UNCHANGED requests
        /\ calling' = calling /\ row[r].status \in Open /\ r \notin calling
    BY <1>1, <2>1 DEF SetFee
  <2> HIDE DEF n
  <2>5. row[r].status # "none"
    BY <2>4 DEF Open
  <2>6. /\ n.quantity > 0 /\ n.fee \in Fees \cup {0} /\ n.status # "none"
        /\ \A a \in asking : a.id # r
    BY <1>1, <2>3, <2>5, KeptFacts DEF RowKept
  <2>7. SmallFees /\ n.kind = "refund" => moves'[r] <= 1 /\ (booked'[r] = Nothing => moves'[r] = 0)
    BY <1>1, <2>3, <2>4 DEF RowKept
  <2>8. asking' = asking /\ patching' = patching /\ deleting' = deleting
    BY <2>4 DEF requests
  <2> QED BY <2>3, <2>4, <2>6, <2>7, <2>8, KeptWrite
<1> QED BY <1>6, <1>7, <1>8, <1>9, <1>10, <1>11 DEF Seller

-----------------------------------------------------------------------------
(* Without a lapse. *)

LEMMA SameReturned ==
  ASSUME Completed' = Completed, \A s \in Completed : row'[s] = row[s]
  PROVE  /\ AlreadyReturned' = AlreadyReturned
         /\ \A s \in Returns : row'[s] = row[s] => Amounts(s)' = Amounts(s)
<1>1. \A s \in Completed : Quantities'[s] = Quantities[s]
  BY DEF Quantities, Completed
<1>2. SumOver(Quantities', Completed) = SumOver(Quantities, Completed)
  BY <1>1, SumSame
<1>3. AlreadyReturned' = AlreadyReturned
  BY <1>2 DEF AlreadyReturned
<1> QED BY <1>3 DEF Amounts, ShareOf

LEMMA SameBooks ==
  ASSUME BooksAdd, Completed' = Completed, \A s \in Completed : row'[s] = row[s],
         UNCHANGED <<booked, canceled>>
  PROVE  BooksAdd'
<1>1. AlreadyReturned' = AlreadyReturned /\ booked' = booked /\ canceled' = canceled
  BY SameReturned
<1>2. BookedTaken' = BookedTaken /\ BookedPoints' = BookedPoints /\ BookedCash' = BookedCash
  BY <1>1 DEF BookedTaken, BookedPoints, BookedCash
<1>3. Due(AlreadyReturned)' = Due(AlreadyReturned)
  BY <1>1 DEF Due
<1> QED BY <1>1, <1>2, <1>3 DEF BooksAdd, Nothing, Share, UsedForGoods

(* A return that is no completed refund before or after is written. *)
LEMMA ProperWrite ==
  ASSUME TypeOK, Proper, NEW r \in Returns, NEW n \in Row, row' = [row EXCEPT ![r] = n],
         row[r].status # "completed", ~(n.status = "completed" /\ n.kind = "refund"),
         UNCHANGED <<booked, canceled, toss, calling>>, r \notin calling, toss[r] = booked[r].cash,
         n.status \in Open => \/ row[r].status \in Open /\ n.quantity = row[r].quantity
                              \/ Valid(n.quantity)
  PROVE  Proper'
<1>1. row'[r] = n /\ (\A s \in Returns \ {r} : row'[s] = row[s]) /\ row' \in [Returns -> Row]
  BY RowWritten DEF TypeOK
<1>2. Completed' = Completed /\ r \notin Completed
  BY <1>1 DEF Completed
<1>3. \A s \in Completed : row'[s] = row[s]
  BY <1>1, <1>2 DEF Completed
<1>4. /\ AlreadyReturned' = AlreadyReturned
      /\ \A s \in Returns : row'[s] = row[s] => Amounts(s)' = Amounts(s)
  BY <1>2, <1>3, SameReturned
<1>5. BooksAdd'
  BY <1>2, <1>3, SameBooks DEF Proper
<1>6. TossAgrees'
  <2>1. ASSUME NEW s \in Returns
        PROVE  /\ toss'[s] # booked'[s].cash =>
                    /\ row'[s].status = "received" /\ row'[s].kind = "refund"
                    /\ booked'[s] = Nothing /\ toss'[s] = Amounts(s)'.cash
               /\ s \in calling' => toss'[s] = Amounts(s)'.cash
    <3>1. toss'[s] = toss[s] /\ booked'[s] = booked[s] /\ calling' = calling
      OBVIOUS
    <3>2. CASE s = r
      BY <3>1, <3>2
    <3>3. CASE s # r
      <4>1. row'[s] = row[s] /\ Amounts(s)' = Amounts(s)
        BY <1>1, <1>4, <3>3
      <4>2. /\ toss[s] # booked[s].cash =>
                 /\ row[s].status = "received" /\ row[s].kind = "refund"
                 /\ booked[s] = Nothing /\ toss[s] = Amounts(s).cash
            /\ s \in calling => toss[s] = Amounts(s).cash
        BY DEF Proper, TossAgrees
      <4> QED BY <3>1, <4>1, <4>2
    <3> QED BY <3>2, <3>3
  <2> QED BY <2>1 DEF TossAgrees, Nothing
<1>7. OneOpen'
  <2>1. /\ \A s, t \in OpenReturns : s = t
        /\ AlreadyReturned <= Quantity
        /\ \A s \in OpenReturns : AlreadyReturned + row[s].quantity <= Quantity
    BY DEF Proper, OneOpen
  <2>2. CASE n.status \notin Open
    <3>1. \A s \in OpenReturns' : s \in OpenReturns /\ row'[s] = row[s]
      BY <1>1, <2>2 DEF OpenReturns
    <3> QED BY <1>4, <2>1, <3>1 DEF OneOpen
  <2>3. CASE row[r].status \in Open /\ n.quantity = row[r].quantity
    <3>1. \A s \in OpenReturns' : s \in OpenReturns /\ row'[s].quantity = row[s].quantity
      BY <1>1, <2>3 DEF OpenReturns
    <3> QED BY <1>4, <2>1, <3>1 DEF OneOpen
  <2>4. CASE Valid(n.quantity)
    <3>1. \A s \in OpenReturns' : s = r
      BY <1>1, <2>4 DEF OpenReturns, Valid
    <3>2. AlreadyReturned + n.quantity <= Quantity
      BY <2>4 DEF Valid
    <3> QED BY <1>1, <1>4, <2>1, <3>1, <3>2 DEF OneOpen
  <2> QED BY <2>2, <2>3, <2>4
<1> QED BY <1>5, <1>6, <1>7 DEF Proper

(* No return is written and nothing is booked. *)
LEMMA ProperRead ==
  ASSUME Proper, UNCHANGED <<row, booked, canceled>>,
         \A s \in Returns :
           /\ toss'[s] # booked[s].cash =>
                /\ row[s].status = "received" /\ row[s].kind = "refund"
                /\ booked[s] = Nothing /\ toss'[s] = Amounts(s).cash
           /\ s \in calling' => toss'[s] = Amounts(s).cash
  PROVE  Proper'
<1>1. Completed' = Completed /\ (\A s \in Completed : row'[s] = row[s]) /\ row' = row /\ booked' = booked
      /\ OpenReturns' = OpenReturns
  BY DEF Completed, OpenReturns
<1>2. AlreadyReturned' = AlreadyReturned /\ \A s \in Returns : Amounts(s)' = Amounts(s)
  BY <1>1, SameReturned
<1>3. BooksAdd'
  BY <1>1, SameBooks DEF Proper
<1>4. TossAgrees'
  BY <1>1, <1>2 DEF TossAgrees, Nothing
<1>5. OneOpen'
  BY <1>1, <1>2 DEF Proper, OneOpen
<1> QED BY <1>3, <1>4, <1>5 DEF Proper

LEMMA TossSettled ==
  ASSUME Proper, NEW r \in Returns, row[r].status # "received" \/ row[r].kind # "refund"
  PROVE  toss[r] = booked[r].cash
BY DEF Proper, TossAgrees

LEMMA ProperIdle ==
  ASSUME Proper, UNCHANGED <<row, booked, canceled, toss>>, calling' \subseteq calling
  PROVE  Proper'
<1>1. \A s \in Returns :
        /\ toss'[s] # booked[s].cash =>
             /\ row[s].status = "received" /\ row[s].kind = "refund"
             /\ booked[s] = Nothing /\ toss'[s] = Amounts(s).cash
        /\ s \in calling' => toss'[s] = Amounts(s).cash
  BY DEF Proper, TossAgrees
<1> QED BY <1>1, ProperRead

LEMMA CustomerProper ==
  ASSUME ReturnInv, NEW r \in Returns, Customer(r), lapses' = {}
  PROVE  Proper'
<1>1. /\ TypeOK /\ Kept /\ row[r] \in Row /\ RowKept(r) /\ row \in [Returns -> Row]
      /\ \A a \in asking : AskKept(a)
      /\ \A p \in patching : PatchKept(p)
  BY KeptFacts DEF ReturnInv, TypeOK
<1>2. lapses = {} => Proper
  BY DEF ReturnInv
<1>3. CASE \E kind \in {"refund", "exchange"}, quantity \in 1..Quantity : Ask(r, kind, quantity)
  <2>1. UNCHANGED <<row, booked, canceled, toss>> /\ calling' \subseteq calling /\ lapses = {}
    BY <1>3 DEF Ask, db
  <2> QED BY <1>2, <2>1, ProperIdle
<1>4. CASE \E a \in asking : a.id = r /\ Create(a)
  <2>1. PICK a \in asking : a.id = r /\ Create(a)
    BY <1>4
  <2> DEFINE n == [status |-> "requested", kind |-> a.kind, quantity |-> a.quantity, fee |-> 0]
  <2>2. /\ a \in [id : Returns, kind : {"refund", "exchange"}, quantity : Nat] /\ "requested" \in Statuses
    BY StatusValues DEF ReturnInv, TypeOK
  <2>3. n \in Row /\ n.status = "requested" /\ n.quantity = a.quantity
    BY <2>2 DEF Row
  <2>4. /\ row' = [row EXCEPT ![r] = n] /\ UNCHANGED <<booked, canceled, toss, calling>> /\ calling = {}
    BY <2>1 DEF Create
  <2> HIDE DEF n
  <2>5. lapses = {} /\ Valid(a.quantity)
    BY <2>1 DEF Create
  <2>6. row[r].status = "none"
    BY <1>1, <2>1 DEF AskKept
  <2>7. Proper /\ toss[r] = booked[r].cash
    BY <1>2, <2>5, <2>6, TossSettled
  <2> QED BY <1>1, <2>3, <2>4, <2>5, <2>6, <2>7, ProperWrite
<1>5. CASE \E tab \in Tabs : ReadPatch(r, tab)
  <2>1. UNCHANGED <<row, booked, canceled, toss>> /\ calling' \subseteq calling /\ lapses = {}
    BY <1>5 DEF ReadPatch, db
  <2> QED BY <1>2, <2>1, ProperIdle
<1>6. CASE \E p \in patching : p.id = r /\ WritePatch(p)
  <2>1. PICK p \in patching : p.id = r /\ WritePatch(p)
    BY <1>6
  <2> DEFINE n == [p.row EXCEPT !.status = "shipping"]
  <2>2. PatchKept(p) /\ p.row \in Row /\ "shipping" \in Statuses /\ 0 \in Nat
    BY <1>1, StatusValues DEF ReturnInv, TypeOK
  <2>3. n \in Row /\ n.status = "shipping" /\ n.quantity = p.row.quantity
    BY <2>2, RowSet
  <2>4. lapses = {} /\ row[r] = p.row
    BY <2>1 DEF WritePatch
  <2>5. row[r].status = "approved"
    BY <2>2, <2>4 DEF PatchKept
  <2>6. row' = [row EXCEPT ![r] = n] /\ UNCHANGED <<booked, canceled, toss, calling>> /\ r \notin calling
    BY <2>1, <2>5 DEF WritePatch
  <2> HIDE DEF n
  <2>7. Proper /\ toss[r] = booked[r].cash
    BY <1>2, <2>4, <2>5, TossSettled
  <2>8. row[r].status \in Open /\ n.quantity = row[r].quantity
    BY <2>3, <2>4, <2>5 DEF Open
  <2> QED BY <1>1, <2>3, <2>5, <2>6, <2>7, <2>8, ProperWrite
<1>7. CASE ReadDelete(r)
  <2>1. UNCHANGED <<row, booked, canceled, toss>> /\ calling' \subseteq calling /\ lapses = {}
    BY <1>7 DEF ReadDelete, db
  <2> QED BY <1>2, <2>1, ProperIdle
<1>8. CASE WriteDelete(r)
  <2> DEFINE n == [row[r] EXCEPT !.status = "deleted"]
  <2>1. "deleted" \in Statuses /\ 0 \in Nat
    BY StatusValues
  <2>2. n \in Row /\ n.status = "deleted"
    BY <1>1, <2>1, RowSet
  <2>3. lapses = {} /\ row[r].status = "requested"
    BY <1>8 DEF WriteDelete
  <2>4. row' = [row EXCEPT ![r] = n] /\ UNCHANGED <<booked, canceled, toss, calling>> /\ r \notin calling
    BY <1>1, <1>8 DEF WriteDelete
  <2> HIDE DEF n
  <2>5. Proper /\ toss[r] = booked[r].cash
    BY <1>2, <2>3, TossSettled
  <2>6. n.status \notin Open
    BY <2>2 DEF Open
  <2> QED BY <1>1, <2>2, <2>3, <2>4, <2>5, <2>6, ProperWrite
<1> QED BY <1>3, <1>4, <1>5, <1>6, <1>7, <1>8 DEF Customer

(* The booking of a refund adds its share to every sum. *)
LEMMA RefundProper ==
  ASSUME ReturnInv, Proper, NEW r \in Returns, CompleteRefund(r)
  PROVE  Proper'
<1> DEFINE A == Amounts(r)
           K == AlreadyReturned
           q == row[r].quantity
           n == [row[r] EXCEPT !.status = "completed"]
<1>1. /\ TypeOK /\ Kept /\ row[r] \in Row /\ row \in [Returns -> Row] /\ K \in Nat /\ q \in Nat
      /\ booked \in [Returns -> [cash : Nat, points : Nat, taken : Nat]] /\ canceled \in Nat
      /\ IsFiniteSet(Returns) /\ Earned \in Nat
  BY ReturnedFacts, ReturnConstants DEF ReturnInv, TypeOK, Row
<1>2. r \in calling => row[r].status = "received" /\ row[r].kind = "refund" /\ booked[r] = Nothing
  BY <1>1 DEF Kept, RowKept
<1>3. /\ r \in calling /\ canceled' = canceled + A.cash /\ booked' = [booked EXCEPT ![r] = A]
      /\ row' = [row EXCEPT ![r] = n] /\ calling' = {} /\ toss' = toss
      /\ row[r].status = "received" /\ row[r].kind = "refund" /\ booked[r] = Nothing
  BY <1>1, <1>2 DEF CompleteRefund
<1>4. "completed" \in Statuses /\ 0 \in Nat
  BY StatusValues
<1>5. n \in Row /\ n.status = "completed" /\ n.kind = "refund" /\ n.quantity = q /\ n.fee = row[r].fee
  BY <1>1, <1>3, <1>4, RowSet
<1> HIDE DEF n
<1>6. row'[r] = n /\ (\A s \in Returns \ {r} : row'[s] = row[s]) /\ row' \in [Returns -> Row]
  BY <1>1, <1>3, <1>5, RowWritten
<1>7. /\ A \in [cash : Nat, points : Nat, taken : Nat]
      /\ A.taken = ShareOf(Earned, r)
      /\ A.cash + A.points = Monus(q * Price, row[r].fee)
      /\ A.cash <= q * Price - ShareOf(UsedForGoods, r)
      /\ ShareOf(UsedForGoods, r) \in Nat /\ q * Price \in Nat
      /\ row[r].fee = 0 => A.points = ShareOf(UsedForGoods, r)
  BY <1>1, AmountFacts
<1>8. toss[r] = A.cash
  BY <1>3 DEF Proper, TossAgrees
<1> HIDE DEF A
<1>9. booked'[r] = A /\ \A s \in Returns \ {r} : booked'[s] = booked[s]
  BY <1>1, <1>3
<1>10. Completed' = Completed \cup {r} /\ r \notin Completed
  BY <1>3, <1>5, <1>6 DEF Completed
<1>11. OpenReturns = {r} /\ OpenReturns' = {}
  <2>1. r \in OpenReturns
    BY <1>3 DEF OpenReturns, Open
  <2>2. \A s \in OpenReturns : s = r
    BY <2>1 DEF Proper, OneOpen
  <2>3. \A s \in OpenReturns' : s \in OpenReturns /\ s # r
    BY <1>5, <1>6 DEF OpenReturns, Open
  <2> QED BY <2>1, <2>2, <2>3
<1>12. AlreadyReturned' = K + q
  <2>1. \A s \in Completed \cup {r} : Quantities'[s] = Quantities[s]
    BY <1>5, <1>6 DEF Quantities, Completed
  <2>2. SumOver(Quantities', Completed \cup {r}) = SumOver(Quantities, Completed \cup {r})
    BY <2>1, SumSame
  <2>3. Counts(Quantities, Completed) /\ IsFiniteSet(Completed) /\ Quantities[r] = q
    BY <1>1, ReturnedFacts DEF Counts, Quantities
  <2>4. SumOver(Quantities, Completed \cup {r}) = SumOver(Quantities, Completed) + Quantities[r]
    BY <1>1, <1>10, <2>3, SumAdd
  <2> QED BY <1>10, <2>2, <2>3, <2>4 DEF AlreadyReturned
<1>13. K + q <= Quantity
  BY <1>11 DEF Proper, OneOpen
<1>14. ASSUME NEW total \in Nat
       PROVE  /\ Share(total, K) \in Nat /\ Share(total, K + q) \in Nat
              /\ Share(total, K + q) = Share(total, K) + ShareOf(total, r)
  <2>1. K + q \in Nat
    BY <1>1
  <2>2. Share(total, K) \in Nat /\ Share(total, K + q) \in Nat
    BY <1>1, <2>1, ShareFacts
  <2>3. ShareOf(total, r) = Share(total, K + q) - Share(total, K)
    BY DEF ShareOf
  <2> QED BY <2>2, <2>3
<1> HIDE DEF K, q
<1>15. /\ SumOver(BookedTaken', Returns) = SumOver(BookedTaken, Returns) + A.taken
       /\ SumOver(BookedPoints', Returns) = SumOver(BookedPoints, Returns) + A.points
       /\ SumOver(BookedCash', Returns) = SumOver(BookedCash, Returns) + A.cash
       /\ SumOver(BookedTaken, Returns) \in Nat /\ SumOver(BookedPoints, Returns) \in Nat
       /\ SumOver(BookedCash, Returns) \in Nat
  <2>1. ASSUME NEW f, NEW g, Counts(f, Returns), f[r] = 0, g[r] \in Nat, \A s \in Returns \ {r} : g[s] = f[s]
        PROVE  SumOver(g, Returns) = SumOver(f, Returns) + g[r] /\ SumOver(f, Returns) \in Nat
    <3>1. SumOver(g, Returns) = SumOver(f, Returns) - f[r] + g[r] /\ SumOver(f, Returns) \in Nat
      BY <1>1, <2>1, SumUpdate, SumIsNat
    <3> QED BY <2>1, <3>1
  <2>2. Counts(BookedTaken, Returns) /\ Counts(BookedPoints, Returns) /\ Counts(BookedCash, Returns)
    BY <1>1 DEF Counts, BookedTaken, BookedPoints, BookedCash
  <2>3. BookedTaken[r] = 0 /\ BookedPoints[r] = 0 /\ BookedCash[r] = 0
    BY <1>3 DEF BookedTaken, BookedPoints, BookedCash, Nothing
  <2>4. /\ BookedTaken'[r] = A.taken /\ BookedPoints'[r] = A.points /\ BookedCash'[r] = A.cash
        /\ \A s \in Returns \ {r} : /\ BookedTaken'[s] = BookedTaken[s]
                                    /\ BookedPoints'[s] = BookedPoints[s]
                                    /\ BookedCash'[s] = BookedCash[s]
    BY <1>9 DEF BookedTaken, BookedPoints, BookedCash
  <2>5. A.taken \in Nat /\ A.points \in Nat /\ A.cash \in Nat
    BY <1>7
  <2>6. SumOver(BookedTaken', Returns) = SumOver(BookedTaken, Returns) + A.taken
        /\ SumOver(BookedTaken, Returns) \in Nat
    BY <2>1, <2>2, <2>3, <2>4, <2>5
  <2>7. SumOver(BookedPoints', Returns) = SumOver(BookedPoints, Returns) + A.points
        /\ SumOver(BookedPoints, Returns) \in Nat
    BY <2>1, <2>2, <2>3, <2>4, <2>5
  <2>8. SumOver(BookedCash', Returns) = SumOver(BookedCash, Returns) + A.cash
        /\ SumOver(BookedCash, Returns) \in Nat
    BY <2>1, <2>2, <2>3, <2>4, <2>5
  <2> QED BY <2>6, <2>7, <2>8
<1>16. BooksAdd'
  <2>1. ASSUME NEW s \in Returns, booked'[s] # Nothing PROVE s \in Completed'
    BY <1>9, <1>10, <2>1 DEF Proper, BooksAdd
  <2>2. SumOver(BookedTaken', Returns) = Share(Earned, K + q)
    BY <1>1, <1>7, <1>14, <1>15 DEF Proper, BooksAdd, K
  <2>3. ASSUME NEW s \in Completed'
        PROVE  booked'[s].cash + booked'[s].points = Monus(row'[s].quantity * Price, row'[s].fee)
    <3>1. CASE s = r
      BY <1>5, <1>6, <1>7, <1>9, <3>1
    <3>2. CASE s # r
      <4>1. s \in Completed /\ row'[s] = row[s] /\ booked'[s] = booked[s]
        BY <1>6, <1>9, <1>10, <2>3, <3>2 DEF Completed
      <4> QED BY <4>1 DEF Proper, BooksAdd
    <3> QED BY <3>1, <3>2
  <2>4. ASSUME \A s \in Completed' : row'[s].fee = 0
        PROVE  SumOver(BookedPoints', Returns) = Share(UsedForGoods, K + q)
    <3>1. row[r].fee = 0
      BY <1>5, <1>6, <1>10, <2>4
    <3>2. \A s \in Completed : row[s].fee = 0
      BY <1>6, <1>10, <2>4 DEF Completed
    <3>3. SumOver(BookedPoints, Returns) = Share(UsedForGoods, K)
      BY <3>2 DEF Proper, BooksAdd, K
    <3>4. UsedForGoods \in Nat
      BY GoodsFacts
    <3> QED BY <1>7, <1>14, <1>15, <3>1, <3>3, <3>4
  <2>5. canceled' = SumOver(BookedCash', Returns)
    BY <1>3, <1>15 DEF Proper, BooksAdd
  <2>6. canceled' <= Due(K + q)
    <3>1. /\ Due(K) \in Int /\ Due(K + q) \in Int
          /\ Due(K + q) = Due(K) + (q * Price - (Share(UsedForGoods, K + q) - Share(UsedForGoods, K)))
      BY <1>1, DueFacts
    <3>2. Share(UsedForGoods, K + q) - Share(UsedForGoods, K) = ShareOf(UsedForGoods, r)
      BY DEF ShareOf, K, q
    <3>3. canceled <= Due(K)
      BY DEF Proper, BooksAdd, K
    <3>4. A.cash \in Nat
      BY <1>7
    <3> DEFINE z == ShareOf(UsedForGoods, r)
               g == q * Price
               d == Due(K)
               e == Due(K + q)
    <3>5. e = d + (g - z)
      BY <3>1, <3>2
    <3>6. d \in Int /\ e \in Int /\ z \in Nat /\ g \in Nat /\ A.cash <= g - z /\ canceled <= d
      BY <1>7, <3>1, <3>3
    <3> HIDE DEF z, g, d, e
    <3>7. canceled + A.cash <= e
      BY <1>1, <3>4, <3>5, <3>6
    <3> QED BY <1>3, <3>7 DEF e
  <2>7. Due(AlreadyReturned)' = Due(K + q)
    BY <1>12 DEF Due
  <2> QED BY <1>12, <2>1, <2>2, <2>3, <2>4, <2>5, <2>6, <2>7 DEF BooksAdd, Nothing, Share, UsedForGoods
<1>17. TossAgrees'
  <2>1. ASSUME NEW s \in Returns PROVE toss'[s] = booked'[s].cash
    <3>1. CASE s = r
      BY <1>3, <1>8, <1>9, <3>1
    <3>2. CASE s # r
      <4>1. row[s].status # "received"
        BY <1>11, <3>2 DEF OpenReturns, Open
      <4>2. toss[s] = booked[s].cash
        BY <4>1, TossSettled
      <4> QED BY <1>3, <1>9, <3>2, <4>2
    <3> QED BY <3>1, <3>2
  <2> QED BY <1>3, <2>1 DEF TossAgrees
<1>18. OneOpen'
  BY <1>11, <1>12, <1>13 DEF OneOpen
<1> QED BY <1>16, <1>17, <1>18 DEF Proper

LEMMA SellerProper ==
  ASSUME ReturnInv, NEW r \in Returns, Seller(r), lapses' = {}
  PROVE  Proper'
<1>1. /\ TypeOK /\ Kept /\ row[r] \in Row /\ row \in [Returns -> Row] /\ toss \in [Returns -> Nat]
      /\ booked \in [Returns -> [cash : Nat, points : Nat, taken : Nat]]
  BY DEF ReturnInv, TypeOK
<1>2. lapses = {} => Proper
  BY DEF ReturnInv
<1>3. r \in calling => row[r].status = "received" /\ row[r].kind = "refund"
  BY <1>1 DEF Kept, RowKept
<1>4. ASSUME NEW to \in {"approved", "rejected", "received", "completed"}, row' = [row EXCEPT ![r].status = to],
             row[r].status \in Open, Proper, UNCHANGED <<booked, canceled, toss, calling>>,
             row[r].status # "received" \/ row[r].kind # "refund", to = "completed" => row[r].kind # "refund"
      PROVE  Proper'
  <2> DEFINE n == [row[r] EXCEPT !.status = to]
  <2>1. to \in Statuses /\ 0 \in Nat
    BY StatusValues
  <2>2. row' = [row EXCEPT ![r] = n] /\ n \in Row /\ n.status = to /\ n.kind = row[r].kind
        /\ n.quantity = row[r].quantity
    BY <1>1, <1>4, <2>1, RowSet
  <2> HIDE DEF n
  <2>3. toss[r] = booked[r].cash /\ r \notin calling
    BY <1>3, <1>4, TossSettled
  <2>4. row[r].status # "completed" /\ ~(n.status = "completed" /\ n.kind = "refund")
    BY <1>4, <2>2 DEF Open
  <2> QED BY <1>1, <1>4, <2>2, <2>3, <2>4, ProperWrite
<1>5. CASE Approve(r) \/ Reject(r) \/ ConfirmReceive(r)
  <2>1. PICK from \in {"requested", "shipping"} :
          \E to \in {"approved", "rejected", "received"} : Advance(r, from, to)
    BY <1>5, SellerAdvances
  <2>2. PICK to \in {"approved", "rejected", "received"} : Advance(r, from, to)
    BY <2>1
  <2>3. /\ row' = [row EXCEPT ![r].status = to] /\ row[r].status \in {"requested", "shipping"}
        /\ UNCHANGED <<booked, canceled, toss, calling>> /\ lapses = {}
    BY <2>1, <2>2 DEF Advance
  <2>4. row[r].status \in Open /\ row[r].status # "received" /\ to # "completed"
    BY <2>3 DEF Open
  <2> QED BY <1>2, <1>4, <2>3, <2>4
<1>6. CASE CompleteExchange(r)
  <2>1. /\ row' = [row EXCEPT ![r].status = "completed"] /\ row[r].status = "received"
        /\ row[r].kind = "exchange" /\ UNCHANGED <<booked, canceled, toss, calling>> /\ lapses = {}
    BY <1>6 DEF CompleteExchange
  <2>2. row[r].status \in Open /\ row[r].kind # "refund"
    BY <2>1 DEF Open
  <2> QED BY <1>2, <1>4, <2>1, <2>2
<1>7. CASE CompleteRefund(r)
  <2>1. lapses = {}
    BY <1>7 DEF CompleteRefund
  <2> QED BY <1>2, <1>7, <2>1, RefundProper
<1>8. CASE CallToss(r)
  <2>1. /\ row[r].status = "received" /\ row[r].kind = "refund" /\ booked[r] = Nothing
        /\ UNCHANGED <<row, booked, canceled>> /\ calling' = {r} /\ lapses = {}
        /\ toss' = IF Amounts(r).cash > 0 THEN [toss EXCEPT ![r] = RefundUnderKey(r)] ELSE toss
    BY <1>8 DEF CallToss, AlreadyMoved, db
  <2>2. Proper /\ booked[r].cash = 0
    BY <1>2, <2>1 DEF Nothing
  <2>3. toss[r] # 0 => toss[r] = Amounts(r).cash
    BY <2>2 DEF Proper, TossAgrees
  <2>4. Amounts(r).cash \in Nat
    <3>1. Amounts(r) \in [cash : Nat, points : Nat, taken : Nat]
      BY <1>1, AmountFacts
    <3> QED BY <3>1
  <2>5. toss'[r] = Amounts(r).cash
    <3>1. toss[r] \in Nat
      BY <1>1
    <3>2. CASE Amounts(r).cash > 0
      <4>1. RefundUnderKey(r) = Amounts(r).cash
        BY <2>3, <2>4, <3>1 DEF RefundUnderKey
      <4> QED BY <1>1, <2>1, <3>2, <4>1
    <3>3. CASE ~(Amounts(r).cash > 0)
      BY <2>1, <2>3, <2>4, <3>1, <3>3
    <3> QED BY <3>2, <3>3
  <2>6. \A s \in Returns \ {r} : toss'[s] = toss[s]
    BY <1>1, <2>1
  <2>7. ASSUME NEW s \in Returns
        PROVE  /\ toss'[s] # booked[s].cash =>
                    /\ row[s].status = "received" /\ row[s].kind = "refund"
                    /\ booked[s] = Nothing /\ toss'[s] = Amounts(s).cash
               /\ s \in calling' => toss'[s] = Amounts(s).cash
    <3>1. CASE s = r
      BY <2>1, <2>5, <3>1
    <3>2. CASE s # r
      BY <2>1, <2>2, <2>6, <3>2 DEF Proper, TossAgrees
    <3> QED BY <3>1, <3>2
  <2> QED BY <2>1, <2>2, <2>7, ProperRead
<1>9. CASE RefundRollsBack(r)
  <2>1. UNCHANGED <<row, booked, canceled, toss>> /\ calling' \subseteq calling /\ lapses = {}
    BY <1>9 DEF RefundRollsBack, db
  <2> QED BY <1>2, <2>1, ProperIdle
<1>10. CASE \E fee \in Fees : SetFee(r, fee)
  <2>1. PICK fee \in Fees : SetFee(r, fee)
    BY <1>10
  <2> DEFINE n == [row[r] EXCEPT !.fee = fee]
  <2>2. fee \in Nat
    BY ReturnConstants
  <2>3. n \in Row /\ n.status = row[r].status /\ n.quantity = row[r].quantity /\ n.kind = row[r].kind
    BY <1>1, <2>2 DEF Row
  <2>4. /\ row' = [row EXCEPT ![r] = n] /\ UNCHANGED <<booked, canceled, toss, calling>>
        /\ row[r].status \in Open /\ r \notin calling
    BY <1>1, <2>1 DEF SetFee
  <2>5. lapses = {} /\ ~(toss[r] > 0)
    BY <2>1 DEF SetFee
  <2> HIDE DEF n
  <2>6. Proper /\ row[r].status # "completed" /\ r \notin Completed
    BY <1>2, <2>4, <2>5 DEF Open, Completed
  <2>7. toss[r] = booked[r].cash
    <3>1. booked[r] = Nothing /\ toss[r] = 0
      BY <1>1, <2>5, <2>6 DEF Proper, BooksAdd
    <3> QED BY <3>1 DEF Nothing
  <2> QED BY <1>1, <2>3, <2>4, <2>6, <2>7, ProperWrite
<1> QED BY <1>5, <1>6, <1>7, <1>8, <1>9, <1>10 DEF Seller

LEMMA InitHolds ==
  ASSUME Init
  PROVE  ReturnInv
<1>1. TypeOK
  BY StatusValues DEF Init, TypeOK, Nothing
<1>2. Kept
  BY DEF Init, Kept, RowKept, NoReturn
<1>3. OpenReturns = {} /\ Completed = {}
  BY DEF Init, OpenReturns, Completed, NoReturn, Open
<1>4. AlreadyReturned = 0
  BY <1>3, SumOfNone DEF AlreadyReturned
<1>5. Earned \in Nat /\ UsedForGoods \in Nat /\ Quantity \in Nat /\ 0 \in Nat
  BY ReturnConstants, GoodsFacts
<1>6. OneOpen
  BY <1>3, <1>4, <1>5 DEF OneOpen
<1>7. BooksAdd
  <2>1. /\ \A r \in Returns : BookedTaken[r] = 0
        /\ \A r \in Returns : BookedPoints[r] = 0
        /\ \A r \in Returns : BookedCash[r] = 0
    BY DEF Init, BookedTaken, BookedPoints, BookedCash, Nothing
  <2>2. SumOver(BookedTaken, Returns) = 0 /\ SumOver(BookedPoints, Returns) = 0
        /\ SumOver(BookedCash, Returns) = 0
    BY <2>1, SumOfZeros
  <2>3. Share(Earned, 0) = 0 /\ Share(UsedForGoods, 0) = 0
    BY <1>5, WholeShare
  <2>4. Due(0) = 0
    BY <1>5, DueFacts
  <2>5. canceled = 0 /\ \A r \in Returns : booked[r] = Nothing
    BY DEF Init
  <2> QED BY <1>3, <1>4, <2>2, <2>3, <2>4, <2>5 DEF BooksAdd
<1>8. TossAgrees
  BY DEF Init, TossAgrees, Nothing
<1> QED BY <1>1, <1>2, <1>6, <1>7, <1>8 DEF ReturnInv, Proper

(* The inductive invariant holds in every reachable state. *)
THEOREM ReturnInvHolds == Spec => []ReturnInv
<1>1. ASSUME ReturnInv, Next PROVE ReturnInv'
  <2>1. PICK r \in Returns : Customer(r) \/ Seller(r)
    BY <1>1 DEF Next
  <2>2. TypeOK' /\ Kept'
    BY <1>1, <2>1, CustomerTypes, SellerTypes, CustomerKeeps, SellerKeeps DEF ReturnInv
  <2>3. lapses' = {} => Proper'
    BY <1>1, <2>1, CustomerProper, SellerProper
  <2> QED BY <2>2, <2>3 DEF ReturnInv
<1>2. ASSUME ReturnInv, UNCHANGED vars PROVE ReturnInv'
  <2>1. /\ UNCHANGED <<row, booked, canceled, toss>> /\ calling' = calling /\ lapses' = lapses /\ moves' = moves
        /\ order' = order /\ asking' = asking /\ patching' = patching /\ deleting' = deleting
    BY <1>2 DEF vars
  <2>2. TypeOK'
    BY <1>2, <2>1 DEF ReturnInv, TypeOK
  <2>3. Kept'
    BY <1>2, <2>1 DEF ReturnInv, Kept, RowKept, AskKept, PatchKept, SmallFees, Nothing
  <2>4. lapses' = {} => Proper'
    BY <1>2, <2>1, ProperIdle DEF ReturnInv
  <2> QED BY <2>2, <2>3, <2>4 DEF ReturnInv
<1>3. ReturnInv /\ [Next]_vars => ReturnInv'
  BY <1>1, <1>2
<1> QED BY <1>3, InitHolds, PTL DEF Spec

-----------------------------------------------------------------------------
(* The results. *)

(* Every amount of a refund is a number: complete_refund never computes a   *)
(* negative refund, whatever the fee.                                       *)
THEOREM ReturnTypes == Spec => []TypeOK
BY ReturnInvHolds, PTL DEF ReturnInv

(* No more comes back than was ordered and one return is open at a time,    *)
(* unless an unlocked request wrote over a newer state.                     *)
THEOREM ReturnsFit == Spec => []ReturnsWithinOrder
<1>1. ReturnInv => ReturnsWithinOrder
  BY DEF ReturnInv, Proper, OneOpen, ReturnsWithinOrder, ReturnedAtMostOrdered
<1> QED BY <1>1, ReturnInvHolds, PTL

(* However an order is split into returns, the shares complete_refund       *)
(* computes add up to the share of everything returned: rounding loses and  *)
(* makes nothing.                                                           *)
THEOREM SharesSum == Spec => []SharesAddUp
<1>1. ReturnInv => SharesAddUp
  BY DEF ReturnInv, Proper, BooksAdd, SharesAddUp
<1> QED BY <1>1, ReturnInvHolds, PTL

(* Toss and the books agree, or the refund is still to be completed.        *)
THEOREM TossAndBooks == Spec => []TossMatchesBooks
<1>1. ReturnInv => TossMatchesBooks
  BY DEF ReturnInv, Proper, BooksAdd, TossAgrees, TossMatchesBooks
<1> QED BY <1>1, ReturnInvHolds, PTL

(* What is left of the payment always covers the next return: the guard of  *)
(* complete_refund on the cancelable amount never blocks a proper return.   *)
THEOREM PaymentSuffices == Spec => []CashSuffices
<1>1. ReturnInv => CashSuffices
  <2> SUFFICES ASSUME ReturnInv, lapses = {}, NEW r \in Returns, row[r].status = "received"
               PROVE  canceled + Amounts(r).cash <= Paid
    BY DEF CashSuffices
  <2> DEFINE K == AlreadyReturned
             q == row[r].quantity
             c == Amounts(r).cash
             z == ShareOf(UsedForGoods, r)
             g == q * Price
             d == Due(K)
             e == Due(K + q)
  <2>1. /\ row \in [Returns -> Row] /\ K \in Nat /\ q \in Nat /\ canceled \in Nat /\ Paid \in Nat
    BY ReturnedFacts, ReturnConstants DEF ReturnInv, TypeOK, Row
  <2>2. r \in OpenReturns
    BY DEF OpenReturns, Open
  <2>3. K + q <= Quantity /\ canceled <= d
    BY <2>2 DEF ReturnInv, Proper, OneOpen, BooksAdd
  <2>4. c <= g - z /\ z \in Nat /\ g \in Nat
    BY <2>1, AmountFacts
  <2>5. c \in Nat
    <3>1. Amounts(r) \in [cash : Nat, points : Nat, taken : Nat]
      BY <2>1, AmountFacts
    <3> QED BY <3>1
  <2>6. d \in Int /\ e \in Int /\ e = d + (g - (Share(UsedForGoods, K + q) - Share(UsedForGoods, K)))
    BY <2>1, DueFacts
  <2>7. z = Share(UsedForGoods, K + q) - Share(UsedForGoods, K)
    BY DEF ShareOf
  <2>8. e <= Paid
    <3>1. K + q \in Nat
      BY <2>1
    <3> HIDE DEF K, q
    <3> QED BY <2>3, <3>1, DueFacts
  <2>9. e = d + (g - z)
    BY <2>6, <2>7
  <2> HIDE DEF c, z, g, d, e
  <2>10. canceled + c <= Paid
    BY <2>1, <2>3, <2>4, <2>5, <2>6, <2>8, <2>9
  <2> QED BY <2>10 DEF c
<1> QED BY <1>1, ReturnInvHolds, PTL

(* A refund moves stock once, even when a stale PATCH set its status back   *)
(* and the seller completed it again.                                       *)
THEOREM StockMovesOnce == Spec => []RefundMovesOnce
<1>1. ReturnInv => RefundMovesOnce
  BY DEF ReturnInv, Kept, RowKept, SmallFees, RefundMovesOnce
<1> QED BY <1>1, ReturnInvHolds, PTL

=============================================================================
