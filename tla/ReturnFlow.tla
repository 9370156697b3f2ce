----------------------------- MODULE ReturnFlow -----------------------------
(***************************************************************************)
(* Returns of one delivered order: the customer asks, ships and withdraws, *)
(* the seller approves, rejects, receives and completes.  A refund is paid *)
(* at Toss first, under an idempotency key of the return, and written to   *)
(* the database afterwards in the same transaction.                        *)
(*                                                                         *)
(* The seller's operations lock the return and read it again; the          *)
(* customer's read without a lock, check, and write later: a request that  *)
(* has passed its check waits in asking, patching or deleting.             *)
(*                                                                         *)
(*   row[r]     the Return: status, kind (type), quantity, the return      *)
(*              shipping fee an administrator may set                      *)
(*   order      Order.status                                               *)
(*   canceled   Payment.canceled_amount                                    *)
(*   booked[r]  cash (PaymentLog) and points and taken (PointHistory)      *)
(*              written under the return's id                              *)
(*   moves[r]   history: how often the return has moved stock              *)
(*   toss[r]    what Toss has refunded under the return's key              *)
(*   calling    the refund that has been paid and is not yet written: it   *)
(*              holds the locks of return, payment, order and customer     *)
(*   lapses     history: which unlocked request has written over something *)
(*              newer, and whether a fee changed after the refund          *)
(*                                                                         *)
(* The order has one item of Quantity pieces, so shares of the price are   *)
(* shares of the quantity.  Whether the customer's points can be reclaimed *)
(* is PointLedger's question; here a refund may always roll back.          *)
(***************************************************************************)
EXTENDS Sums

CONSTANTS Returns,             \* ids of return requests
          Quantity, Price,     \* what was ordered
          Used, Earned,        \* Order.used_points, Order.earned_points
          Paid,                \* Payment.amount
          Tabs,                \* a customer's windows: a request may be sent twice
          Fees                 \* return shipping fees an administrator sets

Total == Quantity * Price

ASSUME ReturnConstants ==
  /\ IsFiniteSet(Returns)
  /\ Quantity \in Nat \ {0} /\ Price \in Nat \ {0}
  /\ Used \in Nat /\ Earned \in Nat /\ Paid \in Nat /\ Fees \subseteq Nat
  /\ Paid + Used >= Total       \* final_amount = goods + shipping - points

VARIABLES row, order, canceled, booked, moves, toss, calling, asking, patching, deleting, lapses

db == <<row, order, canceled, booked, moves>>

requests == <<asking, patching, deleting>>

vars == <<row, order, canceled, booked, moves, toss, calling, asking, patching, deleting, lapses>>

Open == {"requested", "approved", "shipping", "received"}

Statuses == {"none", "rejected", "completed", "deleted"} \cup Open

Row == [status : Statuses, kind : {"refund", "exchange"}, quantity : Nat, fee : Nat]

NoReturn == [status |-> "none", kind |-> "refund", quantity |-> 0, fee |-> 0]

Nothing == [cash |-> 0, points |-> 0, taken |-> 0]

-----------------------------------------------------------------------------
(* What the code computes from the tables. *)

OpenReturns == {r \in Returns : row[r].status \in Open}

Completed == {r \in Returns : row[r].status = "completed" /\ row[r].kind = "refund"}

Quantities == [r \in Returns |-> row[r].quantity]

AlreadyReturned == SumOver(Quantities, Completed)

(* _proportional_share *)
Share(total, part) == (total * part) \div Quantity

ShareAlone(total, r) == Share(total, row[r].quantity)              \* mutant

(* The share of one more return: a difference of cumulative shares. *)
ShareOf(total, r) ==
  Share(total, AlreadyReturned + row[r].quantity) - Share(total, AlreadyReturned)

UsedForGoods == Least(Used, Total)

AmountsAllCash(r) ==                                               \* mutant
  [cash |-> Monus(row[r].quantity * Price, row[r].fee), points |-> 0, taken |-> ShareOf(Earned, r)]

AmountsUncut(r) ==                                                 \* mutant
  [cash |-> row[r].quantity * Price - ShareOf(UsedForGoods, r) - row[r].fee,
   points |-> ShareOf(UsedForGoods, r), taken |-> ShareOf(Earned, r)]

(* The fee comes off the cash, then off the points, and no more is charged. *)
Amounts(r) ==
  LET goods == row[r].quantity * Price
      points == ShareOf(UsedForGoods, r)
  IN  [cash |-> Monus(goods, points + row[r].fee),
       points |-> IF goods >= points + row[r].fee THEN points ELSE Monus(goods, row[r].fee),
       taken |-> ShareOf(Earned, r)]

NeverMoved(r) == FALSE                                             \* mutant

MovedAtToss(r) == toss[r] > 0                                      \* mutant

(* A completed refund whose status was set back. *)
AlreadyMoved(r) == booked[r] # Nothing

TossTotal == SumOver(toss, Returns)

-----------------------------------------------------------------------------
Init ==
  /\ row = [r \in Returns |-> NoReturn]
  /\ order = "delivered"
  /\ canceled = 0
  /\ booked = [r \in Returns |-> Nothing]
  /\ moves = [r \in Returns |-> 0]
  /\ toss = [r \in Returns |-> 0]
  /\ calling = {}
  /\ asking = {} /\ patching = {} /\ deleting = {}
  /\ lapses = {}

-----------------------------------------------------------------------------
(* The customer. *)

ValidUncounted(quantity) ==                                        \* mutant
  order = "delivered" /\ OpenReturns = {} /\ quantity <= Quantity

(* validate_order_for_return and validate_return_items *)
Valid(quantity) ==
  order = "delivered" /\ OpenReturns = {} /\ AlreadyReturned + quantity <= Quantity

(* POST: the request is validated ... *)
Ask(r, kind, quantity) ==
  /\ row[r].status = "none" /\ \A a \in asking : a.id # r
  /\ Valid(quantity)
  /\ asking' = asking \cup {[id |-> r, kind |-> kind, quantity |-> quantity]}
  /\ UNCHANGED <<db, toss, calling, patching, deleting, lapses>>

(* ... and create_return writes it, without looking again.  The new row     *)
(* refers to the order, which a running refund holds.                       *)
Create(a) ==
  /\ a \in asking /\ calling = {}
  /\ row' = [row EXCEPT ![a.id] = [status |-> "requested", kind |-> a.kind, quantity |-> a.quantity, fee |-> 0]]
  /\ asking' = asking \ {a}
  /\ lapses' = IF Valid(a.quantity) THEN lapses ELSE lapses \cup {"create"}
  /\ UNCHANGED <<order, canceled, booked, moves, toss, calling, patching, deleting>>

(* PATCH: the tracking number of an approved return ... *)
ReadPatch(r, tab) ==
  /\ row[r].status = "approved" /\ \A p \in patching : ~(p.id = r /\ p.tab = tab)
  /\ patching' = patching \cup {[id |-> r, tab |-> tab, row |-> row[r]]}
  /\ UNCHANGED <<db, toss, calling, asking, deleting, lapses>>

(* ... saves every column.  (A row deleted meanwhile stays deleted here;    *)
(* save() would insert it again without its items.)                         *)
WritePatch(p) ==
  /\ p \in patching /\ p.id \notin calling
  /\ row' = IF row[p.id].status = "deleted" THEN row
            ELSE [row EXCEPT ![p.id] = [p.row EXCEPT !.status = "shipping"]]
  /\ patching' = patching \ {p}
  /\ lapses' = IF row[p.id] = p.row THEN lapses ELSE lapses \cup {"patch"}
  /\ UNCHANGED <<order, canceled, booked, moves, toss, calling, asking, deleting>>

(* DELETE: only a requested return may be withdrawn ... *)
ReadDelete(r) ==
  /\ row[r].status = "requested" /\ r \notin deleting
  /\ deleting' = deleting \cup {r}
  /\ UNCHANGED <<db, toss, calling, asking, patching, lapses>>

(* ... whatever it has become. *)
WriteDelete(r) ==
  /\ r \in deleting /\ r \notin calling
  /\ row' = [row EXCEPT ![r].status = "deleted"]
  /\ deleting' = deleting \ {r}
  /\ lapses' = IF row[r].status = "requested" THEN lapses ELSE lapses \cup {"delete"}
  /\ UNCHANGED <<order, canceled, booked, moves, toss, calling, asking, patching>>

-----------------------------------------------------------------------------
(* The seller and the administrator. *)

Advance(r, from, to) ==
  /\ row[r].status = from
  /\ row' = [row EXCEPT ![r].status = to]
  /\ UNCHANGED <<order, canceled, booked, moves, toss, calling, requests, lapses>>

Approve(r) == Advance(r, "requested", "approved")

Reject(r) == Advance(r, "requested", "rejected")

ConfirmReceive(r) == Advance(r, "shipping", "received")

(* The return shipping fee is a field of the administrator's form; bound:   *)
(* it is set once.                                                          *)
SetFee(r, fee) ==
  /\ row[r].status \in Open /\ r \notin calling /\ row[r].fee = 0
  /\ row' = [row EXCEPT ![r].fee = fee]
  /\ lapses' = IF toss[r] > 0 THEN lapses \cup {"fee"} ELSE lapses
  /\ UNCHANGED <<order, canceled, booked, moves, toss, calling, requests>>

RefundAgain(r) == toss[r] + Amounts(r).cash                        \* mutant

(* A second call under the same idempotency key gets the first answer. *)
RefundUnderKey(r) == IF toss[r] > 0 THEN toss[r] ELSE Amounts(r).cash

(* complete_refund up to Toss' answer.  Toss refunds no more than was paid. *)
CallToss(r) ==
  /\ row[r].status = "received" /\ row[r].kind = "refund"
  /\ calling = {} /\ ~AlreadyMoved(r)
  /\ canceled + Amounts(r).cash <= Paid
  /\ toss[r] > 0 \/ TossTotal + Amounts(r).cash <= Paid
  /\ toss' = IF Amounts(r).cash > 0 THEN [toss EXCEPT ![r] = RefundUnderKey(r)] ELSE toss
  /\ calling' = {r}
  /\ UNCHANGED <<db, requests, lapses>>

(* The rest of complete_refund *)
CompleteRefund(r) ==
  /\ r \in calling
  /\ canceled' = canceled + Amounts(r).cash
  /\ booked' = [booked EXCEPT ![r] = Amounts(r)]
  /\ moves' = [moves EXCEPT ![r] = @ + 1]
  /\ row' = [row EXCEPT ![r].status = "completed"]
  /\ order' = IF AlreadyReturned + row[r].quantity >= Quantity THEN "refunded" ELSE order
  /\ calling' = {}
  /\ UNCHANGED <<toss, requests, lapses>>

(* A database error, points that cannot be reclaimed, a crash: Toss has     *)
(* refunded and nothing is written.                                         *)
RefundRollsBack(r) ==
  /\ r \in calling
  /\ calling' = {}
  /\ UNCHANGED <<db, toss, requests, lapses>>

CompleteExchange(r) ==
  /\ row[r].status = "received" /\ row[r].kind = "exchange"
  /\ row' = [row EXCEPT ![r].status = "completed"]
  /\ moves' = [moves EXCEPT ![r] = @ + 1]
  /\ UNCHANGED <<order, canceled, booked, toss, calling, requests, lapses>>

-----------------------------------------------------------------------------
Customer(r) ==
  \/ \E kind \in {"refund", "exchange"}, quantity \in 1..Quantity : Ask(r, kind, quantity)
  \/ \E a \in asking : a.id = r /\ Create(a)
  \/ (\E tab \in Tabs : ReadPatch(r, tab)) \/ (\E p \in patching : p.id = r /\ WritePatch(p))
  \/ ReadDelete(r) \/ WriteDelete(r)

Seller(r) ==
  \/ Approve(r) \/ Reject(r) \/ ConfirmReceive(r)
  \/ CallToss(r) \/ CompleteRefund(r) \/ RefundRollsBack(r)
  \/ CompleteExchange(r)
  \/ \E fee \in Fees : SetFee(r, fee)

Next == \E r \in Returns : Customer(r) \/ Seller(r)

Spec == Init /\ [][Next]_vars

(* The seller presses "complete" again until the refund is through, and not *)
(* every try fails.                                                         *)
FairSpec ==
  /\ Spec
  /\ \A r \in Returns : WF_vars(CallToss(r)) /\ SF_vars(CompleteRefund(r))

-----------------------------------------------------------------------------
TypeOK ==
  /\ row \in [Returns -> Row]
  /\ order \in {"delivered", "refunded"}
  /\ canceled \in Nat
  /\ booked \in [Returns -> [cash : Nat, points : Nat, taken : Nat]]
  /\ moves \in [Returns -> Nat]
  /\ toss \in [Returns -> Nat]
  /\ calling \in SUBSET Returns
  /\ asking \in SUBSET [id : Returns, kind : {"refund", "exchange"}, quantity : Nat]
  /\ patching \in SUBSET [id : Returns, tab : Tabs, row : Row]
  /\ deleting \in SUBSET Returns
  /\ lapses \in SUBSET {"create", "patch", "delete", "fee"}

(* No more pieces come back than were ordered: the quantity is checked when *)
(* a return is asked for, against the returns completed by then.            *)
ReturnedAtMostOrdered == AlreadyReturned <= Quantity

(* It holds as long as no unlocked request wrote over a newer state. *)
ReturnsWithinOrder == lapses = {} => ReturnedAtMostOrdered /\ \A r, s \in OpenReturns : r = s

BookedCash == [r \in Returns |-> booked[r].cash]

BookedPoints == [r \in Returns |-> booked[r].points]

BookedTaken == [r \in Returns |-> booked[r].taken]

(* However an order is split into returns, the shares add up: the earned    *)
(* points taken are the share of everything returned so far, what comes     *)
(* back of a return is its price less the fee, and without a fee the points *)
(* that come back are the share of everything returned.                     *)
SharesAddUp ==
  lapses = {} =>
    /\ SumOver(BookedTaken, Returns) = Share(Earned, AlreadyReturned)
    /\ \A r \in Completed :
         booked[r].cash + booked[r].points = Monus(row[r].quantity * Price, row[r].fee)
    /\ (\A r \in Completed : row[r].fee = 0) =>
         SumOver(BookedPoints, Returns) = Share(UsedForGoods, AlreadyReturned)

(* Money that left at Toss is the money in the books, or its return is      *)
(* still waiting to be completed: a refund that rolls back, any number of   *)
(* times, and is completed in the end is paid once and booked as paid.      *)
TossMatchesBooks ==
  lapses = {} =>
    /\ canceled = SumOver(BookedCash, Returns)
    /\ \A r \in Returns :
         toss[r] # booked[r].cash => row[r].status = "received" /\ booked[r] = Nothing

(* A return whose pieces arrived can be paid: the guard on what is left of  *)
(* the payment never turns a proper return away.                            *)
CashSuffices ==
  lapses = {} =>
    \A r \in Returns :
      row[r].status = "received" /\ row[r].kind = "refund" => canceled + Amounts(r).cash <= Paid

(* A refund moves money, points and stock once, even when its status was    *)
(* overwritten and the seller completes it again (comment at                *)
(* return_service.py:469).  The guard looks for what the refund has booked, *)
(* so a fee must leave something to book.                                   *)
RefundMovesOnce ==
  (\A fee \in Fees : fee < Price) =>
    \A r \in Returns : row[r].kind = "refund" => moves[r] <= 1

(* What Toss has refunded gets written, by the seller's retry. *)
TossRefundIsBooked ==
  \A r \in Returns : (toss[r] > 0) ~> (booked[r] # Nothing \/ lapses # {})

=============================================================================
