-------------------------- MODULE OrderRowTheorems --------------------------
(***************************************************************************)
(* What the transactions of OrderRow do to a row, and that they keep it a  *)
(* row.  The proofs about PaymentFlow cite these facts.                    *)
(***************************************************************************)
EXTENDS OrderRow, TLAPS

(* The writes to a few columns, from which the transactions are built,      *)
(* return rows.                                                             *)
LEMMA PrimitiveRows ==
  ASSUME NEW r \in Rows, NEW st \in PayStatuses, NEW os \in OrderStatuses
  PROVE  /\ CreatePayment(r) \in Rows
         /\ MarkAsPaid(r) \in Rows
         /\ MarkAsCanceled(r) \in Rows
         /\ MarkAsWaiting(r) \in Rows
         /\ MarkAsFailed(r, st) \in Rows
         /\ SaveAsFailed(r, st) \in Rows
         /\ RestoreStock(r) \in Rows
         /\ RefundUsedPoints(r) \in Rows
         /\ RestoreSold(r) \in Rows
         /\ DeductEarned(r) \in Rows
         /\ EarnPoints(r) \in Rows
         /\ [r EXCEPT !.status = os] \in Rows
         /\ [r EXCEPT !.pay = st] \in Rows
         /\ [r EXCEPT !.pid = @ + 1] \in Rows
<1>. r.pid + 1 \in Nat /\ r.credit + 1 \in Int
  BY DEF Rows
<1>1. CreatePayment(r) \in Rows
  BY DEF Rows, PayStatuses, CreatePayment
<1>2. MarkAsPaid(r) \in Rows
  BY DEF Rows, PayStatuses, MarkAsPaid
<1>3. MarkAsCanceled(r) \in Rows /\ MarkAsWaiting(r) \in Rows
  BY DEF Rows, PayStatuses, MarkAsCanceled, MarkAsWaiting
<1>4. MarkAsFailed(r, st) \in Rows /\ SaveAsFailed(r, st) \in Rows
  BY DEF Rows, MarkAsFailed, SaveAsFailed
<1>5. RestoreStock(r) \in Rows /\ RefundUsedPoints(r) \in Rows
  BY DEF Rows, RestoreStock, RefundUsedPoints
<1>6. RestoreSold(r) \in Rows /\ DeductEarned(r) \in Rows
  BY DEF Rows, RestoreSold, DeductEarned
<1>7. EarnPoints(r) \in Rows
  BY DEF Rows, EarnPoints
<1>8. /\ [r EXCEPT !.status = os] \in Rows /\ [r EXCEPT !.pay = st] \in Rows
      /\ [r EXCEPT !.pid = @ + 1] \in Rows
  BY DEF Rows
<1>. QED BY <1>1, <1>2, <1>3, <1>4, <1>5, <1>6, <1>7, <1>8

(* A charge is recorded: the payment is done, the order paid, its sale      *)
(* counted once more.                                                       *)
LEMMA PayOrderRow ==
  ASSUME NEW r \in Rows
  PROVE  /\ PayOrder(r) \in Rows
         /\ PayOrder(r).status = "paid" /\ PayOrder(r).pay = "done"
         /\ PayOrder(r).free = r.free /\ PayOrder(r).pid = r.pid
         /\ PayOrder(r).held = r.held /\ PayOrder(r).spent = r.spent
         /\ PayOrder(r).sold = r.sold + 1
         /\ PayOrder(r).earned = r.earned /\ PayOrder(r).earnRow = r.earnRow
         /\ PayOrder(r).credit = r.credit
<1>. DEFINE m == MarkAsPaid(r)
<1>1. m \in Rows
  BY "paid" \in OrderStatuses, "done" \in PayStatuses, PrimitiveRows DEF OrderStatuses, PayStatuses
<1>2. m.sold + 1 \in Int
  BY <1>1 DEF Rows
<1>. HIDE DEF m
<1>3. [m EXCEPT !.sold = m.sold + 1, !.status = "paid"] \in Rows
  BY <1>1, <1>2 DEF Rows, OrderStatuses
<1>4. PayOrder(r) \in Rows
  BY <1>3 DEF PayOrder, m
<1>. QED
  BY <1>4 DEF PayOrder, MarkAsPaid, Rows

(* The points of a purchase are credited. *)
LEMMA EarnPointsRow ==
  ASSUME NEW r \in Rows
  PROVE  /\ EarnPoints(r) \in Rows
         /\ EarnPoints(r).status = r.status /\ EarnPoints(r).pay = r.pay
         /\ EarnPoints(r).free = r.free /\ EarnPoints(r).pid = r.pid
         /\ EarnPoints(r).held = r.held /\ EarnPoints(r).spent = r.spent
         /\ EarnPoints(r).sold = r.sold
         /\ EarnPoints(r).earnRow = TRUE /\ EarnPoints(r).credit = r.credit + 1
<1>1. EarnPoints(r) \in Rows
  BY PrimitiveRows DEF OrderStatuses, PayStatuses
<1>. QED
  BY <1>1 DEF EarnPoints, Rows

(* The payment fence and the give-back of cancel_order: the order ends      *)
(* canceled, with its stock and points returned once.                       *)
LEMMA CancelOrderRow ==
  ASSUME NEW r \in Rows, NEW st \in PayStatuses
  PROVE  /\ CancelOrder(r, st) \in Rows
         /\ CancelOrder(r, st).status = "canceled"
         /\ CancelOrder(r, st).pay = IF r.pay = "none" THEN "none" ELSE st
         /\ CancelOrder(r, st).free = r.free /\ CancelOrder(r, st).pid = r.pid
         /\ CancelOrder(r, st).held = r.held - 1 /\ CancelOrder(r, st).spent = r.spent - 1
         /\ CancelOrder(r, st).sold = r.sold
         /\ CancelOrder(r, st).earnRow = r.earnRow /\ CancelOrder(r, st).credit = r.credit
<1>1. MarkAsFailed(r, st) \in Rows
  BY PrimitiveRows DEF OrderStatuses
<1>2. RestoreStock(MarkAsFailed(r, st)) \in Rows
  BY <1>1, PrimitiveRows DEF OrderStatuses
<1>3. RefundUsedPoints(RestoreStock(MarkAsFailed(r, st))) \in Rows
  BY <1>2, PrimitiveRows DEF OrderStatuses
<1>4. "canceled" \in OrderStatuses
  BY DEF OrderStatuses
<1>5. CancelOrder(r, st) \in Rows
  BY <1>3, <1>4, PrimitiveRows DEF CancelOrder
<1>. QED
  BY <1>5 DEF CancelOrder, RefundUsedPoints, RestoreStock, MarkAsFailed, Rows

(* The rollback gives stock and points back and fails the order; a payment  *)
(* that had not failed yet is aborted.                                      *)
LEMMA RollbackFailureRow ==
  ASSUME NEW r \in Rows
  PROVE  /\ RollbackFailure(r) \in Rows
         /\ RollbackFailure(r).status = "payment_failed"
         /\ RollbackFailure(r).pay = IF r.pay \in {"none", "aborted", "expired"}
                                     THEN r.pay ELSE "aborted"
         /\ RollbackFailure(r).free = r.free /\ RollbackFailure(r).pid = r.pid
         /\ RollbackFailure(r).held = r.held - 1 /\ RollbackFailure(r).spent = r.spent - 1
         /\ RollbackFailure(r).sold = r.sold
         /\ RollbackFailure(r).earnRow = r.earnRow /\ RollbackFailure(r).credit = r.credit
<1>. DEFINE b == RefundUsedPoints(RestoreStock(r))
            back == [b EXCEPT !.status = "payment_failed"]
<1>1. b \in Rows
  BY PrimitiveRows DEF OrderStatuses, PayStatuses
<1>. HIDE DEF b
<1>2. back \in Rows
  BY <1>1 DEF Rows, OrderStatuses
<1>. HIDE DEF back
<1>3. MarkAsFailed(back, "aborted") \in Rows
  BY <1>2, PrimitiveRows DEF OrderStatuses, PayStatuses
<1>4. RollbackFailure(r) \in Rows
  BY <1>2, <1>3 DEF RollbackFailure, back, b
<1>. QED
  BY <1>4 DEF RollbackFailure, RefundUsedPoints, RestoreStock, MarkAsFailed, Rows

(* cancel_payment closes the payment; stock, points and the sale go back    *)
(* unless the order was canceled before.                                    *)
LEMMA RefundPaymentRow ==
  ASSUME NEW r \in Rows
  PROVE  /\ RefundPayment(r) \in Rows
         /\ RefundPayment(r).status = "canceled" /\ RefundPayment(r).pay = "canceled"
         /\ RefundPayment(r).free = r.free /\ RefundPayment(r).pid = r.pid
         /\ r.status # "canceled" =>
              /\ RefundPayment(r).held = r.held - 1 /\ RefundPayment(r).spent = r.spent - 1
              /\ RefundPayment(r).sold = r.sold - 1
         /\ r.status = "canceled" =>
              /\ RefundPayment(r).held = r.held /\ RefundPayment(r).spent = r.spent
              /\ RefundPayment(r).sold = r.sold
         /\ RefundPayment(r).earnRow = r.earnRow
         /\ RefundPayment(r).credit \in {r.credit, r.credit - 1}
<1>. DEFINE p == MarkAsCanceled(r)
            b == RefundUsedPoints(RestoreSold(RestoreStock(p)))
            all == [b EXCEPT !.status = "canceled"]
<1>1. p \in Rows
  BY PrimitiveRows DEF OrderStatuses, PayStatuses
<1>. HIDE DEF p
<1>2. b \in Rows
  BY <1>1, PrimitiveRows DEF OrderStatuses, PayStatuses
<1>. HIDE DEF b
<1>3. all \in Rows
  BY <1>2 DEF Rows, OrderStatuses
<1>. HIDE DEF all
<1>4. DeductEarned(all) \in Rows
  BY <1>3, PrimitiveRows DEF OrderStatuses, PayStatuses
<1>5. RefundPayment(r) \in Rows
  BY <1>1, <1>3, <1>4 DEF RefundPayment, all, b, p
<1>. QED
  BY <1>5 DEF RefundPayment, RefundUsedPoints, RestoreSold, RestoreStock, MarkAsCanceled,
              DeductEarned, Rows

(* A points-only payment pays the order, creating the Payment row if there  *)
(* is none.                                                                 *)
LEMMA CompletePointsOnlyRow ==
  ASSUME NEW r \in Rows
  PROVE  /\ CompletePointsOnly(r) \in Rows
         /\ CompletePointsOnly(r).status = "paid" /\ CompletePointsOnly(r).pay = "done"
         /\ CompletePointsOnly(r).free = r.free
         /\ CompletePointsOnly(r).held = r.held /\ CompletePointsOnly(r).spent = r.spent
         /\ CompletePointsOnly(r).sold = r.sold + 1
         /\ CompletePointsOnly(r).earnRow = r.earnRow /\ CompletePointsOnly(r).credit = r.credit
<1>1. CASE r.pay = "none"
  <2>. DEFINE q == [r EXCEPT !.pid = @ + 1]
  <2>1. q \in Rows
    BY PrimitiveRows DEF OrderStatuses, PayStatuses
  <2>2. /\ q.free = r.free /\ q.held = r.held /\ q.spent = r.spent /\ q.sold = r.sold
        /\ q.earnRow = r.earnRow /\ q.credit = r.credit
    BY DEF Rows
  <2>3. CompletePointsOnly(r) = PayOrder(q)
    BY <1>1 DEF CompletePointsOnly
  <2>. HIDE DEF q
  <2>. QED BY <2>1, <2>2, <2>3, PayOrderRow
<1>2. CASE r.pay # "none"
  BY <1>2, PayOrderRow DEF CompletePointsOnly
<1>. QED BY <1>1, <1>2

(* finalize_payment_confirm never changes the status of a canceled order.   *)
LEMMA FinalizeDoneRow ==
  ASSUME NEW r \in Rows
  PROVE  /\ FinalizeDone(r) \in Rows
         /\ FinalizeDone(r).pay = "done"
         /\ FinalizeDone(r).free = r.free /\ FinalizeDone(r).pid = r.pid
         /\ FinalizeDone(r).status = IF r.status = "canceled" THEN "canceled" ELSE "paid"
         /\ FinalizeDone(r).held = r.held /\ FinalizeDone(r).spent = r.spent
         /\ FinalizeDone(r).sold = IF r.status = "canceled" THEN r.sold ELSE r.sold + 1
         /\ FinalizeDone(r).earnRow = r.earnRow /\ FinalizeDone(r).credit = r.credit
<1>1. MarkAsPaid(r) \in Rows
  BY PrimitiveRows DEF OrderStatuses, PayStatuses
<1>2. CASE r.status = "canceled"
  BY <1>1, <1>2 DEF FinalizeDone, MarkAsPaid, Rows
<1>3. CASE r.status # "canceled"
  BY <1>3, PayOrderRow DEF FinalizeDone
<1>. QED BY <1>2, <1>3

(* The DONE webhook pays an order at most once and credits points only      *)
(* where none were recorded.                                                *)
LEMMA WebhookDoneRow ==
  ASSUME NEW r \in Rows
  PROVE  /\ WebhookDone(r) \in Rows
         /\ WebhookDone(r).pay = "done"
         /\ WebhookDone(r).free = r.free /\ WebhookDone(r).pid = r.pid
         /\ WebhookDone(r).status = IF r.status = "canceled" THEN "canceled" ELSE "paid"
         /\ WebhookDone(r).held = r.held /\ WebhookDone(r).spent = r.spent
         /\ WebhookDone(r).sold = IF r.status \in {"canceled", "paid"} THEN r.sold ELSE r.sold + 1
         /\ \/ WebhookDone(r).earnRow = r.earnRow /\ WebhookDone(r).credit = r.credit
            \/ /\ r.status \notin {"canceled", "paid"} /\ ~r.earned
               /\ WebhookDone(r).earnRow = TRUE /\ WebhookDone(r).credit = r.credit + 1
<1>1. MarkAsPaid(r) \in Rows
  BY PrimitiveRows DEF OrderStatuses, PayStatuses
<1>2. CASE r.status \in {"canceled", "paid"}
  BY <1>1, <1>2 DEF WebhookDone, MarkAsPaid, Rows
<1>3. CASE r.status \notin {"canceled", "paid"} /\ r.earned
  BY <1>3, PayOrderRow DEF WebhookDone
<1>4. CASE r.status \notin {"canceled", "paid"} /\ ~r.earned
  <2>. DEFINE q == PayOrder(r)
  <2>1. /\ q \in Rows /\ q.status = "paid" /\ q.pay = "done" /\ q.free = r.free /\ q.pid = r.pid
        /\ q.held = r.held /\ q.spent = r.spent /\ q.sold = r.sold + 1 /\ q.credit = r.credit
    BY PayOrderRow
  <2>. HIDE DEF q
  <2>2. WebhookDone(r) = EarnPoints(q)
    BY <1>4 DEF WebhookDone, q
  <2>. QED BY <1>4, <2>1, <2>2, EarnPointsRow
<1>. QED BY <1>2, <1>3, <1>4

(* The CANCELED webhook closes the payment and cancels the order, giving    *)
(* back what the order's status says it still holds.                        *)
LEMMA WebhookCanceledRow ==
  ASSUME NEW r \in Rows, NEW reclaimed \in BOOLEAN
  PROVE  /\ WebhookCanceled(r, reclaimed) \in Rows
         /\ WebhookCanceled(r, reclaimed).status = "canceled"
         /\ WebhookCanceled(r, reclaimed).pay = "canceled"
         /\ WebhookCanceled(r, reclaimed).free = r.free
         /\ WebhookCanceled(r, reclaimed).pid = r.pid
         /\ WebhookCanceled(r, reclaimed).held =
              IF r.status \in {"confirmed", "paid"} THEN r.held - 1 ELSE r.held
         /\ WebhookCanceled(r, reclaimed).spent =
              IF r.status \in {"confirmed", "paid"} THEN r.spent - 1 ELSE r.spent
         /\ WebhookCanceled(r, reclaimed).sold =
              IF r.status = "paid" THEN r.sold - 1 ELSE r.sold
         /\ WebhookCanceled(r, reclaimed).earnRow = r.earnRow
         /\ WebhookCanceled(r, reclaimed).credit \in {r.credit, r.credit - 1}
<1>. DEFINE p == MarkAsCanceled(r)
            conf == RefundUsedPoints(RestoreStock(p))
            paid == RestoreSold(conf)
<1>1. p \in Rows
  BY PrimitiveRows DEF OrderStatuses, PayStatuses
<1>. HIDE DEF p
<1>2. conf \in Rows
  BY <1>1, PrimitiveRows DEF OrderStatuses, PayStatuses
<1>. HIDE DEF conf
<1>3. paid \in Rows
  BY <1>2, PrimitiveRows DEF OrderStatuses, PayStatuses
<1>. HIDE DEF paid
<1>4. DeductEarned(paid) \in Rows
  BY <1>3, PrimitiveRows DEF OrderStatuses, PayStatuses
<1>5. PICK back \in {p, conf, paid, DeductEarned(paid)} :
        WebhookCanceled(r, reclaimed) = [back EXCEPT !.status = "canceled"]
  BY DEF WebhookCanceled, paid, conf, p
<1>6. WebhookCanceled(r, reclaimed) \in Rows
  BY <1>1, <1>2, <1>3, <1>4, <1>5 DEF Rows, OrderStatuses
<1>. QED
  BY <1>6 DEF WebhookCanceled, RefundUsedPoints, RestoreSold, RestoreStock, MarkAsCanceled,
              DeductEarned, Rows

(* The WAITING_FOR_DEPOSIT webhook leaves stock and points alone; of a paid *)
(* payment it takes the sale back.                                          *)
LEMMA WebhookWaitingRow ==
  ASSUME NEW r \in Rows, NEW reclaimed \in BOOLEAN
  PROVE  /\ WebhookWaiting(r, reclaimed) \in Rows
         /\ WebhookWaiting(r, reclaimed).pay = "waiting_for_deposit"
         /\ WebhookWaiting(r, reclaimed).free = r.free
         /\ WebhookWaiting(r, reclaimed).pid = r.pid
         /\ WebhookWaiting(r, reclaimed).held = r.held
         /\ WebhookWaiting(r, reclaimed).spent = r.spent
         /\ WebhookWaiting(r, reclaimed).status = IF r.pay = "done" THEN "confirmed" ELSE r.status
         /\ WebhookWaiting(r, reclaimed).sold = IF r.pay = "done" THEN r.sold - 1 ELSE r.sold
         /\ WebhookWaiting(r, reclaimed).earnRow = r.earnRow
         /\ WebhookWaiting(r, reclaimed).credit \in {r.credit, r.credit - 1}
<1>. DEFINE undone == [RestoreSold(r) EXCEPT !.status = "confirmed"]
            unearned == [DeductEarned(undone) EXCEPT !.earned = FALSE]
<1>1. undone \in Rows
  BY PrimitiveRows DEF OrderStatuses, PayStatuses
<1>. HIDE DEF undone
<1>2. DeductEarned(undone) \in Rows
  BY <1>1, PrimitiveRows DEF OrderStatuses, PayStatuses
<1>3. unearned \in Rows
  BY <1>2 DEF Rows
<1>. HIDE DEF unearned
<1>4. PICK q \in {r, undone, unearned} : WebhookWaiting(r, reclaimed) = MarkAsWaiting(q)
  BY DEF WebhookWaiting, undone, unearned
<1>5. WebhookWaiting(r, reclaimed) \in Rows
  BY <1>1, <1>3, <1>4, PrimitiveRows DEF OrderStatuses, PayStatuses
<1>. QED
  BY <1>5 DEF WebhookWaiting, RestoreSold, DeductEarned, MarkAsWaiting, Rows

=============================================================================
