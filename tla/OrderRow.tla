------------------------------ MODULE OrderRow ------------------------------
(***************************************************************************)
(* One order as the database holds it: the Order row, the Payment row      *)
(* attached to it, and what the order has taken from its product's         *)
(* stock / sold_count and from its customer's points.  Every operator      *)
(* below is the effect of one database transaction of the shop on such a   *)
(* row; PaymentFlow says who runs it, when, and on what message.           *)
(*                                                                         *)
(*   free     Order.final_amount = 0: points pay for all of it             *)
(*   status   Order.status                                                 *)
(*   pay      Payment.status, "none" while the order has no Payment        *)
(*   pid      which Payment row it is (create_payment deletes and creates) *)
(*   closed   Payment.is_canceled                                          *)
(*   held     the order's quantity still taken off Product.stock           *)
(*   sold     the order's quantity counted in Product.sold_count           *)
(*   spent    the order's used_points still taken from the customer        *)
(*   earned   Order.earned_points > 0                                      *)
(*   earnRow  an "earn" PointHistory row of the order exists               *)
(*   credit   earned points the customer still has from the order          *)
(*                                                                         *)
(* held, sold, spent and credit count in units of the order's own          *)
(* quantity and points, so 1 is "all of it" and -1 is "given back twice".  *)
(* The code keeps sold_count from going below 0; other orders' sales may   *)
(* cover the difference, so the order's own share is not cut off here.     *)
(***************************************************************************)
EXTENDS Integers

OrderStatuses == {"confirmed", "paid", "canceled", "payment_failed"}

PayStatuses == {"none", "ready", "in_progress", "waiting_for_deposit", "done",
                "canceled", "aborted", "expired"}

UnpaidIsPendingOnly == {"pending"}                             \* mutant

Unpaid == {"pending", "confirmed"}

Live == {"in_progress", "waiting_for_deposit", "done"}

Rows == [free : BOOLEAN, status : OrderStatuses, pay : PayStatuses, pid : Nat, closed : BOOLEAN,
         held : Int, sold : Int, spent : Int,
         earned : BOOLEAN, earnRow : BOOLEAN, credit : Int]

(* An order as process_order_heavy_tasks leaves it: stock and points taken. *)
ConfirmedOrder(free) ==
  [free |-> free, status |-> "confirmed", pay |-> "none", pid |-> 0, closed |-> FALSE,
   held |-> 1, sold |-> 0, spent |-> 1,
   earned |-> FALSE, earnRow |-> FALSE, credit |-> 0]

-----------------------------------------------------------------------------
(* Payment rows. *)

CreatePayment(r) == [r EXCEPT !.pay = "ready", !.pid = @ + 1, !.closed = FALSE]

MarkAsPaid(r) == [r EXCEPT !.pay = "done"]

MarkAsCanceled(r) == [r EXCEPT !.pay = "canceled", !.closed = TRUE]

MarkAsWaiting(r) == [r EXCEPT !.pay = "waiting_for_deposit"]

(* A payment row is given a failed status, whatever it was: one UPDATE of   *)
(* the status column (_mark_confirm_aborted, cancel_order, the rollback).   *)
MarkAsFailed(r, status) == IF r.pay = "none" THEN r ELSE [r EXCEPT !.pay = status]

(* mark_as_failed and mark_as_expired save every column of a row that was   *)
(* read before, when it was not canceled.                                   *)
SaveAsFailed(r, status) == [r EXCEPT !.pay = status, !.closed = FALSE]

IsPaidUnchecked(r) == FALSE                                    \* mutant

IsPaid(r) == r.pay = "done"

-----------------------------------------------------------------------------
(* Giving back what the order took. *)

RestoreStock(r) == [r EXCEPT !.held = @ - 1]

RefundUsedPoints(r) == [r EXCEPT !.spent = @ - 1]

RestoreSold(r) == [r EXCEPT !.sold = @ - 1]

DeductEarned(r) == [r EXCEPT !.credit = @ - 1]

EarnPoints(r) == [r EXCEPT !.earned = TRUE, !.earnRow = TRUE, !.credit = @ + 1]

-----------------------------------------------------------------------------
(* Order transactions. *)

(* The tail every successful charge shares: sold_count up, order paid. *)
PayOrder(r) == [MarkAsPaid(r) EXCEPT !.sold = @ + 1, !.status = "paid"]

FinalizeDoneRevives(r) == PayOrder(r)                          \* mutant

(* finalize_payment_confirm on a DONE answer; the caller has checked        *)
(* is_paid.  A canceled order keeps its status and only the payment says    *)
(* that money came in.                                                      *)
FinalizeDone(r) == IF r.status = "canceled" THEN MarkAsPaid(r) ELSE PayOrder(r)

CanCancelUnfenced(r) == r.status \in Unpaid                     \* mutant

CanCancelOrder(r) == r.status \in Unpaid /\ r.pay \notin Live

(* cancel_order under its payment fence: the payment is closed first. *)
CancelOrder(r, closedStatus) ==
  [RefundUsedPoints(RestoreStock(MarkAsFailed(r, closedStatus)))
     EXCEPT !.status = "canceled"]

(* rollback_payment_failure on an order that is still unpaid. *)
RollbackFailure(r) ==
  LET back == [RefundUsedPoints(RestoreStock(r)) EXCEPT !.status = "payment_failed"]
  IN  IF r.pay \in {"aborted", "expired"} THEN back ELSE MarkAsFailed(back, "aborted")

(* cancel_payment after Toss refunded: money only when the order is already *)
(* canceled, everything otherwise.                                          *)
RefundPayment(r) ==
  LET p == MarkAsCanceled(r)
      all == [RefundUsedPoints(RestoreSold(RestoreStock(p))) EXCEPT !.status = "canceled"]
  IN  IF r.status = "canceled" THEN p
      ELSE IF r.earned THEN DeductEarned(all) ELSE all

(* complete_points_only_payment: the order's status is not looked at again  *)
(* after the lock.                                                          *)
CompletePointsOnly(r) ==
  PayOrder(IF r.pay = "none" THEN [r EXCEPT !.pid = @ + 1] ELSE r)

-----------------------------------------------------------------------------
(* Webhook transactions. *)

(* handle_payment_done past its guards on the payment.  The earn row is     *)
(* unique per order, so earning a second time fails the transaction: that   *)
(* case is DoneRaises and the row stays as it was.                          *)
DoneRaises(r) == r.status \notin {"canceled", "paid"} /\ ~r.earned /\ r.earnRow

WebhookDone(r) ==
  IF r.status \in {"canceled", "paid"} THEN MarkAsPaid(r)
  ELSE IF r.earned THEN PayOrder(r) ELSE EarnPoints(PayOrder(r))

(* handle_payment_canceled past its guards; reclaimed is what the point     *)
(* ledger answers to the deduction of the earned points.                    *)
WebhookCanceled(r, reclaimed) ==
  LET p == MarkAsCanceled(r)
      paid == RestoreSold(RefundUsedPoints(RestoreStock(p)))
      back == CASE r.status = "paid" /\ r.earned /\ reclaimed -> DeductEarned(paid)
                [] r.status = "paid" /\ ~(r.earned /\ reclaimed) -> paid
                [] r.status = "confirmed" -> RefundUsedPoints(RestoreStock(p))
                [] OTHER -> p
  IN  [back EXCEPT !.status = "canceled"]

(* handle_waiting_for_deposit past its guards: issue of the account, or a   *)
(* deposit that Toss took back after the order was paid.                    *)
WebhookWaiting(r, reclaimed) ==
  LET undone == [RestoreSold(r) EXCEPT !.status = "confirmed"]
      unearned == IF r.earned /\ reclaimed
                  THEN [DeductEarned(undone) EXCEPT !.earned = FALSE]
                  ELSE undone
  IN  MarkAsWaiting(IF r.pay = "done" THEN unearned ELSE r)

=============================================================================
