-------------------------- MODULE PaymentInvariant --------------------------
(***************************************************************************)
(* The inductive invariant behind the life cycle of an order, in the       *)
(* environments that offer no more than the synchronous confirmation and   *)
(* the unanswered confirm call: one request at a time reaches an order's   *)
(* payment window, and queues are faster than the sweeps.                  *)
(***************************************************************************)
EXTENDS PaymentFlow

CalmOptions == {"sync_confirm", "unanswered"}

Dead == {"ABORTED", "EXPIRED"}

Settled == Charged \union {"CANCELED"}

IsChain(m) == m.kind \in {"confirm", "finalize"}

(* The confirm chain of an order never runs twice at the same time: the     *)
(* payment leaves "ready" under its lock, and the sweep waits.              *)
OneChain(o) == \A m1, m2 \in tasks[o] : IsChain(m1) /\ IsChain(m2) => m1 = m2

(* A chain works on the order's only Payment row, which left "ready". *)
ChainHasPayment(o) == \A m \in tasks[o] : IsChain(m) =>
  /\ m.pid = db[o].pid
  /\ db[o].pay \notin {"none", "ready"}
  /\ toss[o] # "NONE"

(* While a finalize message is queued nobody has given the payment up. *)
FinalizeIsApproved(o) == \A m \in tasks[o] : m.kind = "finalize" =>
  /\ m.status \in {"DONE", "WAITING_FOR_DEPOSIT"}
  /\ toss[o] \in Approved \union {"CANCELED"}
  /\ m.status = "DONE" => toss[o] \in Settled
  /\ RollbackTask \notin tasks[o]
  /\ db[o].pay \in {"in_progress", "waiting_for_deposit", "done", "canceled"}

(* The same of a confirm message, unless Toss will refuse it. *)
ConfirmMayApprove(o) == \A m \in tasks[o] : m.kind = "confirm" =>
  \/ toss[o] \in Dead
  \/ /\ RollbackTask \notin tasks[o]
     /\ db[o].pay \in {"in_progress", "waiting_for_deposit", "done", "canceled"}

(* What a request has read is still so when it acts on it. *)
StepsMatchToss(o) ==
  /\ hooks[o] # {} => toss[o] # "NONE"
  /\ "abandoned" \notin hooks[o]
  /\ \A s \in open[o] :
       /\ s.name \in {"hook", "failview", "failwrite"}
       /\ s.name = "hook" => toss[o] # "NONE" /\ s.arg = Report(toss[o])
       /\ s.name = "failwrite" => toss[o] \in Dead
       /\ s.name = "failview" => toss[o] = "NONE" /\ ~db[o].free

(* A rollback is asked for only once the payment has failed. *)
RollbackFollowsFailure(o) ==
  RollbackTask \in tasks[o] => db[o].pay \notin {"none", "ready", "in_progress"}

(* The Payment row and the order agree. *)
PaymentAgreesWithOrder(o) ==
  /\ db[o].pay \in {"ready", "in_progress"} => db[o].status = "confirmed"
  /\ db[o].pay = "waiting_for_deposit" => db[o].status \in {"confirmed", "canceled"}
  /\ db[o].pay = "done" => db[o].status \in {"paid", "canceled"}
  /\ db[o].pay = "canceled" => db[o].status = "canceled"
  /\ db[o].pay = "none" => db[o].status \in {"confirmed", "canceled"}
  /\ (db[o].pay = "done" \/ db[o].status = "paid") /\ ~db[o].free => toss[o] \in Settled

(* An order that costs nothing never reaches Toss. *)
FreeNeverAtToss(o) ==
  db[o].free => toss[o] = "NONE" /\ db[o].pay \in {"none", "done"}

(* Stock, points and sales count of one order follow its status. *)
RowIsConsistent(r) ==
  /\ r.held = IF r.status \in {"confirmed", "paid"} THEN 1 ELSE 0
  /\ r.spent = IF r.status \in {"confirmed", "paid"} THEN 1 ELSE 0
  /\ r.sold = IF r.status = "paid" THEN 1 ELSE 0

OrderInv(o) ==
  /\ RowIsConsistent(db[o])
  /\ PaymentAgreesWithOrder(o) /\ FreeNeverAtToss(o)
  /\ OneChain(o) /\ ChainHasPayment(o) /\ FinalizeIsApproved(o) /\ ConfirmMayApprove(o)
  /\ StepsMatchToss(o) /\ RollbackFollowsFailure(o)

(* The confirm chain, the rollback, the webhooks, the sweeps and the        *)
(* customer's requests never work at cross purposes on an order: no         *)
(* success is in flight for an order that is being rolled back, and no      *)
(* failure for an order that Toss may still approve.                        *)
NoCrossPurpose == \A o \in Orders : OrderInv(o)

(* What one step may do to the status of an order. *)
LegalMove(o) ==
  \/ db'[o].status = db[o].status
  \/ db[o].status = "confirmed" /\ db'[o].status \in {"paid", "canceled", "payment_failed"}
  \/ db[o].status \in {"paid", "payment_failed"} /\ db'[o].status = "canceled"

-----------------------------------------------------------------------------
(* Why a charge stands: the second inductive invariant, which needs no calm *)
(* environment but only one without PrematureOptions.                       *)

Final == Dead \union {"CANCELED"}

(* Nobody has given the payment up. *)
Stands(r) == r.status \in {"confirmed", "paid"} /\ r.pay \in Live

(* A payment that Toss has approved stands, and so does one that a confirm  *)
(* message may still get approved; there is one such message at most.       *)
ApprovedStands(o) ==
  /\ toss[o] \in Approved => Stands(db[o])
  /\ \A m \in tasks[o] : m.kind = "confirm" =>
       /\ toss[o] # "NONE" /\ db[o].pay \notin {"none", "ready"}
       /\ toss[o] = "IN_PROGRESS" => Stands(db[o]) /\ RollbackTask \notin tasks[o]
       /\ \A n \in tasks[o] : n.kind = "confirm" => n = m

(* A payment that no confirmation has touched belongs to an open order. *)
ReadyIsOpen(o) ==
  /\ db[o].pay = "ready" => db[o].status = "confirmed"
  /\ db[o].free => toss[o] = "NONE"

(* A rollback, and a request about to save a failure, came too late for     *)
(* Toss to approve the payment.                                             *)
FailureIsFinal(o) ==
  /\ RollbackTask \in tasks[o] => toss[o] \notin Approved /\ db[o].pay \notin {"none", "ready"}
  /\ "abandoned" \notin hooks[o]
  /\ \A s \in open[o] :
       /\ s.name # "create"
       /\ s.name = "failview" => toss[o] = "NONE"
       /\ s.name = "failwrite" => toss[o] \in Dead
       /\ s.name = "hook" /\ s.arg \in Final => toss[o] = s.arg

ChargeInv(o) == ApprovedStands(o) /\ ReadyIsOpen(o) /\ FailureIsFinal(o)

=============================================================================
