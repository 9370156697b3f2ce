------------------------- MODULE PaymentFlowAlways -------------------------
(***************************************************************************)
(* What holds of the payment flow in every environment, for every set of   *)
(* orders, every retry limit and whatever stalls, is redelivered, reverted *)
(* or reordered: the types, and what an order may rely on.                 *)
(***************************************************************************)
EXTENDS PaymentFlow, OrderRowTheorems

(* Writing a well-typed row keeps the rows typed. *)
LEMMA SetRowTypes ==
  ASSUME TypeOK, NEW o \in Orders, NEW r \in Rows, SetRow(o, r)
  PROVE  db' \in [Orders -> Rows]
  BY DEF TypeOK, SetRow

(* A status of Toss and the notification it owes are typed. *)
LEMMA SetTossTypes ==
  ASSUME TypeOK, NEW o \in Orders, NEW t \in TossStatuses, SetToss(o, t)
  PROVE  toss' \in [Orders -> TossStatuses] /\ hooks' \in [Orders -> SUBSET Windows]
  BY DEF TypeOK, SetToss, Windows

(* Publishing well-typed messages keeps the queue typed. *)
LEMMA PublishTypes ==
  ASSUME TypeOK, NEW o \in Orders, NEW new \in SUBSET TaskSet, Publish(o, new)
  PROVE  tasks' \in [Orders -> SUBSET TaskSet]
  BY DEF TypeOK, Publish

(* Counting a fault keeps the counter a natural number. *)
LEMMA FaultTypes ==
  ASSUME TypeOK, NEW o \in Orders, Fault(o)
  PROVE  faults' \in [Orders -> Nat]
  BY DEF TypeOK, Fault

(* A task that ends, redelivered or not, leaves typed messages. *)
LEMMA FinishTypes ==
  ASSUME TypeOK, NEW o \in Orders, NEW t, NEW new \in SUBSET TaskSet, Finish(o, t, new)
  PROVE  tasks' \in [Orders -> SUBSET TaskSet] /\ faults' \in [Orders -> Nat]
<1>1. CASE tasks' = [tasks EXCEPT ![o] = (@ \ {t}) \union new] /\ UNCHANGED faults
  BY <1>1 DEF TypeOK
<1>2. CASE Fault(o) /\ Publish(o, new)
  BY <1>2, FaultTypes, PublishTypes
<1>. QED BY <1>1, <1>2 DEF Finish

(* Recording known alerts keeps the alerts typed. *)
LEMMA AlertTypes ==
  ASSUME TypeOK, NEW o \in Orders, NEW kinds \in SUBSET AlertSet, Alert(o, kinds)
  PROVE  alerts' \in [Orders -> SUBSET AlertSet]
  BY DEF TypeOK, Alert

(* Opening and closing a request keeps the open requests typed. *)
LEMMA StepTypes ==
  ASSUME TypeOK, NEW o \in Orders, NEW s,
         End(o, s) \/ (s \in StepSet /\ Begin(o, s))
  PROVE  open' \in [Orders -> SUBSET StepSet]
  BY DEF TypeOK, Begin, End

(* The messages and the steps the actions make are of their sets. *)
LEMMA MessageTypes ==
  /\ RollbackTask \in TaskSet /\ PointsTask \in TaskSet
  /\ \A n, pid \in Nat : ConfirmTask(n, pid) \in TaskSet
  /\ \A n, pid \in Nat, status \in {"DONE", "WAITING_FOR_DEPOSIT"} :
       FinalizeTask(n, status, pid) \in TaskSet
  /\ \A m \in TaskSet : [m EXCEPT !.n = @ + 1] \in TaskSet
  /\ \A pid \in Nat, name \in {"create", "points", "failview", "hook", "failwrite"},
        arg \in TossStatuses \union {""} : Step(name, arg, pid) \in StepSet
  /\ \A t \in TossStatuses : Report(t) \in TossStatuses
  /\ \A t \in Approved : Report(t) \in {"DONE", "WAITING_FOR_DEPOSIT"}
<1>1. RollbackTask \in TaskSet /\ PointsTask \in TaskSet
  BY DEF RollbackTask, PointsTask, Task, TaskSet
<1>2. \A n, pid \in Nat : ConfirmTask(n, pid) \in TaskSet
  BY DEF ConfirmTask, Task, TaskSet
<1>3. \A n, pid \in Nat, status \in {"DONE", "WAITING_FOR_DEPOSIT"} :
        FinalizeTask(n, status, pid) \in TaskSet
  BY DEF FinalizeTask, Task, TaskSet
<1>4. ASSUME NEW m \in TaskSet PROVE [m EXCEPT !.n = @ + 1] \in TaskSet
  <2>1. m \in TaskSet
    BY <1>4
  <2>2. m.n \in Nat
    BY <2>1 DEF TaskSet
  <2>3. m.n + 1 \in Nat
    BY <2>2
  <2>. QED BY <2>1, <2>3 DEF TaskSet
<1>5. \A pid \in Nat, name \in {"create", "points", "failview", "hook", "failwrite"},
         arg \in TossStatuses \union {""} : Step(name, arg, pid) \in StepSet
  BY DEF Step, StepSet
<1>6. /\ \A t \in TossStatuses : Report(t) \in TossStatuses
      /\ \A t \in Approved : Report(t) \in {"DONE", "WAITING_FOR_DEPOSIT"}
  BY DEF Report, TossStatuses, Approved, Charged
<1>. QED BY <1>1, <1>2, <1>3, <1>4, <1>5, <1>6

(* What one order's share of the state consists of. *)
LEMMA OrderTypes ==
  ASSUME TypeOK, NEW o \in Orders
  PROVE  /\ db[o] \in Rows /\ db[o].pid \in Nat /\ db[o].pay \in PayStatuses
         /\ db[o].status \in OrderStatuses
         /\ toss[o] \in TossStatuses /\ tasks[o] \in SUBSET TaskSet
         /\ open[o] \in SUBSET StepSet
  BY DEF TypeOK, Rows

-----------------------------------------------------------------------------
(* One lemma per group of actions. *)

(* The payment views and PaymentService keep every type. *)
LEMMA CustomerStepTypes ==
  ASSUME TypeOK, NEW o \in Orders, CustomerStep(o)
  PROVE  TypeOK'
<1>. USE OrderTypes
<1>. /\ "IN_PROGRESS" \in TossStatuses /\ "DONE" \in TossStatuses /\ "ABORTED" \in TossStatuses
     /\ "WAITING_FOR_DEPOSIT" \in TossStatuses /\ "CANCELED" \in TossStatuses
  BY DEF TossStatuses
<1>. /\ "aborted" \in PayStatuses /\ "canceled" \in PayStatuses /\ "in_progress" \in PayStatuses
     /\ "canceled" \in OrderStatuses
  BY DEF PayStatuses, OrderStatuses
<1>1. CASE RequestPayment(o)
  BY <1>1, SetRowTypes, PrimitiveRows DEF RequestPayment, TypeOK
<1>2. CASE RequestStalls(o)
  BY <1>2, StepTypes, MessageTypes DEF RequestStalls, TypeOK
<1>3. CASE RequestResumes(o)
  BY <1>3, SetRowTypes, PrimitiveRows, StepTypes DEF RequestResumes, TypeOK
<1>4. CASE Authenticate(o)
  BY <1>4, SetTossTypes DEF Authenticate, TypeOK
<1>5. CASE ConfirmAsync(o)
  <2>1. ConfirmTask(0, db[o].pid) \in TaskSet
    BY MessageTypes
  <2>2. [db[o] EXCEPT !.pay = "in_progress"] \in Rows
    BY PrimitiveRows
  <2>. QED BY <1>5, <2>1, <2>2, SetRowTypes, PublishTypes DEF ConfirmAsync, TypeOK
<1>6. CASE ConfirmPublishFails(o)
  BY <1>6, SetRowTypes, PrimitiveRows, FaultTypes DEF ConfirmPublishFails, TypeOK
<1>7. CASE ConfirmSync(o)
  <2>1. SyncDone(db[o]) \in Rows /\ MarkAsWaiting(db[o]) \in Rows
    BY PayOrderRow, EarnPointsRow, PrimitiveRows DEF SyncDone
  <2>2. /\ toss' \in [Orders -> TossStatuses] /\ hooks' \in [Orders -> SUBSET Windows]
        /\ db' \in [Orders -> Rows]
    BY <1>7, <2>1, SetTossTypes, SetRowTypes DEF ConfirmSync, TypeOK
  <2>. QED BY <1>7, <2>2 DEF ConfirmSync, TypeOK
<1>8. CASE FailViewReads(o)
  BY <1>8, StepTypes, MessageTypes DEF FailViewReads, TypeOK
<1>9. ASSUME NEW s \in open[o], FailViewWrites(o, s) PROVE TypeOK'
  <2>1. SaveAsFailed(db[o], "aborted") \in Rows
    BY PrimitiveRows
  <2>. QED BY <1>9, <2>1, SetRowTypes, StepTypes DEF FailViewWrites, TypeOK
<1>10. CASE PointsOnlyPayment(o)
  BY <1>10, SetRowTypes, CompletePointsOnlyRow DEF PointsOnlyPayment, TypeOK
<1>11. CASE PointsOnlyStalls(o)
  BY <1>11, StepTypes, MessageTypes DEF PointsOnlyStalls, TypeOK
<1>12. CASE PointsOnlyResumes(o)
  BY <1>12, SetRowTypes, CompletePointsOnlyRow, StepTypes DEF PointsOnlyResumes, TypeOK
<1>13. CASE CancelByCustomer(o)
  BY <1>13, SetRowTypes, CancelOrderRow DEF CancelByCustomer, TypeOK
<1>14. CASE CancelVirtualAccount(o)
  <2>1. CancelOrder(MarkAsCanceled(db[o]), "canceled") \in Rows
    BY PrimitiveRows, CancelOrderRow
  <2>2. db' \in [Orders -> Rows]
    BY <1>14, <2>1, SetRowTypes DEF CancelVirtualAccount, TypeOK
  <2>. QED BY <1>14, <2>2, SetTossTypes DEF CancelVirtualAccount, TypeOK
<1>15. CASE CancelPayment(o)
  <2>1. db' \in [Orders -> Rows]
    BY <1>15, RefundPaymentRow, SetRowTypes DEF CancelPayment, TypeOK
  <2>. QED BY <1>15, <2>1, SetTossTypes DEF CancelPayment, TypeOK
<1>. QED
  BY <1>1, <1>2, <1>3, <1>4, <1>5, <1>6, <1>7, <1>8, <1>9, <1>10, <1>11, <1>12, <1>13, <1>14,
     <1>15 DEF CustomerStep

(* The Celery tasks of a payment keep every type. *)
LEMMA WorkerStepTypes ==
  ASSUME TypeOK, NEW o \in Orders, WorkerStep(o)
  PROVE  TypeOK'
<1>. USE OrderTypes
<1>. "aborted" \in PayStatuses /\ "canceled" \in OrderStatuses
  BY DEF PayStatuses, OrderStatuses
<1>. /\ {"confirm_unresolved"} \in SUBSET AlertSet /\ {"finalize_exhausted"} \in SUBSET AlertSet
     /\ {"canceled_order_charged"} \in SUBSET AlertSet
  BY DEF AlertSet
<1>. RollbackTask \in TaskSet /\ PointsTask \in TaskSet
  BY MessageTypes
<1>1. ASSUME NEW m \in tasks[o], NEW t \in TossStatuses,
             NEW reply \in {"DONE", "WAITING_FOR_DEPOSIT", "refused", "unreachable", "unsure"},
             CallTossConfirm(o, m, t, reply)
      PROVE  TypeOK'
  <2>1. m \in TaskSet /\ m.pid \in Nat
    BY DEF TaskSet
  <2>2. toss' \in [Orders -> TossStatuses] /\ hooks' \in [Orders -> SUBSET Windows]
    BY <1>1, SetTossTypes DEF CallTossConfirm
  <2>. USE <2>1, <2>2, FinishTypes
  <2>3. CASE /\ reply \in {"DONE", "WAITING_FOR_DEPOSIT"}
             /\ Finish(o, m, {FinalizeTask(0, reply, m.pid)})
             /\ UNCHANGED <<db, alerts>>
    <3>1. FinalizeTask(0, reply, m.pid) \in TaskSet
      BY <2>3, MessageTypes
    <3>. QED BY <1>1, <2>3, <3>1 DEF CallTossConfirm, TypeOK
  <2>4. CASE Finish(o, m, {[m EXCEPT !.n = @ + 1]}) /\ UNCHANGED <<db, alerts>>
    <3>1. {[m EXCEPT !.n = @ + 1]} \in SUBSET TaskSet
      BY MessageTypes
    <3>. QED BY <1>1, <2>4, <3>1 DEF CallTossConfirm, TypeOK
  <2>5. CASE /\ SetRow(o, MarkAsFailed(db[o], "aborted"))
             /\ Finish(o, m, {RollbackTask})
             /\ UNCHANGED alerts
    <3>1. MarkAsFailed(db[o], "aborted") \in Rows
      BY PrimitiveRows
    <3>. QED BY <1>1, <2>5, <3>1, SetRowTypes DEF CallTossConfirm, TypeOK
  <2>6. CASE /\ Alert(o, {"confirm_unresolved"})
             /\ Finish(o, m, {})
             /\ UNCHANGED db
    BY <1>1, <2>6, AlertTypes DEF CallTossConfirm, TypeOK
  <2>. QED BY <1>1, <2>3, <2>4, <2>5, <2>6 DEF CallTossConfirm
<1>2. ASSUME NEW m \in tasks[o], FinalizeConfirm(o, m) PROVE TypeOK'
  <2>1. MarkAsWaiting(db[o]) \in Rows /\ FinalizeDone(db[o]) \in Rows
    BY PrimitiveRows, FinalizeDoneRow
  <2>2. db' \in [Orders -> Rows]
    BY <1>2, <2>1, SetRowTypes DEF FinalizeConfirm, TypeOK
  <2>3. tasks' \in [Orders -> SUBSET TaskSet] /\ faults' \in [Orders -> Nat]
    BY <1>2, FinishTypes DEF FinalizeConfirm
  <2>4. alerts' \in [Orders -> SUBSET AlertSet]
    BY <1>2, AlertTypes DEF FinalizeConfirm, TypeOK
  <2>. QED BY <1>2, <2>2, <2>3, <2>4 DEF FinalizeConfirm, TypeOK
<1>3. ASSUME NEW m \in tasks[o], FinalizeFails(o, m) PROVE TypeOK'
  <2>1. {[m EXCEPT !.n = @ + 1]} \in SUBSET TaskSet
    BY MessageTypes
  <2>2. tasks' \in [Orders -> SUBSET TaskSet] /\ faults' \in [Orders -> Nat]
    BY <1>3, <2>1, FinishTypes DEF FinalizeFails
  <2>3. alerts' \in [Orders -> SUBSET AlertSet]
    BY <1>3, AlertTypes DEF FinalizeFails, TypeOK
  <2>. QED BY <1>3, <2>2, <2>3 DEF FinalizeFails, TypeOK
<1>4. CASE RollbackPaymentFailure(o)
  <2>1. db' \in [Orders -> Rows]
    BY <1>4, RollbackFailureRow, SetRowTypes DEF RollbackPaymentFailure
  <2>. QED BY <1>4, <2>1, FinishTypes DEF RollbackPaymentFailure, TypeOK
<1>5. CASE AddPointsAfterPayment(o)
  <2>1. db' \in [Orders -> Rows]
    BY <1>5, EarnPointsRow, SetRowTypes DEF AddPointsAfterPayment
  <2>. QED BY <1>5, <2>1, FinishTypes DEF AddPointsAfterPayment, TypeOK
<1>6. ASSUME NEW m \in tasks[o], LoseTask(o, m) PROVE TypeOK'
  <2>1. tasks' \in [Orders -> SUBSET TaskSet]
    BY <1>6 DEF LoseTask, TypeOK
  <2>. QED BY <1>6, <2>1, FaultTypes DEF LoseTask, TypeOK
<1>. QED
  BY <1>1, <1>2, <1>3, <1>4, <1>5, <1>6 DEF WorkerStep, ConfirmStep, FinalizeStep

(* The Beat sweeps keep every type. *)
LEMMA SweepStepTypes ==
  ASSUME TypeOK, NEW o \in Orders, SweepStep(o)
  PROVE  TypeOK'
<1>. USE OrderTypes
<1>1. CASE DetectOrphanedOrders(o)
  BY <1>1, PublishTypes, MessageTypes DEF DetectOrphanedOrders, TypeOK
<1>2. CASE ReconcileStalledPayments(o)
  <2>1. CASE toss[o] \in Approved
    <3>1. FinalizeTask(0, Report(toss[o]), db[o].pid) \in TaskSet
      BY <2>1, MessageTypes
    <3>. QED BY <1>2, <2>1, <3>1, PublishTypes DEF ReconcileStalledPayments, TypeOK
  <2>2. CASE toss[o] \notin Approved
    <3>1. {"stalled_unresolved"} \in SUBSET AlertSet
      BY DEF AlertSet
    <3>. QED BY <1>2, <2>2, <3>1, AlertTypes DEF ReconcileStalledPayments, TypeOK
  <2>. QED BY <2>1, <2>2
<1>3. CASE ExpireUnpaidOrders(o)
  <2>1. "expired" \in PayStatuses
    BY DEF PayStatuses
  <2>. QED BY <1>3, <2>1, SetRowTypes, CancelOrderRow DEF ExpireUnpaidOrders, TypeOK
<1>. QED BY <1>1, <1>2, <1>3 DEF SweepStep

(* The webhook handlers write only statuses of a Payment row. *)
LEMMA HandlerStepTypes ==
  ASSUME TypeOK, NEW o \in Orders, HandlerStep(o)
  PROVE  TypeOK'
<1>. USE OrderTypes
<1>. {"points_not_reclaimed"} \in SUBSET AlertSet
  BY DEF AlertSet
<1>1. CASE HandlePaymentDone(o)
  <2>1. WebhookDone(db[o]) \in Rows /\ DoneAlerts(db[o]) \in SUBSET AlertSet
    BY WebhookDoneRow DEF DoneAlerts
  <2>2. db' \in [Orders -> Rows]
    BY <1>1, <2>1, SetRowTypes DEF HandlePaymentDone, TypeOK
  <2>3. alerts' \in [Orders -> SUBSET AlertSet]
    BY <1>1, <2>1, AlertTypes DEF HandlePaymentDone, TypeOK
  <2>4. dedup' \in [Orders -> SUBSET {"DONE", "CANCELED"}]
    BY <1>1 DEF HandlePaymentDone, TypeOK
  <2>5. hooks' \in [Orders -> SUBSET Windows]
    BY <1>1 DEF HandlePaymentDone, TypeOK, Windows
  <2>. QED BY <1>1, <2>2, <2>3, <2>4, <2>5, StepTypes DEF HandlePaymentDone, TypeOK
<1>2. ASSUME NEW reclaimed \in BOOLEAN, HandlePaymentCanceled(o, reclaimed) PROVE TypeOK'
  <2>1. db' \in [Orders -> Rows]
    BY <1>2, WebhookCanceledRow, SetRowTypes DEF HandlePaymentCanceled, TypeOK
  <2>2. alerts' \in [Orders -> SUBSET AlertSet]
    BY <1>2, AlertTypes DEF HandlePaymentCanceled, TypeOK
  <2>3. dedup' \in [Orders -> SUBSET {"DONE", "CANCELED"}]
    BY <1>2 DEF HandlePaymentCanceled, TypeOK
  <2>. QED BY <1>2, <2>1, <2>2, <2>3, StepTypes DEF HandlePaymentCanceled, TypeOK
<1>3. ASSUME NEW reclaimed \in BOOLEAN, HandleWaitingForDeposit(o, reclaimed) PROVE TypeOK'
  <2>1. db' \in [Orders -> Rows]
    BY <1>3, WebhookWaitingRow, SetRowTypes DEF HandleWaitingForDeposit, TypeOK
  <2>2. alerts' \in [Orders -> SUBSET AlertSet]
    BY <1>3, AlertTypes DEF HandleWaitingForDeposit, TypeOK
  <2>. QED BY <1>3, <2>1, <2>2, StepTypes DEF HandleWaitingForDeposit, TypeOK
<1>4. ASSUME NEW status \in {"ABORTED", "EXPIRED"}, HandleFailedReads(o, status) PROVE TypeOK'
  <2>1. Step("failwrite", status, db[o].pid) \in StepSet
    BY MessageTypes DEF TossStatuses
  <2>2. open' \in [Orders -> SUBSET StepSet]
    BY <1>4, <2>1 DEF HandleFailedReads, TypeOK
  <2>. QED BY <1>4, <2>2 DEF HandleFailedReads, TypeOK
<1>5. ASSUME NEW s \in open[o], HandleFailedWrites(o, s) PROVE TypeOK'
  <2>1. SaveAsFailed(db[o], "expired") \in Rows /\ SaveAsFailed(db[o], "aborted") \in Rows
    BY PrimitiveRows DEF PayStatuses, OrderStatuses
  <2>2. db' \in [Orders -> Rows]
    BY <1>5, <2>1, SetRowTypes DEF HandleFailedWrites, TypeOK
  <2>3. tasks' \in [Orders -> SUBSET TaskSet]
    BY <1>5, PublishTypes, MessageTypes DEF HandleFailedWrites, TypeOK
  <2>. QED BY <1>5, <2>2, <2>3, StepTypes DEF HandleFailedWrites, TypeOK
<1>6. CASE IgnoreWebhook(o)
  BY <1>6, StepTypes DEF IgnoreWebhook, TypeOK
<1>. QED BY <1>1, <1>2, <1>3, <1>4, <1>5, <1>6 DEF HandlerStep

(* Delivery, handling and deduplication of webhooks keep every type. *)
LEMMA WebhookStepTypes ==
  ASSUME TypeOK, NEW o \in Orders, WebhookStep(o)
  PROVE  TypeOK'
<1>1. ASSUME NEW w \in Windows, WebhookArrives(o, w) PROVE TypeOK'
  <2>1. Lookup(o, w) \in TossStatuses
    BY OrderTypes, MessageTypes DEF Lookup, TossStatuses
  <2>2. Step("hook", Lookup(o, w), 0) \in StepSet
    BY <2>1, MessageTypes
  <2>3. hooks' \in [Orders -> SUBSET Windows]
    BY <1>1 DEF WebhookArrives, TypeOK
  <2>. QED BY <1>1, <2>2, <2>3, StepTypes DEF WebhookArrives, TypeOK
<1>2. ASSUME NEW status \in {"DONE", "CANCELED"}, DedupExpires(o, status) PROVE TypeOK'
  BY <1>2 DEF DedupExpires, TypeOK
<1>. QED BY <1>1, <1>2, HandlerStepTypes DEF WebhookStep

(* What Toss does on its own keeps every type. *)
LEMMA TossStepTypes ==
  ASSUME TypeOK, NEW o \in Orders, TossStep(o)
  PROVE  TypeOK'
<1>. /\ "DEPOSITED" \in TossStatuses /\ "EXPIRED" \in TossStatuses /\ "CANCELED" \in TossStatuses
     /\ "WAITING_FOR_DEPOSIT" \in TossStatuses
  BY DEF TossStatuses
<1>1. CASE TossDeposit(o)
  BY <1>1, SetTossTypes DEF TossDeposit, TypeOK
<1>2. CASE TossExpires(o)
  BY <1>2, SetTossTypes DEF TossExpires, TypeOK
<1>3. CASE TossDashboardCancel(o)
  BY <1>3, SetTossTypes DEF TossDashboardCancel, TypeOK
<1>4. CASE TossRevertsDeposit(o)
  BY <1>4, SetTossTypes DEF TossRevertsDeposit, TypeOK
<1>5. CASE AbandonedWindowExpires(o)
  <2>1. hooks' \in [Orders -> SUBSET Windows]
    BY <1>5 DEF AbandonedWindowExpires, TypeOK, Windows
  <2>. QED BY <1>5, <2>1, FaultTypes DEF AbandonedWindowExpires, TypeOK
<1>. QED BY <1>1, <1>2, <1>3, <1>4, <1>5 DEF TossStep

(* A confirmed order without a payment is well typed. *)
LEMMA InitTypes == Init => TypeOK
<1>1. ASSUME NEW free \in BOOLEAN PROVE ConfirmedOrder(free) \in Rows
  BY <1>1 DEF ConfirmedOrder, Rows, OrderStatuses, PayStatuses
<1>. QED BY <1>1 DEF Init, TypeOK, TossStatuses

(* Whatever the orders, the retry limits and the environment, no action     *)
(* writes a status, message or alert outside the sets the code knows.       *)
THEOREM TypesAreKept == Spec => []TypeOK
<1>1. TypeOK /\ [Next]_vars => TypeOK'
  <2>. SUFFICES ASSUME TypeOK, [Next]_vars PROVE TypeOK'
    OBVIOUS
  <2>1. ASSUME NEW o \in Orders, OrderStep(o) PROVE TypeOK'
    BY <2>1, CustomerStepTypes, WorkerStepTypes, SweepStepTypes, WebhookStepTypes, TossStepTypes
    DEF OrderStep
  <2>2. CASE UNCHANGED vars
    BY <2>2 DEF vars, TypeOK
  <2>. QED BY <2>1, <2>2 DEF Next
<1>. QED BY <1>1, InitTypes, PTL DEF Spec

-----------------------------------------------------------------------------
(* The writes to one order's share of the state, at that order. *)

(* What SetRow writes, and that it leaves the other orders alone. *)
LEMMA SetRowAt ==
  ASSUME TypeOK, NEW o \in Orders, NEW r, SetRow(o, r)
  PROVE  db'[o] = r /\ \A p \in Orders : p # o => db'[p] = db[p]
  BY DEF TypeOK, SetRow

(* What Publish queues, and that it leaves the other orders alone. *)
LEMMA PublishAt ==
  ASSUME TypeOK, NEW o \in Orders, NEW new, Publish(o, new)
  PROVE  tasks'[o] = tasks[o] \union new /\ \A p \in Orders : p # o => tasks'[p] = tasks[p]
  BY DEF TypeOK, Publish

(* What Begin opens, and that it leaves the other orders alone. *)
LEMMA BeginAt ==
  ASSUME TypeOK, NEW o \in Orders, NEW s, Begin(o, s)
  PROVE  open'[o] = open[o] \union {s} /\ \A p \in Orders : p # o => open'[p] = open[p]
  BY DEF TypeOK, Begin

(* What End closes, and that it leaves the other orders alone. *)
LEMMA EndAt ==
  ASSUME TypeOK, NEW o \in Orders, NEW s, End(o, s)
  PROVE  open'[o] = open[o] \ {s} /\ \A p \in Orders : p # o => open'[p] = open[p]
  BY DEF TypeOK, End

-----------------------------------------------------------------------------
(* An action of one order leaves the others alone. *)

Same(p) == /\ db'[p] = db[p] /\ toss'[p] = toss[p] /\ tasks'[p] = tasks[p]
           /\ hooks'[p] = hooks[p] /\ open'[p] = open[p] /\ alerts'[p] = alerts[p]

(* A customer's request touches the order it names and no other. *)
LEMMA CustomerFrame ==
  ASSUME TypeOK, NEW o \in Orders, CustomerStep(o), NEW p \in Orders, p # o
  PROVE  Same(p)
<1>1. CASE RequestPayment(o) \/ RequestStalls(o) \/ RequestResumes(o) \/ Authenticate(o)
  BY <1>1
  DEF SetRow, SetToss, Begin, End, RequestPayment, RequestStalls, RequestResumes, Authenticate, Same, Alert, TypeOK
<1>2. CASE ConfirmAsync(o) \/ ConfirmPublishFails(o) \/ ConfirmSync(o)
  BY <1>2
  DEF SetRow, SetToss, Publish, ConfirmAsync, ConfirmPublishFails, ConfirmSync, Same, Alert, TypeOK
<1>3. CASE FailViewReads(o) \/ \E s \in open[o] : FailViewWrites(o, s)
  BY <1>3 DEF SetRow, Begin, End, FailViewReads, FailViewWrites, Same, Alert, TypeOK
<1>4. CASE PointsOnlyPayment(o) \/ PointsOnlyStalls(o) \/ PointsOnlyResumes(o)
  BY <1>4
  DEF SetRow, Begin, End, PointsOnlyPayment, PointsOnlyStalls, PointsOnlyResumes, Same, Alert, TypeOK
<1>5. CASE CancelByCustomer(o) \/ CancelVirtualAccount(o) \/ CancelPayment(o)
  BY <1>5 DEF SetRow, SetToss, CancelByCustomer, CancelVirtualAccount, CancelPayment, Same, Alert, TypeOK
<1>. QED BY <1>1, <1>2, <1>3, <1>4, <1>5 DEF CustomerStep

(* A payment task touches the order it names and no other. *)
LEMMA WorkerFrame ==
  ASSUME TypeOK, NEW o \in Orders, WorkerStep(o), NEW p \in Orders, p # o
  PROVE  Same(p)
<1>1. ASSUME NEW m, NEW t, NEW reply, CallTossConfirm(o, m, t, reply) PROVE Same(p)
  BY <1>1 DEF SetRow, SetToss, Finish, Publish, CallTossConfirm, Same, Alert, TypeOK
<1>2. ASSUME NEW m, FinalizeConfirm(o, m) PROVE Same(p)
  BY <1>2 DEF SetRow, Finish, Publish, FinalizeConfirm, Same, Alert, TypeOK
<1>3. ASSUME NEW m, FinalizeFails(o, m) PROVE Same(p)
  BY <1>3 DEF Finish, Publish, FinalizeFails, Same, Alert, TypeOK
<1>4. CASE RollbackPaymentFailure(o) \/ AddPointsAfterPayment(o)
  BY <1>4 DEF SetRow, Finish, Publish, RollbackPaymentFailure, AddPointsAfterPayment, Same, Alert, TypeOK
<1>5. ASSUME NEW m, LoseTask(o, m) PROVE Same(p)
  BY <1>5 DEF LoseTask, Same, Alert, TypeOK
<1>. QED BY <1>1, <1>2, <1>3, <1>4, <1>5 DEF WorkerStep, ConfirmStep, FinalizeStep

(* A sweep handles one order per transaction. *)
LEMMA SweepFrame ==
  ASSUME TypeOK, NEW o \in Orders, SweepStep(o), NEW p \in Orders, p # o
  PROVE  Same(p)
  BY DEF SetRow, Publish, SweepStep, DetectOrphanedOrders, ReconcileStalledPayments, ExpireUnpaidOrders, Same, Alert, TypeOK

(* A webhook touches the order it names and no other. *)
LEMMA WebhookFrame ==
  ASSUME TypeOK, NEW o \in Orders, WebhookStep(o), NEW p \in Orders, p # o
  PROVE  Same(p)
  BY DEF SetRow, Publish, Begin, End, WebhookStep, HandlerStep, WebhookArrives, HandlePaymentDone, HandlePaymentCanceled,
      HandleWaitingForDeposit, HandleFailedReads, HandleFailedWrites, IgnoreWebhook,
      DedupExpires, Same, Alert, TypeOK

(* Toss moves one payment at a time. *)
LEMMA TossFrame ==
  ASSUME TypeOK, NEW o \in Orders, TossStep(o), NEW p \in Orders, p # o
  PROVE  Same(p)
  BY DEF SetToss, TossStep, TossDeposit, TossExpires, TossDashboardCancel, TossRevertsDeposit,
      AbandonedWindowExpires, Same, Alert, TypeOK

(* No step for one order changes anything of another order. *)
LEMMA Frame ==
  ASSUME TypeOK, NEW o \in Orders, OrderStep(o), NEW p \in Orders, p # o
  PROVE  Same(p)
  BY CustomerFrame, WorkerFrame, SweepFrame, WebhookFrame, TossFrame DEF OrderStep

(* What a confirm call can do to Toss, and what its answers mean. *)
LEMMA ConfirmReplyFacts ==
  ASSUME NEW was \in TossStatuses, NEW t, NEW reply, <<t, reply>> \in ConfirmReplies(was)
  PROVE  /\ t = was \/ (was = "IN_PROGRESS" /\ t \in {"DONE", "WAITING_FOR_DEPOSIT", "ABORTED"})
         /\ reply \in {"DONE", "WAITING_FOR_DEPOSIT"} => t \in Approved /\ reply = Report(t)
<1>1. CASE was = "IN_PROGRESS"
  BY <1>1 DEF ConfirmReplies, Approved, Charged, Report
<1>2. CASE was \in Approved
  BY <1>2 DEF ConfirmReplies, Approved, Charged, Report
<1>3. CASE was \notin Approved \union {"IN_PROGRESS"}
  BY <1>3 DEF ConfirmReplies
<1>. QED BY <1>1, <1>2, <1>3

-----------------------------------------------------------------------------

(* The statuses in which Toss has approved nothing. *)
Unapproved == {"NONE", "IN_PROGRESS", "ABORTED"}

(* The earn row is written with the first credit and never removed. *)
EarnInv(o) == db[o].credit <= 1 /\ (~db[o].earnRow => db[o].credit <= 0)

AlertInv(o) ==
  db[o].status = "canceled" /\ db[o].pay = "done" => "canceled_order_charged" \in alerts[o]

(* Whoever is about to pay the order has seen Toss approve it, or the order *)
(* costs nothing.                                                           *)
ApprovalInv(o) ==
  /\ db[o].status = "paid" /\ ~db[o].free => toss[o] \notin Unapproved
  /\ \A m \in tasks[o] : m.kind = "finalize" => toss[o] \notin Unapproved
  /\ \A s \in open[o] : s.name = "hook" /\ s.arg = "DONE" => toss[o] \notin Unapproved
  /\ \A s \in open[o] : s.name = "points" => db[o].free

AlwaysInv(o) == EarnInv(o) /\ AlertInv(o) /\ ApprovalInv(o)

(* An order whose share of the state is unchanged keeps the invariant. *)
LEMMA SameAlways ==
  ASSUME NEW p, Same(p), AlwaysInv(p)
  PROVE  AlwaysInv(p)'
  BY DEF Same, AlwaysInv, EarnInv, AlertInv, ApprovalInv

(* A row write that leaves points, the sale and a canceled charge alone. *)
Harmless(q, r) ==
  /\ q.free = r.free /\ q.earnRow = r.earnRow /\ q.credit <= r.credit
  /\ q.status = "paid" => r.status = "paid"
  /\ q.status = "canceled" /\ q.pay = "done" => r.status = "canceled" /\ r.pay = "done"

(* The row operators that neither charge nor credit an order. *)
LEMMA HarmlessRows ==
  ASSUME NEW r \in Rows, NEW reclaimed \in BOOLEAN
  PROVE  /\ Harmless(r, r)
         /\ Harmless(CreatePayment(r), r)
         /\ Harmless([r EXCEPT !.pay = "in_progress"], r)
         /\ Harmless(SaveAsFailed(r, "aborted"), r)
         /\ Harmless(SaveAsFailed(r, "expired"), r)
         /\ Harmless(MarkAsFailed(r, "aborted"), r)
         /\ Harmless(MarkAsWaiting(r), r)
         /\ Harmless(CancelOrder(r, "canceled"), r)
         /\ Harmless(CancelOrder(r, "expired"), r)
         /\ Harmless(CancelOrder(MarkAsCanceled(r), "canceled"), r)
         /\ Harmless(RollbackFailure(r), r)
         /\ Harmless(RefundPayment(r), r)
         /\ Harmless(WebhookCanceled(r, reclaimed), r)
         /\ Harmless(WebhookWaiting(r, reclaimed), r)
<1>. "canceled" \in PayStatuses /\ "expired" \in PayStatuses /\ "aborted" \in PayStatuses
  BY DEF PayStatuses
<1>1. Harmless(r, r)
  BY DEF Harmless, Rows
<1>2. Harmless(CreatePayment(r), r)
  BY DEF Harmless, CreatePayment, Rows
<1>3. Harmless([r EXCEPT !.pay = "in_progress"], r)
  BY DEF Harmless, Rows
<1>4. Harmless(SaveAsFailed(r, "aborted"), r) /\ Harmless(SaveAsFailed(r, "expired"), r)
  BY DEF Harmless, SaveAsFailed, Rows
<1>5. Harmless(MarkAsFailed(r, "aborted"), r) /\ Harmless(MarkAsWaiting(r), r)
  BY DEF Harmless, MarkAsFailed, MarkAsWaiting, Rows
<1>6. Harmless(CancelOrder(r, "canceled"), r) /\ Harmless(CancelOrder(r, "expired"), r)
  BY CancelOrderRow DEF Harmless, Rows
<1>7. Harmless(CancelOrder(MarkAsCanceled(r), "canceled"), r)
  <2>. DEFINE c == MarkAsCanceled(r)
  <2>1. c \in Rows
    BY PrimitiveRows DEF OrderStatuses, PayStatuses
  <2>2. c.free = r.free /\ c.earnRow = r.earnRow /\ c.credit = r.credit
    BY DEF MarkAsCanceled, Rows
  <2>. HIDE DEF c
  <2>3. CancelOrder(c, "canceled").pay # "done"
    BY <2>1, CancelOrderRow
  <2>4. /\ CancelOrder(c, "canceled").free = c.free /\ CancelOrder(c, "canceled").earnRow = c.earnRow
        /\ CancelOrder(c, "canceled").credit = c.credit
        /\ CancelOrder(c, "canceled").status = "canceled"
    BY <2>1, CancelOrderRow
  <2>5. Harmless(CancelOrder(c, "canceled"), r)
    BY <2>2, <2>3, <2>4 DEF Harmless, Rows
  <2>. QED BY <2>5 DEF c
<1>8. Harmless(RollbackFailure(r), r)
  BY RollbackFailureRow DEF Harmless, Rows
<1>9. Harmless(RefundPayment(r), r)
  BY RefundPaymentRow DEF Harmless, Rows
<1>10. Harmless(WebhookCanceled(r, reclaimed), r)
  BY WebhookCanceledRow DEF Harmless, Rows
<1>11. Harmless(WebhookWaiting(r, reclaimed), r)
  BY WebhookWaitingRow DEF Harmless, Rows
<1>. QED BY <1>1, <1>2, <1>3, <1>4, <1>5, <1>6, <1>7, <1>8, <1>9, <1>10, <1>11

(* What an action may add around a harmless row write: Toss does not go     *)
(* back to an unapproved status, and new finalize messages, DONE lookups    *)
(* and stalled points payments have their reason.                           *)
Justified(o) ==
  /\ toss'[o] \in Unapproved => toss[o] \in Unapproved
  /\ alerts[o] \subseteq alerts'[o]
  /\ \A m \in tasks'[o] : m.kind = "finalize" => m \in tasks[o] \/ toss'[o] \notin Unapproved
  /\ \A s \in open'[o] :
       \/ s \in open[o]
       \/ s.name \notin {"hook", "points"}
       \/ s.name = "hook" /\ (s.arg = "DONE" => toss'[o] \notin Unapproved)
       \/ s.name = "points" /\ db[o].free

(* Writing such a row keeps the invariant. *)
LEMMA HarmlessKeeps ==
  ASSUME TypeOK, NEW o \in Orders, AlwaysInv(o), TypeOK', Harmless(db'[o], db[o]), Justified(o)
  PROVE  AlwaysInv(o)'
<1>1. db[o].credit \in Int /\ db'[o].credit \in Int
  BY DEF TypeOK, Rows
<1>2. EarnInv(o)' /\ AlertInv(o)'
  BY <1>1 DEF AlwaysInv, EarnInv, AlertInv, Harmless, Justified
<1>3. ApprovalInv(o)'
  BY DEF AlwaysInv, ApprovalInv, Harmless, Justified
<1>. QED BY <1>2, <1>3 DEF AlwaysInv

(* A payment of the order: the other kind of row write. *)
LEMMA PayingKeeps ==
  ASSUME TypeOK, NEW o \in Orders, AlwaysInv(o), TypeOK', Justified(o),
         db'[o].status = "paid", db'[o].free = db[o].free,
         db[o].free \/ toss'[o] \notin Unapproved,
         \/ db'[o].earnRow = db[o].earnRow /\ db'[o].credit = db[o].credit
         \/ ~db[o].earnRow /\ db'[o].earnRow = TRUE /\ db'[o].credit = db[o].credit + 1
  PROVE  AlwaysInv(o)'
<1>1. db[o].credit \in Int /\ db'[o].credit \in Int
  BY DEF TypeOK, Rows
<1>2. EarnInv(o)'
  BY <1>1 DEF AlwaysInv, EarnInv
<1>3. AlertInv(o)' /\ ApprovalInv(o)'
  BY DEF AlwaysInv, AlertInv, ApprovalInv, Justified
<1>. QED BY <1>2, <1>3 DEF AlwaysInv

(* The payment views and PaymentService keep the invariant. *)
LEMMA CustomerAlways ==
  ASSUME TypeOK, NEW o \in Orders, AlwaysInv(o), CustomerStep(o)
  PROVE  AlwaysInv(o)'
<1>. DEFINE r == db[o]
<1>. USE OrderTypes, CustomerStepTypes, HarmlessRows
<1>0. r \in Rows /\ TypeOK'
  OBVIOUS
<1>1. CASE RequestPayment(o) \/ RequestResumes(o)
  <2>1. /\ db'[o] = CreatePayment(r) /\ UNCHANGED <<toss, tasks, alerts>>
        /\ open'[o] \subseteq open[o]
    BY <1>1, SetRowAt, EndAt DEF RequestPayment, RequestResumes
  <2>. QED BY <2>1, HarmlessKeeps DEF Justified
<1>2. CASE RequestStalls(o)
  <2>1. Step("create", "", 0).name = "create"
    BY DEF Step
  <2>2. /\ UNCHANGED <<db, toss, tasks, alerts>>
        /\ open'[o] = open[o] \union {Step("create", "", 0)}
    BY <1>2, BeginAt DEF RequestStalls
  <2>. QED BY <2>1, <2>2, HarmlessKeeps DEF Justified
<1>3. CASE Authenticate(o)
  <2>1. toss[o] = "NONE" /\ UNCHANGED <<db, tasks, open, alerts>>
    BY <1>3 DEF Authenticate
  <2>. QED BY <2>1, HarmlessKeeps DEF Justified, Unapproved
<1>4. CASE ConfirmAsync(o)
  <2>1. ConfirmTask(0, r.pid).kind = "confirm"
    BY DEF ConfirmTask, Task
  <2>2. /\ db'[o] = [r EXCEPT !.pay = "in_progress"] /\ UNCHANGED <<toss, open, alerts>>
        /\ tasks'[o] = tasks[o] \union {ConfirmTask(0, r.pid)}
    BY <1>4, SetRowAt, PublishAt DEF ConfirmAsync
  <2>. QED BY <2>1, <2>2, HarmlessKeeps DEF Justified
<1>5. CASE ConfirmPublishFails(o)
  <2>1. db'[o] = SaveAsFailed(r, "aborted") /\ UNCHANGED <<toss, tasks, open, alerts>>
    BY <1>5, SetRowAt DEF ConfirmPublishFails
  <2>. QED BY <2>1, HarmlessKeeps DEF Justified
<1>6. CASE ConfirmSync(o)
  <2>1. toss[o] = "IN_PROGRESS" /\ UNCHANGED <<tasks, open, alerts>>
    BY <1>6 DEF ConfirmSync
  <2>2. Justified(o)
    BY <2>1 DEF Justified, Unapproved
  <2>3. \/ toss'[o] = "DONE" /\ ~r.earnRow /\ db'[o] = SyncDone(r)
        \/ db'[o] = MarkAsWaiting(r) \/ db'[o] = r
    BY <1>6, SetRowAt DEF ConfirmSync, SetToss, TypeOK
  <2>4. CASE toss'[o] = "DONE" /\ ~r.earnRow /\ db'[o] = SyncDone(r)
    <3>1. /\ PayOrder(r) \in Rows /\ PayOrder(r).status = "paid" /\ PayOrder(r).free = r.free
          /\ PayOrder(r).credit = r.credit
      BY PayOrderRow
    <3>2. /\ db'[o].status = "paid" /\ db'[o].free = r.free
          /\ db'[o].earnRow = TRUE /\ db'[o].credit = r.credit + 1
      BY <2>4, <3>1, EarnPointsRow DEF SyncDone
    <3>. QED BY <1>0, <2>2, <2>4, <3>2, PayingKeeps DEF Unapproved
  <2>. QED BY <2>2, <2>3, <2>4, HarmlessKeeps
<1>7. CASE FailViewReads(o)
  <2>1. Step("failview", "", r.pid).name = "failview"
    BY DEF Step
  <2>2. /\ UNCHANGED <<db, toss, tasks, alerts>>
        /\ open'[o] = open[o] \union {Step("failview", "", r.pid)}
    BY <1>7, BeginAt DEF FailViewReads
  <2>. QED BY <2>1, <2>2, HarmlessKeeps DEF Justified
<1>8. ASSUME NEW s \in open[o], FailViewWrites(o, s) PROVE AlwaysInv(o)'
  <2>1. /\ db'[o] \in {r, SaveAsFailed(r, "aborted")} /\ UNCHANGED <<toss, tasks, alerts>>
        /\ open'[o] \subseteq open[o]
    BY <1>8, SetRowAt, EndAt DEF FailViewWrites
  <2>. QED BY <2>1, HarmlessKeeps DEF Justified
<1>9. CASE PointsOnlyPayment(o) \/ PointsOnlyResumes(o)
  <2>1. Step("points", "", 0).name = "points"
    BY DEF Step
  <2>2. /\ db'[o] \in {r, CompletePointsOnly(r)} /\ UNCHANGED <<toss, tasks, alerts>>
        /\ open'[o] \subseteq open[o]
    BY <1>9, SetRowAt, EndAt DEF PointsOnlyPayment, PointsOnlyResumes
  <2>3. r.free
    BY <1>9, <2>1 DEF PointsOnlyPayment, PointsOnlyResumes, MayPayWithPoints, AlwaysInv, ApprovalInv
  <2>4. Justified(o)
    BY <2>2 DEF Justified
  <2>5. CASE db'[o] = CompletePointsOnly(r)
    <3>1. /\ db'[o].status = "paid" /\ db'[o].free = r.free
          /\ db'[o].earnRow = r.earnRow /\ db'[o].credit = r.credit
      BY <2>5, CompletePointsOnlyRow
    <3>. QED BY <1>0, <2>3, <2>4, <3>1, PayingKeeps
  <2>. QED BY <2>2, <2>4, <2>5, HarmlessKeeps
<1>10. CASE PointsOnlyStalls(o)
  <2>1. Step("points", "", 0).name = "points"
    BY DEF Step
  <2>2. /\ UNCHANGED <<db, toss, tasks, alerts>> /\ r.free
        /\ open'[o] = open[o] \union {Step("points", "", 0)}
    BY <1>10, BeginAt DEF PointsOnlyStalls, MayPayWithPoints
  <2>. QED BY <2>1, <2>2, HarmlessKeeps DEF Justified
<1>11. CASE CancelByCustomer(o)
  <2>1. db'[o] = CancelOrder(r, "canceled") /\ UNCHANGED <<toss, tasks, open, alerts>>
    BY <1>11, SetRowAt DEF CancelByCustomer
  <2>. QED BY <2>1, HarmlessKeeps DEF Justified
<1>12. CASE CancelVirtualAccount(o) \/ CancelPayment(o)
  <2>1. /\ db'[o] \in {r, CancelOrder(MarkAsCanceled(r), "canceled"), RefundPayment(r)}
        /\ UNCHANGED <<tasks, open, alerts>>
    BY <1>12, SetRowAt DEF CancelVirtualAccount, CancelPayment
  <2>2. toss'[o] = "CANCELED"
    BY <1>12 DEF CancelVirtualAccount, CancelPayment, SetToss, TypeOK
  <2>. QED BY <2>1, <2>2, HarmlessKeeps DEF Justified, Unapproved
<1>. QED
  BY <1>1, <1>2, <1>3, <1>4, <1>5, <1>6, <1>7, <1>8, <1>9, <1>10, <1>11, <1>12 DEF CustomerStep

(* A charge recorded on a canceled order is reported in the same step. *)
LEMMA CanceledChargeKeeps ==
  ASSUME TypeOK, NEW o \in Orders, AlwaysInv(o), Justified(o),
         db'[o].status = "canceled", db'[o].free = db[o].free,
         db'[o].earnRow = db[o].earnRow, db'[o].credit = db[o].credit,
         "canceled_order_charged" \in alerts'[o]
  PROVE  AlwaysInv(o)'
  BY DEF AlwaysInv, EarnInv, AlertInv, ApprovalInv, Justified

(* The first purchase points of an order, credited by whoever comes first. *)
LEMMA LatePointsKeep ==
  ASSUME TypeOK, NEW o \in Orders, AlwaysInv(o), Justified(o),
         ~db[o].earnRow, db'[o] = EarnPoints(db[o])
  PROVE  AlwaysInv(o)'
<1>1. db[o] \in Rows /\ db[o].credit \in Int
  BY DEF TypeOK, Rows
<1>2. /\ db'[o].status = db[o].status /\ db'[o].pay = db[o].pay /\ db'[o].free = db[o].free
      /\ db'[o].earnRow = TRUE /\ db'[o].credit = db[o].credit + 1
  BY <1>1, EarnPointsRow
<1>. QED BY <1>1, <1>2 DEF AlwaysInv, EarnInv, AlertInv, ApprovalInv, Justified

(* A task that ends queues nothing but what it publishes. *)
LEMMA FinishAdds ==
  ASSUME TypeOK, NEW o \in Orders, NEW m, NEW new, Finish(o, m, new)
  PROVE  tasks'[o] \subseteq tasks[o] \union new
  BY DEF TypeOK, Finish, Publish

(* The Celery tasks of a payment keep the invariant. *)
LEMMA WorkerAlways ==
  ASSUME TypeOK, NEW o \in Orders, AlwaysInv(o), WorkerStep(o)
  PROVE  AlwaysInv(o)'
<1>. DEFINE r == db[o]
<1>. USE OrderTypes, WorkerStepTypes, HarmlessRows
<1>0. r \in Rows /\ TypeOK' /\ RollbackTask.kind = "rollback" /\ PointsTask.kind = "points"
  BY DEF RollbackTask, PointsTask, Task
<1>1. ASSUME NEW m, NEW t, NEW reply, CallTossConfirm(o, m, t, reply) PROVE AlwaysInv(o)'
  <2>. DEFINE again == [m EXCEPT !.n = @ + 1]
              fin == FinalizeTask(0, reply, m.pid)
  <2>1. /\ m \in TaskSet /\ m.kind = "confirm" /\ <<t, reply>> \in ConfirmReplies(toss[o])
        /\ UNCHANGED open
    BY <1>1 DEF CallTossConfirm
  <2>2. /\ t = toss[o] \/ (toss[o] = "IN_PROGRESS" /\ t \in {"DONE", "WAITING_FOR_DEPOSIT", "ABORTED"})
        /\ reply \in {"DONE", "WAITING_FOR_DEPOSIT"} => t \in Approved
    BY <2>1, ConfirmReplyFacts
  <2>3. again.kind = "confirm" /\ fin.kind = "finalize"
    BY <2>1 DEF TaskSet, FinalizeTask, Task
  <2>4. toss'[o] = t
    BY <1>1 DEF CallTossConfirm, SetToss, TypeOK
  <2>5. /\ db'[o] \in {r, MarkAsFailed(r, "aborted")} /\ alerts[o] \subseteq alerts'[o]
        /\ \/ /\ reply \in {"DONE", "WAITING_FOR_DEPOSIT"}
              /\ tasks'[o] \subseteq tasks[o] \union {fin}
           \/ tasks'[o] \subseteq tasks[o] \union {again, RollbackTask}
    <3>1. db'[o] \in {r, MarkAsFailed(r, "aborted")}
      BY <1>1, SetRowAt DEF CallTossConfirm
    <3>2. alerts[o] \subseteq alerts'[o]
      BY <1>1 DEF CallTossConfirm, Alert, TypeOK
    <3>3. \/ reply \in {"DONE", "WAITING_FOR_DEPOSIT"} /\ Finish(o, m, {fin})
          \/ Finish(o, m, {again}) \/ Finish(o, m, {RollbackTask}) \/ Finish(o, m, {})
      BY <1>1 DEF CallTossConfirm
    <3>. HIDE DEF fin, again
    <3>4. \/ /\ reply \in {"DONE", "WAITING_FOR_DEPOSIT"}
             /\ tasks'[o] \subseteq tasks[o] \union {fin}
          \/ tasks'[o] \subseteq tasks[o] \union {again, RollbackTask}
      BY <3>3, FinishAdds
    <3>. QED BY <3>1, <3>2, <3>4
  <2>. HIDE DEF fin, again
  <2>6. Justified(o)
    BY <1>0, <2>1, <2>2, <2>3, <2>4, <2>5 DEF Justified, Unapproved, Approved, Charged
  <2>. QED BY <1>0, <2>5, <2>6, HarmlessKeeps
<1>2. ASSUME NEW m \in tasks[o], FinalizeConfirm(o, m) PROVE AlwaysInv(o)'
  <2>1. m.kind = "finalize" /\ UNCHANGED <<toss, open>>
    BY <1>2 DEF FinalizeConfirm
  <2>2. tasks'[o] \subseteq tasks[o] \union {PointsTask}
    BY <1>2, FinishAdds DEF FinalizeConfirm
  <2>3. toss[o] \notin Unapproved
    BY <1>2, <2>1 DEF AlwaysInv, ApprovalInv
  <2>4. /\ alerts[o] \subseteq alerts'[o]
        /\ \/ db'[o] \in {r, MarkAsWaiting(r)}
           \/ /\ db'[o] = FinalizeDone(r)
              /\ r.status = "canceled" => "canceled_order_charged" \in alerts'[o]
    <3>1. alerts[o] \subseteq alerts'[o]
      BY <1>2 DEF FinalizeConfirm, Alert, TypeOK
    <3>2. \/ db'[o] \in {r, MarkAsWaiting(r)}
          \/ db'[o] = FinalizeDone(r) /\ (r.status = "canceled" => Alert(o, {"canceled_order_charged"}))
      BY <1>2, SetRowAt DEF FinalizeConfirm
    <3>3. Alert(o, {"canceled_order_charged"}) => "canceled_order_charged" \in alerts'[o]
      BY DEF Alert, TypeOK
    <3>. QED BY <3>1, <3>2, <3>3
  <2>5. Justified(o)
    BY <1>0, <2>1, <2>2, <2>4 DEF Justified
  <2>6. CASE db'[o] = FinalizeDone(r) /\ r.status = "canceled"
    <3>1. /\ db'[o].status = "canceled" /\ db'[o].free = r.free
          /\ db'[o].earnRow = r.earnRow /\ db'[o].credit = r.credit
      BY <2>6, FinalizeDoneRow
    <3>2. "canceled_order_charged" \in alerts'[o] \/ db'[o] \in {r, MarkAsWaiting(r)}
      BY <2>4, <2>6
    <3>. QED BY <1>0, <2>5, <3>1, <3>2, CanceledChargeKeeps, HarmlessKeeps
  <2>7. CASE db'[o] = FinalizeDone(r) /\ r.status # "canceled"
    <3>1. /\ db'[o].status = "paid" /\ db'[o].free = r.free
          /\ db'[o].earnRow = r.earnRow /\ db'[o].credit = r.credit
      BY <2>7, FinalizeDoneRow
    <3>. QED BY <1>0, <2>1, <2>3, <2>5, <3>1, PayingKeeps
  <2>. QED BY <1>0, <2>4, <2>5, <2>6, <2>7, HarmlessKeeps
<1>3. ASSUME NEW m \in tasks[o], FinalizeFails(o, m) PROVE AlwaysInv(o)'
  <2>1. m.kind = "finalize" /\ UNCHANGED <<db, toss, open>> /\ alerts[o] \subseteq alerts'[o]
    BY <1>3 DEF FinalizeFails, Alert, TypeOK
  <2>2. toss[o] \notin Unapproved
    BY <1>3, <2>1 DEF AlwaysInv, ApprovalInv
  <2>3. Justified(o)
    BY <2>1, <2>2 DEF Justified
  <2>. QED BY <1>0, <2>1, <2>3, HarmlessKeeps
<1>4. CASE RollbackPaymentFailure(o)
  <2>1. /\ db'[o] \in {r, RollbackFailure(r)} /\ UNCHANGED <<toss, open, alerts>>
        /\ tasks'[o] \subseteq tasks[o]
    BY <1>4, SetRowAt, FinishAdds DEF RollbackPaymentFailure
  <2>. QED BY <1>0, <2>1, HarmlessKeeps DEF Justified
<1>5. CASE AddPointsAfterPayment(o)
  <2>1. db'[o] = r \/ (~r.earnRow /\ db'[o] = EarnPoints(r))
    BY <1>5, SetRowAt DEF AddPointsAfterPayment
  <2>2. tasks'[o] \subseteq tasks[o] /\ UNCHANGED <<toss, open, alerts>>
    BY <1>5, FinishAdds DEF AddPointsAfterPayment
  <2>3. Justified(o)
    BY <2>2 DEF Justified
  <2>. QED BY <1>0, <2>1, <2>3, HarmlessKeeps, LatePointsKeep
<1>6. ASSUME NEW m, LoseTask(o, m) PROVE AlwaysInv(o)'
  <2>1. UNCHANGED <<db, toss, open, alerts>> /\ tasks'[o] \subseteq tasks[o]
    BY <1>6 DEF LoseTask, TypeOK
  <2>. QED BY <1>0, <2>1, HarmlessKeeps DEF Justified
<1>. QED BY <1>1, <1>2, <1>3, <1>4, <1>5, <1>6 DEF WorkerStep, ConfirmStep, FinalizeStep

(* The Beat sweeps finalize only what Toss has approved. *)
LEMMA SweepAlways ==
  ASSUME TypeOK, NEW o \in Orders, AlwaysInv(o), SweepStep(o)
  PROVE  AlwaysInv(o)'
<1>. DEFINE r == db[o]
<1>. USE OrderTypes, SweepStepTypes, HarmlessRows
<1>0. r \in Rows /\ TypeOK' /\ RollbackTask.kind = "rollback"
  BY DEF RollbackTask, Task
<1>1. CASE DetectOrphanedOrders(o)
  <2>1. /\ UNCHANGED <<db, toss, open, alerts>>
        /\ tasks'[o] = tasks[o] \union {RollbackTask}
    BY <1>1, PublishAt DEF DetectOrphanedOrders
  <2>. QED BY <1>0, <2>1, HarmlessKeeps DEF Justified
<1>2. CASE ReconcileStalledPayments(o)
  <2>1. UNCHANGED <<db, toss, open>> /\ alerts[o] \subseteq alerts'[o]
    BY <1>2 DEF ReconcileStalledPayments, Alert, TypeOK
  <2>2. toss[o] \in Approved \/ UNCHANGED tasks
    BY <1>2 DEF ReconcileStalledPayments
  <2>. QED BY <1>0, <2>1, <2>2, HarmlessKeeps DEF Justified, Approved, Charged, Unapproved
<1>3. CASE ExpireUnpaidOrders(o)
  <2>1. db'[o] = CancelOrder(r, "expired") /\ UNCHANGED <<toss, tasks, open, alerts>>
    BY <1>3, SetRowAt DEF ExpireUnpaidOrders
  <2>. QED BY <1>0, <2>1, HarmlessKeeps DEF Justified
<1>. QED BY <1>1, <1>2, <1>3 DEF SweepStep

(* The DONE webhook pays, or reports what it cannot pay. *)
LEMMA DoneAlways ==
  ASSUME TypeOK, NEW o \in Orders, AlwaysInv(o), HandlePaymentDone(o), TypeOK'
  PROVE  AlwaysInv(o)'
<1>. DEFINE r == db[o]
<1>. USE OrderTypes
<1>1. /\ Hook("DONE") \in open[o] /\ open'[o] \subseteq open[o] /\ UNCHANGED <<toss, tasks>>
      /\ alerts[o] \subseteq alerts'[o]
  <2>1. Hook("DONE") \in open[o] /\ End(o, Hook("DONE")) /\ UNCHANGED <<toss, tasks>>
    BY DEF HandlePaymentDone
  <2>2. alerts[o] \subseteq alerts'[o]
    BY DEF HandlePaymentDone, Alert, TypeOK
  <2>. QED BY <2>1, <2>2, EndAt
<1>2. toss[o] \notin Unapproved
  <2>1. Hook("DONE").name = "hook" /\ Hook("DONE").arg = "DONE"
    BY DEF Hook, Step
  <2>. QED BY <1>1, <2>1 DEF AlwaysInv, ApprovalInv
<1>3. Justified(o)
  BY <1>1 DEF Justified
<1>4. CASE db'[o] = r
  BY <1>3, <1>4, HarmlessRows, HarmlessKeeps
<1>5. CASE db'[o] # r
  <2>1. /\ db'[o] = WebhookDone(r) /\ ~DoneRaises(r)
        /\ r.pay \notin {"aborted", "expired"} /\ Alert(o, DoneAlerts(r))
    BY <1>5, SetRowAt DEF HandlePaymentDone
  <2>. DEFINE q == WebhookDone(r)
  <2>2. /\ q.free = r.free
        /\ q.status = IF r.status = "canceled" THEN "canceled" ELSE "paid"
        /\ \/ q.earnRow = r.earnRow /\ q.credit = r.credit
           \/ /\ r.status \notin {"canceled", "paid"} /\ ~r.earned
              /\ q.earnRow = TRUE /\ q.credit = r.credit + 1
    BY WebhookDoneRow
  <2>. HIDE DEF q
  <2>3. db'[o] = q
    BY <2>1 DEF q
  <2>4. CASE r.status = "canceled"
    <3>1. "canceled_order_charged" \in DoneAlerts(r)
      BY <2>1, <2>4 DEF DoneAlerts, AlertSet
    <3>2. "canceled_order_charged" \in alerts'[o]
      BY <2>1, <3>1 DEF Alert, TypeOK
    <3>3. /\ db'[o].status = "canceled" /\ db'[o].free = r.free
          /\ db'[o].earnRow = r.earnRow /\ db'[o].credit = r.credit
      BY <2>4, <2>2, <2>3
    <3>. QED BY <1>3, <3>2, <3>3, CanceledChargeKeeps
  <2>5. CASE r.status # "canceled"
    <3>1. db'[o].status = "paid" /\ db'[o].free = r.free
      BY <2>5, <2>2, <2>3
    <3>2. \/ db'[o].earnRow = r.earnRow /\ db'[o].credit = r.credit
          \/ ~r.earnRow /\ db'[o].earnRow = TRUE /\ db'[o].credit = r.credit + 1
      BY <2>1, <2>2, <2>3 DEF DoneRaises
    <3>. QED BY <1>1, <1>2, <1>3, <3>1, <3>2, PayingKeeps
  <2>. QED BY <2>4, <2>5
<1>. QED BY <1>4, <1>5

(* Delivery and the other handlers keep the invariant. *)
LEMMA WebhookAlways ==
  ASSUME TypeOK, NEW o \in Orders, AlwaysInv(o), WebhookStep(o)
  PROVE  AlwaysInv(o)'
<1>. DEFINE r == db[o]
<1>. USE OrderTypes, HarmlessRows
<1>0. r \in Rows /\ TypeOK' /\ RollbackTask.kind = "rollback"
  BY WebhookStepTypes DEF RollbackTask, Task
<1>1. ASSUME NEW w \in Windows, WebhookArrives(o, w) PROVE AlwaysInv(o)'
  <2>1. /\ UNCHANGED <<db, toss, tasks, alerts>>
        /\ open'[o] = open[o] \union {Step("hook", Lookup(o, w), 0)}
    BY <1>1, BeginAt DEF WebhookArrives
  <2>2. Lookup(o, w) = "DONE" => toss[o] \notin Unapproved
    BY DEF Lookup, Report, Unapproved
  <2>3. /\ Step("hook", Lookup(o, w), 0).name = "hook"
        /\ Step("hook", Lookup(o, w), 0).arg = Lookup(o, w)
    BY DEF Step
  <2>. QED BY <1>0, <2>1, <2>2, <2>3, HarmlessKeeps DEF Justified
<1>2. CASE HandlePaymentDone(o)
  BY <1>0, <1>2, DoneAlways
<1>3. ASSUME NEW reclaimed \in BOOLEAN,
             HandlePaymentCanceled(o, reclaimed) \/ HandleWaitingForDeposit(o, reclaimed)
      PROVE  AlwaysInv(o)'
  <2>1. db'[o] \in {r, WebhookCanceled(r, reclaimed), WebhookWaiting(r, reclaimed)}
    BY <1>3, SetRowAt DEF HandlePaymentCanceled, HandleWaitingForDeposit
  <2>2. UNCHANGED <<toss, tasks>> /\ open'[o] \subseteq open[o]
    BY <1>3, EndAt DEF HandlePaymentCanceled, HandleWaitingForDeposit
  <2>3. alerts[o] \subseteq alerts'[o]
    BY <1>3 DEF HandlePaymentCanceled, HandleWaitingForDeposit, Alert, TypeOK
  <2>4. Justified(o)
    BY <2>2, <2>3 DEF Justified
  <2>. QED BY <1>0, <1>3, <2>1, <2>4, HarmlessKeeps
<1>4. ASSUME NEW status, HandleFailedReads(o, status) PROVE AlwaysInv(o)'
  <2>1. Step("failwrite", status, r.pid).name = "failwrite"
    BY DEF Step
  <2>2. /\ UNCHANGED <<db, toss, tasks, alerts>>
        /\ open'[o] \subseteq open[o] \union {Step("failwrite", status, r.pid)}
    BY <1>4 DEF HandleFailedReads, TypeOK
  <2>. QED BY <1>0, <2>1, <2>2, HarmlessKeeps DEF Justified
<1>5. ASSUME NEW s \in open[o], HandleFailedWrites(o, s) PROVE AlwaysInv(o)'
  <2>1. /\ db'[o] \in {r, SaveAsFailed(r, "expired"), SaveAsFailed(r, "aborted")}
        /\ UNCHANGED <<toss, alerts>> /\ open'[o] \subseteq open[o]
    BY <1>5, SetRowAt, EndAt DEF HandleFailedWrites
  <2>2. tasks'[o] \subseteq tasks[o] \union {RollbackTask}
    BY <1>5 DEF HandleFailedWrites, Publish, TypeOK
  <2>. QED BY <1>0, <2>1, <2>2, HarmlessKeeps DEF Justified
<1>6. CASE IgnoreWebhook(o)
  <2>1. UNCHANGED <<db, toss, tasks, alerts>> /\ open'[o] \subseteq open[o]
    BY <1>6, EndAt DEF IgnoreWebhook
  <2>. QED BY <1>0, <2>1, HarmlessKeeps DEF Justified
<1>7. ASSUME NEW status, DedupExpires(o, status) PROVE AlwaysInv(o)'
  BY <1>7, SameAlways DEF DedupExpires, Same
<1>. QED BY <1>1, <1>2, <1>3, <1>4, <1>5, <1>6, <1>7 DEF WebhookStep, HandlerStep

(* Toss never takes an approval back to a state before it. *)
LEMMA TossAlways ==
  ASSUME TypeOK, NEW o \in Orders, AlwaysInv(o), TossStep(o)
  PROVE  AlwaysInv(o)'
<1>1. UNCHANGED <<db, tasks, open, alerts>>
  BY DEF TossStep, TossDeposit, TossExpires, TossDashboardCancel, TossRevertsDeposit,
         AbandonedWindowExpires
<1>2. toss'[o] = toss[o] \/ toss'[o] \notin Unapproved
  BY DEF TossStep, TossDeposit, TossExpires, TossDashboardCancel, TossRevertsDeposit,
         AbandonedWindowExpires, SetToss, TypeOK, Unapproved
<1>3. Justified(o)
  BY <1>1, <1>2 DEF Justified
<1>. QED BY <1>1, <1>3, OrderTypes, TossStepTypes, HarmlessRows, HarmlessKeeps

-----------------------------------------------------------------------------
(* The theorems. *)

(* A confirmed order without a payment satisfies the invariant. *)
LEMMA InitAlways == Init => \A o \in Orders : AlwaysInv(o)
<1>. SUFFICES ASSUME Init, NEW o \in Orders PROVE AlwaysInv(o)
  OBVIOUS
<1>1. PICK free \in BOOLEAN : db[o] = ConfirmedOrder(free)
  BY DEF Init
<1>2. db[o].status = "confirmed" /\ db[o].credit = 0
  BY <1>1 DEF ConfirmedOrder
<1>3. tasks[o] = {} /\ open[o] = {}
  BY DEF Init
<1>. QED BY <1>2, <1>3 DEF AlwaysInv, EarnInv, AlertInv, ApprovalInv

(* The invariant holds in every environment. *)
LEMMA AlwaysHolds == Spec => [](\A o \in Orders : AlwaysInv(o))
<1>1. ASSUME TypeOK, \A o \in Orders : AlwaysInv(o), [Next]_vars
      PROVE  (\A o \in Orders : AlwaysInv(o))'
  <2>1. ASSUME NEW o \in Orders, OrderStep(o), NEW p \in Orders PROVE AlwaysInv(p)'
    <3>1. CASE p = o
      BY <1>1, <2>1, <3>1, CustomerAlways, WorkerAlways, SweepAlways, WebhookAlways, TossAlways
      DEF OrderStep
    <3>2. CASE p # o
      BY <1>1, <2>1, <3>2, Frame, SameAlways
    <3>. QED BY <3>1, <3>2
  <2>2. ASSUME UNCHANGED vars, NEW p \in Orders PROVE AlwaysInv(p)'
    BY <1>1, <2>2, SameAlways DEF vars, Same
  <2>. QED BY <1>1, <2>1, <2>2 DEF Next
<1>. QED BY <1>1, InitAlways, TypesAreKept, PTL DEF Spec

(* In every environment the points of a purchase are credited at most once. *)
THEOREM EarnedTheorem == Spec => []EarnedAtMostOnce
<1>1. (\A o \in Orders : AlwaysInv(o)) => EarnedAtMostOnce
  BY DEF AlwaysInv, EarnInv, EarnedAtMostOnce
<1>. QED BY <1>1, AlwaysHolds, PTL

(* In every environment a charge recorded on a canceled order was reported. *)
THEOREM AlertedTheorem == Spec => []CanceledChargeAlerted
<1>1. (\A o \in Orders : AlwaysInv(o)) => CanceledChargeAlerted
  BY DEF AlwaysInv, AlertInv, CanceledChargeAlerted
<1>. QED BY <1>1, AlwaysHolds, PTL

(* In every environment an order that costs money is paid only if Toss      *)
(* approved it.                                                             *)
THEOREM ApprovedTheorem == Spec => []PaidWasApproved
<1>1. (\A o \in Orders : AlwaysInv(o)) => PaidWasApproved
  BY DEF AlwaysInv, ApprovalInv, PaidWasApproved, Unapproved
<1>. QED BY <1>1, AlwaysHolds, PTL

=============================================================================
