---------------------------- MODULE PaymentFlow ----------------------------
(***************************************************************************)
(* How an order whose stock is reserved gets paid, fails or is canceled:   *)
(* the payment views and PaymentService, the Celery confirm chain with its *)
(* rollback, the Toss webhooks, the Beat sweeps that repair what was lost, *)
(* and Toss Payments itself (external, seen through TossPaymentClient).    *)
(*                                                                         *)
(* A transaction that takes the payment and/or order row lock before it    *)
(* reads is one action.  What the code reads without a lock and uses later *)
(* is two actions with a record of `open` between them.                    *)
(***************************************************************************)
EXTENDS OrderRow, FiniteSets

CONSTANTS
  Orders,           \* the orders of the instance
  ConfirmRetries,   \* max_retries of call_toss_confirm_api
  FinalizeRetries,  \* max_retries of finalize_payment_confirm
  MaxRows,          \* bound: Payment rows created for an order
  MaxFaults,        \* bound: messages lost or redelivered, windows abandoned
  Environments      \* sets of optional behaviours, one of which is chosen

Options ==
  {"sync_confirm",    \* the template success page, which confirms synchronously
   "unanswered",      \* Toss approves, and the answer to the last retry is lost too
   "late_create",     \* a payment request that stalls between check and create
   "late_points",     \* a points-only payment that stalls between check and lock
   "second_window",   \* the customer opens a second payment window for the order
   "deposit_revert",  \* Toss takes a virtual-account deposit back
   "slow_webhook",    \* Toss's status changes between a webhook's lookup and its handler
   "slow_queue",      \* a chain message still queued when the sweep runs
   "redeliver"}       \* the broker delivers an acknowledged-late task again

ASSUME PaymentAssumption ==
  /\ ConfirmRetries \in Nat /\ FinalizeRetries \in Nat
  /\ MaxRows \in Nat /\ MaxFaults \in Nat
  /\ Environments \subseteq SUBSET Options

VARIABLES
  db,      \* db[o]: the row of OrderRow
  toss,    \* toss[o]: the payment as Toss holds it
  tasks,   \* tasks[o]: Celery messages queued for the order
  hooks,   \* hooks[o]: webhook notifications Toss still has to deliver
  open,    \* open[o]: requests between an unlocked read and their write
  dedup,   \* dedup[o]: live Redis keys webhook:toss:<order>:<status>
  alerts,  \* alerts[o]: what was recorded for a person to resolve
  faults,  \* faults[o]: how many of these there were
  env      \* the optional behaviours of this run, fixed

vars == <<db, toss, tasks, hooks, open, dedup, alerts, faults, env>>

-----------------------------------------------------------------------------
(* Messages and types. *)

TossStatuses == {"NONE", "IN_PROGRESS", "WAITING_FOR_DEPOSIT", "DONE", "DEPOSITED",
                 "CANCELED", "ABORTED", "EXPIRED"}

Charged == {"DONE", "DEPOSITED"}

Approved == Charged \union {"WAITING_FOR_DEPOSIT"}

(* The status Toss reports: a paid-in virtual account is DONE like a card. *)
Report(t) == IF t = "DEPOSITED" THEN "DONE" ELSE t

Task(kind, n, status, pid) == [kind |-> kind, n |-> n, status |-> status, pid |-> pid]

ConfirmTask(n, pid) == Task("confirm", n, "", pid)
FinalizeTask(n, status, pid) == Task("finalize", n, status, pid)
RollbackTask == Task("rollback", 0, "", 0)
PointsTask == Task("points", 0, "", 0)

TaskSet == [kind : {"confirm", "finalize", "rollback", "points"}, n : Nat,
            status : {"", "DONE", "WAITING_FOR_DEPOSIT"}, pid : Nat]

Windows == {"current", "abandoned"}

Step(name, arg, pid) == [name |-> name, arg |-> arg, pid |-> pid]

StepSet == [name : {"create", "points", "failview", "hook", "failwrite"},
            arg : TossStatuses \union {""}, pid : Nat]

AlertSet == {"canceled_order_charged", "charged_but_failed", "deposit_after_expiry",
             "confirm_unresolved", "finalize_exhausted", "stalled_unresolved",
             "points_not_reclaimed"}

(* Every row, message and alert has the shape the code gives it; the only   *)
(* statuses ever written to a Payment row are those of its choices, never a *)
(* status of Toss.                                                          *)
TypeOK ==
  /\ db \in [Orders -> Rows]
  /\ toss \in [Orders -> TossStatuses]
  /\ tasks \in [Orders -> SUBSET TaskSet]
  /\ hooks \in [Orders -> SUBSET Windows]
  /\ open \in [Orders -> SUBSET StepSet]
  /\ dedup \in [Orders -> SUBSET {"DONE", "CANCELED"}]
  /\ alerts \in [Orders -> SUBSET AlertSet]
  /\ faults \in [Orders -> Nat]
  /\ env \in Environments

Init ==
  /\ db \in [Orders -> {ConfirmedOrder(free) : free \in BOOLEAN}]
  /\ toss = [o \in Orders |-> "NONE"]
  /\ tasks = [o \in Orders |-> {}]
  /\ hooks = [o \in Orders |-> {}]
  /\ open = [o \in Orders |-> {}]
  /\ dedup = [o \in Orders |-> {}]
  /\ alerts = [o \in Orders |-> {}]
  /\ faults = [o \in Orders |-> 0]
  /\ env \in Environments

-----------------------------------------------------------------------------
(* Writes to one order's share of the state. *)

SetRow(o, r) == db' = [db EXCEPT ![o] = r]

Alert(o, kinds) == alerts' = [alerts EXCEPT ![o] = @ \union kinds]

Publish(o, new) == tasks' = [tasks EXCEPT ![o] = @ \union new]

(* Something goes wrong around the order; MaxFaults bounds how often. *)
Fault(o) ==
  /\ faults[o] < MaxFaults
  /\ faults' = [faults EXCEPT ![o] = @ + 1]

(* A task ran to its end and published new ones.  acks_late: the broker may *)
(* keep the message if the worker dies before the acknowledgement.          *)
Finish(o, t, new) ==
  \/ tasks' = [tasks EXCEPT ![o] = (@ \ {t}) \union new] /\ UNCHANGED faults
  \/ "redeliver" \in env /\ Fault(o) /\ Publish(o, new)

(* Toss moves to status t and owes a notification if that is a change.  A   *)
(* webhook handler starts right after its lookup; that Toss's status        *)
(* changes in between is the option slow_webhook.                           *)
SetToss(o, t) ==
  /\ \/ t = toss[o] \/ "slow_webhook" \in env
     \/ \A s \in open[o] : s.name # "hook"
  /\ toss' = [toss EXCEPT ![o] = t]
  /\ hooks' = IF t = toss[o] THEN hooks ELSE [hooks EXCEPT ![o] = @ \union {"current"}]

Begin(o, s) == open' = [open EXCEPT ![o] = @ \union {s}]

End(o, s) == open' = [open EXCEPT ![o] = @ \ {s}]

ChainIsOverAtOnce(o) == TRUE                                   \* mutant

(* A confirm chain and its retries last about 5 minutes: what waits longer  *)
(* finds no message of it left, unless the queues are slow.                 *)
ChainIsOver(o) ==
  "slow_queue" \in env \/ \A m \in tasks[o] : m.kind \notin {"confirm", "finalize"}

-----------------------------------------------------------------------------
(* Payment requests (PaymentRequestView). *)

MayRequest(o) == ~db[o].free /\ db[o].status = "confirmed" /\ db[o].pay = "none"

RequestPayment(o) ==
  /\ MayRequest(o)
  /\ db[o].pid < MaxRows
  /\ SetRow(o, CreatePayment(db[o]))
  /\ UNCHANGED <<toss, tasks, hooks, open, dedup, alerts, faults, env>>

(* The same request caught between the serializer's check and create_payment. *)
RequestStalls(o) ==
  /\ "late_create" \in env
  /\ MayRequest(o)
  /\ Begin(o, Step("create", "", 0))
  /\ UNCHANGED <<db, toss, tasks, hooks, dedup, alerts, faults, env>>

(* create_payment locks the order but checks nothing; an existing Payment   *)
(* is deleted.                                                              *)
RequestResumes(o) ==
  LET s == Step("create", "", 0) IN
  /\ s \in open[o]
  /\ db[o].pid < MaxRows
  /\ SetRow(o, CreatePayment(db[o]))
  /\ End(o, s)
  /\ UNCHANGED <<toss, tasks, hooks, dedup, alerts, faults, env>>

(* External: the customer authenticates in the Toss payment window.  Once   *)
(* its failure is being reported a window is dead; another one is the       *)
(* option second_window.                                                    *)
Authenticate(o) ==
  /\ "second_window" \in env \/ \A s \in open[o] : s.name # "failview"
  /\ db[o].pay # "none" /\ ~db[o].free
  /\ toss[o] = "NONE"
  /\ SetToss(o, "IN_PROGRESS")
  /\ UNCHANGED <<db, tasks, open, dedup, alerts, faults, env>>

(* confirm_payment_async under the payment lock, then the chain is sent. *)
ConfirmAsync(o) ==
  /\ toss[o] # "NONE"
  /\ db[o].pay = "ready"
  /\ SetRow(o, [db[o] EXCEPT !.pay = "in_progress"])
  /\ Publish(o, {ConfirmTask(0, db[o].pid)})
  /\ UNCHANGED <<toss, hooks, open, dedup, alerts, faults, env>>

(* The broker refuses the chain: the view's last handler marks the payment. *)
ConfirmPublishFails(o) ==
  /\ toss[o] # "NONE"
  /\ db[o].pay = "ready"
  /\ Fault(o)
  /\ SetRow(o, SaveAsFailed(db[o], "aborted"))
  /\ UNCHANGED <<toss, tasks, hooks, open, dedup, alerts, env>>

(* confirm_payment_sync: Toss is called inside the transaction that holds   *)
(* the payment lock; an error leaves the database as it was.  The order is  *)
(* neither locked nor checked.                                              *)
SyncDone(r) == EarnPoints(PayOrder(r))

ConfirmSync(o) ==
  /\ "sync_confirm" \in env
  /\ toss[o] = "IN_PROGRESS"
  /\ db[o].pay \in {"ready", "in_progress"}
  /\ \/ SetToss(o, "DONE") /\ ~db[o].earnRow /\ SetRow(o, SyncDone(db[o]))
     \/ SetToss(o, "WAITING_FOR_DEPOSIT") /\ SetRow(o, MarkAsWaiting(db[o]))
     \/ \E t \in {"DONE", "WAITING_FOR_DEPOSIT", "ABORTED"} : SetToss(o, t) /\ UNCHANGED db
  /\ UNCHANGED <<tasks, open, dedup, alerts, faults, env>>

(* PaymentFailView: the failUrl page reports a failed window.  The payment  *)
(* is read by the serializer and saved by the view, without a lock.         *)
FailViewReads(o) ==
  /\ db[o].pay \notin {"none", "done", "canceled"}
  /\ "second_window" \in env \/ toss[o] = "NONE"
  /\ Begin(o, Step("failview", "", db[o].pid))
  /\ UNCHANGED <<db, toss, tasks, hooks, dedup, alerts, faults, env>>

FailViewWrites(o, s) ==
  /\ s \in open[o] /\ s.name = "failview"
  /\ SetRow(o, IF s.pid = db[o].pid THEN SaveAsFailed(db[o], "aborted") ELSE db[o])
  /\ End(o, s)
  /\ UNCHANGED <<toss, tasks, hooks, dedup, alerts, faults, env>>

-----------------------------------------------------------------------------
(* Orders that points pay in full (PointsOnlyPaymentView). *)

MayPayAnyWithPoints(o) == db[o].status = "confirmed"           \* mutant

MayPayWithPoints(o) == db[o].free /\ db[o].status = "confirmed"

PointsOnlyPayment(o) ==
  /\ MayPayWithPoints(o)
  /\ db[o].pay # "done"
  /\ SetRow(o, CompletePointsOnly(db[o]))
  /\ UNCHANGED <<toss, tasks, hooks, open, dedup, alerts, faults, env>>

(* The same request caught between the check of the status, on the row the  *)
(* view has read, and the lock.                                             *)
PointsOnlyStalls(o) ==
  /\ "late_points" \in env
  /\ MayPayWithPoints(o)
  /\ Begin(o, Step("points", "", 0))
  /\ UNCHANGED <<db, toss, tasks, hooks, dedup, alerts, faults, env>>

PointsOnlyResumes(o) ==
  LET s == Step("points", "", 0) IN
  /\ s \in open[o]
  /\ SetRow(o, IF db[o].pay = "done" THEN db[o] ELSE CompletePointsOnly(db[o]))
  /\ End(o, s)
  /\ UNCHANGED <<toss, tasks, hooks, dedup, alerts, faults, env>>

-----------------------------------------------------------------------------
(* The confirm chain. *)

(* What one confirm call can do: Toss's status after it, and what the task  *)
(* learns.  "refused" is an error that is not retried, "unreachable" a      *)
(* NETWORK_ERROR, 5xx or retryable code, "unsure" the soft time limit or a  *)
(* failed lookup after ALREADY_PROCESSED.  An approved payment answers with *)
(* ALREADY_PROCESSED and the lookup tells its status.                       *)
ConfirmReplies(t) ==
  {<<t, "unreachable">>, <<t, "unsure">>} \union
  CASE t = "IN_PROGRESS" ->
         ({"DONE", "WAITING_FOR_DEPOSIT"} \X {"unreachable", "unsure"})
           \union {<<s, s>> : s \in {"DONE", "WAITING_FOR_DEPOSIT"}}
           \union {<<"ABORTED", "refused">>, <<"ABORTED", "unreachable">>}
    [] t \in Approved -> {<<t, Report(t)>>}
    [] OTHER -> {<<t, "refused">>}

ConfirmGivesUpUnsure(m, reply) ==                              \* mutant
  reply = "refused" \/ m.n >= ConfirmRetries

ConfirmGivesUp(m, reply) ==
  reply = "refused" \/ (reply = "unreachable" /\ m.n >= ConfirmRetries)

(* The known limit: retries run out without an answer, on a payment that    *)
(* Toss approved, and nobody looks it up.                                   *)
Unanswered(m, t, reply) ==
  reply = "unreachable" /\ m.n >= ConfirmRetries /\ t \in Approved

CallTossConfirm(o, m, t, reply) ==
  /\ m \in tasks[o] /\ m.kind = "confirm"
  /\ <<t, reply>> \in ConfirmReplies(toss[o])
  /\ Unanswered(m, t, reply) => "unanswered" \in env
  /\ SetToss(o, t)
  /\ \/ /\ reply \in {"DONE", "WAITING_FOR_DEPOSIT"}
        /\ Finish(o, m, {FinalizeTask(0, reply, m.pid)})
        /\ UNCHANGED <<db, alerts>>
     \/ /\ reply \in {"unreachable", "unsure"} /\ m.n < ConfirmRetries
        /\ Finish(o, m, {[m EXCEPT !.n = @ + 1]})
        /\ UNCHANGED <<db, alerts>>
     \/ /\ ConfirmGivesUp(m, reply)
        /\ SetRow(o, MarkAsFailed(db[o], "aborted"))
        /\ Finish(o, m, {RollbackTask})
        /\ UNCHANGED alerts
     \/ /\ reply = "unsure" /\ m.n >= ConfirmRetries
        /\ Alert(o, {"confirm_unresolved"})
        /\ Finish(o, m, {})
        /\ UNCHANGED db
  /\ UNCHANGED <<open, dedup, env>>

(* finalize_payment_confirm on the Payment row the message names. *)
FinalizeConfirm(o, m) ==
  /\ m \in tasks[o] /\ m.kind = "finalize"
  /\ m.pid = db[o].pid /\ db[o].pay # "none"
  /\ \/ /\ IsPaid(db[o])
        /\ Finish(o, m, {})
        /\ UNCHANGED <<db, alerts>>
     \/ /\ ~IsPaid(db[o]) /\ m.status = "WAITING_FOR_DEPOSIT"
        /\ SetRow(o, MarkAsWaiting(db[o]))
        /\ Finish(o, m, {})
        /\ UNCHANGED alerts
     \/ /\ ~IsPaid(db[o]) /\ m.status = "DONE"
        /\ SetRow(o, FinalizeDone(db[o]))
        /\ IF db[o].status = "canceled"
           THEN Alert(o, {"canceled_order_charged"}) /\ Finish(o, m, {})
           ELSE UNCHANGED alerts /\ Finish(o, m, {PointsTask})
  /\ UNCHANGED <<toss, hooks, open, dedup, env>>

(* The transaction fails (a database error, or the row was deleted). *)
FinalizeFails(o, m) ==
  /\ m \in tasks[o] /\ m.kind = "finalize"
  /\ IF m.n < FinalizeRetries
     THEN Finish(o, m, {[m EXCEPT !.n = @ + 1]}) /\ UNCHANGED alerts
     ELSE Finish(o, m, {}) /\ Alert(o, {"finalize_exhausted"})
  /\ UNCHANGED <<db, toss, hooks, open, dedup, env>>

RollbackUnguarded(o) ==                                        \* mutant
  /\ RollbackTask \in tasks[o]
  /\ SetRow(o, RollbackFailure(db[o]))
  /\ Finish(o, RollbackTask, {})
  /\ UNCHANGED <<toss, hooks, open, dedup, alerts, env>>

RollbackPaymentFailure(o) ==
  /\ RollbackTask \in tasks[o]
  /\ SetRow(o, IF db[o].status \in Unpaid THEN RollbackFailure(db[o]) ELSE db[o])
  /\ Finish(o, RollbackTask, {})
  /\ UNCHANGED <<toss, hooks, open, dedup, alerts, env>>

AddPointsAgain(o) ==                                           \* mutant
  /\ PointsTask \in tasks[o]
  /\ SetRow(o, EarnPoints(db[o]))
  /\ Finish(o, PointsTask, {})
  /\ UNCHANGED <<toss, hooks, open, dedup, alerts, env>>

(* add_points_after_payment: looks at what was earned, not at the order's   *)
(* status.                                                                  *)
AddPointsAfterPayment(o) ==
  /\ PointsTask \in tasks[o]
  /\ SetRow(o, IF db[o].earned \/ db[o].earnRow THEN db[o] ELSE EarnPoints(db[o]))
  /\ Finish(o, PointsTask, {})
  /\ UNCHANGED <<toss, hooks, open, dedup, alerts, env>>

(* A message is lost: a publish the broker dropped, retries exhausted. *)
LoseTask(o, m) ==
  /\ m \in tasks[o]
  /\ Fault(o)
  /\ tasks' = [tasks EXCEPT ![o] = @ \ {m}]
  /\ UNCHANGED <<db, toss, hooks, open, dedup, alerts, env>>

-----------------------------------------------------------------------------
(* The Beat sweeps. *)

DetectOrphanedOrders(o) ==
  /\ db[o].status = "confirmed" /\ db[o].pay = "aborted"
  /\ Publish(o, {RollbackTask})
  /\ UNCHANGED <<db, toss, hooks, open, dedup, alerts, faults, env>>

ReconcileAsDone(o) ==                                          \* mutant
  /\ db[o].pay = "in_progress"
  /\ ChainIsOver(o)
  /\ toss[o] \in Approved
  /\ Publish(o, {FinalizeTask(0, "DONE", db[o].pid)})
  /\ UNCHANGED <<db, toss, hooks, open, dedup, alerts, faults, env>>

(* The sweep takes payments in_progress for 10 minutes. *)
ReconcileStalledPayments(o) ==
  /\ db[o].pay = "in_progress"
  /\ ChainIsOver(o)
  /\ IF toss[o] \in Approved
     THEN Publish(o, {FinalizeTask(0, Report(toss[o]), db[o].pid)}) /\ UNCHANGED alerts
     ELSE Alert(o, {"stalled_unresolved"}) /\ UNCHANGED tasks
  /\ UNCHANGED <<db, toss, hooks, open, dedup, faults, env>>

ExpireWithoutPayment(o) ==                                     \* mutant
  /\ CanCancelOrder(db[o]) /\ db[o].pay = "none"
  /\ SetRow(o, CancelOrder(db[o], "expired"))
  /\ UNCHANGED <<toss, tasks, hooks, open, dedup, alerts, faults, env>>

ExpireUnpaidOrders(o) ==
  /\ CanCancelOrder(db[o])
  /\ SetRow(o, CancelOrder(db[o], "expired"))
  /\ UNCHANGED <<toss, tasks, hooks, open, dedup, alerts, faults, env>>

-----------------------------------------------------------------------------
(* Cancellation by the customer. *)

CancelByCustomer(o) ==
  /\ CanCancelOrder(db[o])
  /\ SetRow(o, CancelOrder(db[o], "canceled"))
  /\ UNCHANGED <<toss, tasks, hooks, open, dedup, alerts, faults, env>>

(* cancel_virtual_account_before_deposit: Toss closes the account, then the *)
(* database commits; when it does not, only the webhook is left.            *)
CancelVirtualAccount(o) ==
  /\ db[o].pay = "waiting_for_deposit"
  /\ db[o].status \in Unpaid
  /\ toss[o] = "WAITING_FOR_DEPOSIT"
  /\ SetToss(o, "CANCELED")
  /\ SetRow(o, CancelOrder(MarkAsCanceled(db[o]), "canceled")) \/ UNCHANGED db
  /\ UNCHANGED <<tasks, open, dedup, alerts, faults, env>>

(* cancel_payment: every check comes before the Toss refund; whether the    *)
(* earned points can be taken back is the point ledger's answer.            *)
MayCancelPayment(r, reclaimable) ==
  /\ r.pay = "done" /\ ~r.closed
  /\ r.status \in {"paid", "canceled"}
  /\ r.status = "canceled" \/ ~r.earned \/ reclaimable

CancelPayment(o) ==
  /\ \E reclaimable \in BOOLEAN : MayCancelPayment(db[o], reclaimable)
  /\ toss[o] \in Charged
  /\ SetToss(o, "CANCELED")
  /\ SetRow(o, RefundPayment(db[o])) \/ UNCHANGED db
  /\ UNCHANGED <<tasks, open, dedup, alerts, faults, env>>

-----------------------------------------------------------------------------
(* Webhooks (toss_webhook, then the handler of the status looked up). *)

Lookup(o, w) == IF w = "abandoned" THEN "EXPIRED" ELSE Report(toss[o])

(* The notification is delivered and the payment looked up; the handler     *)
(* runs later.  Toss may deliver the same notification again.               *)
WebhookArrives(o, w) ==
  /\ w \in hooks[o]
  /\ Begin(o, Step("hook", Lookup(o, w), 0))
  /\ hooks' = [hooks EXCEPT ![o] = @ \ {w}] \/ UNCHANGED hooks
  /\ UNCHANGED <<db, toss, tasks, dedup, alerts, faults, env>>

Hook(status) == Step("hook", status, 0)

DoneAlertsFailuresOnly(r) ==                                   \* mutant
  {a \in AlertSet : \/ a = "charged_but_failed" /\ r.pay = "aborted"
                    \/ a = "deposit_after_expiry" /\ r.pay = "expired"}

(* How a charge is reported when the order can no longer take it. *)
DoneAlerts(r) ==
  {a \in AlertSet :
     \/ a = "charged_but_failed" /\ r.pay = "aborted"
     \/ a = "deposit_after_expiry" /\ r.pay = "expired"
     \/ a = "canceled_order_charged" /\ r.status = "canceled"
          /\ r.pay \notin {"aborted", "expired"}}

HandlePaymentDone(o) ==
  LET r == db[o]
      passed == "DONE" \in dedup[o] \/ r.pay \in {"none", "done", "canceled"}
      works == ~passed /\ r.pay \notin {"aborted", "expired"}
  IN
  /\ Hook("DONE") \in open[o]
  /\ End(o, Hook("DONE"))
  /\ IF passed THEN UNCHANGED alerts ELSE Alert(o, DoneAlerts(r))
  /\ IF works /\ ~DoneRaises(r)
     THEN SetRow(o, WebhookDone(r)) /\ dedup' = [dedup EXCEPT ![o] = @ \union {"DONE"}]
     ELSE UNCHANGED <<db, dedup>>
  /\ IF works /\ DoneRaises(r)                       \* 500: Toss delivers it again
     THEN hooks' = [hooks EXCEPT ![o] = @ \union {"current"}]
     ELSE UNCHANGED hooks
  /\ UNCHANGED <<toss, tasks, faults, env>>

(* The handler reads the order without a lock.  What could change it while  *)
(* the handler holds the payment lock is a rollback of an expired payment,  *)
(* which Toss does not report as CANCELED: one action.                      *)
HandlePaymentCanceled(o, reclaimed) ==
  LET r == db[o]
      passed == "CANCELED" \in dedup[o] \/ r.closed \/ r.pay \in {"none", "aborted"}
  IN
  /\ Hook("CANCELED") \in open[o]
  /\ End(o, Hook("CANCELED"))
  /\ IF passed THEN UNCHANGED <<db, dedup, alerts>>
     ELSE /\ SetRow(o, WebhookCanceled(r, reclaimed))
          /\ dedup' = [dedup EXCEPT ![o] = @ \union {"CANCELED"}]
          /\ Alert(o, IF r.status = "paid" /\ r.earned /\ ~reclaimed
                      THEN {"points_not_reclaimed"} ELSE {})
  /\ UNCHANGED <<toss, tasks, hooks, faults, env>>

HandleWaitingForDeposit(o, reclaimed) ==
  LET r == db[o]
      passed == r.pay \in {"none", "waiting_for_deposit", "canceled", "aborted", "expired"}
  IN
  /\ Hook("WAITING_FOR_DEPOSIT") \in open[o]
  /\ End(o, Hook("WAITING_FOR_DEPOSIT"))
  /\ IF passed THEN UNCHANGED <<db, alerts>>
     ELSE /\ SetRow(o, WebhookWaiting(r, reclaimed))
          /\ Alert(o, IF r.pay = "done" /\ r.earned /\ ~reclaimed
                      THEN {"points_not_reclaimed"} ELSE {})
  /\ UNCHANGED <<toss, tasks, hooks, dedup, faults, env>>

(* handle_payment_failed takes no lock: it reads the payment ... *)
HandleFailedReads(o, status) ==
  /\ status \in {"ABORTED", "EXPIRED"}
  /\ Hook(status) \in open[o]
  /\ open' = [open EXCEPT ![o] = (@ \ {Hook(status)}) \union
                (IF db[o].pay \in {"none", "aborted", "expired", "done", "canceled"} THEN {}
                 ELSE {Step("failwrite", status, db[o].pid)})]
  /\ UNCHANGED <<db, toss, tasks, hooks, dedup, alerts, faults, env>>

HandleFailedWritesRaw(o, s) ==                                 \* mutant
  /\ s \in open[o] /\ s.name = "failwrite"
  /\ End(o, s)
  /\ SetRow(o, SaveAsFailed(db[o], s.arg))
  /\ Publish(o, IF db[o].status \in Unpaid THEN {RollbackTask} ELSE {})
  /\ UNCHANGED <<toss, hooks, dedup, alerts, faults, env>>

(* ... and later saves the whole row, and asks for a rollback if the order  *)
(* is unpaid by then.                                                       *)
HandleFailedWrites(o, s) ==
  /\ s \in open[o] /\ s.name = "failwrite"
  /\ End(o, s)
  /\ IF s.pid = db[o].pid
     THEN /\ SetRow(o, SaveAsFailed(db[o], IF s.arg = "EXPIRED" THEN "expired" ELSE "aborted"))
          /\ Publish(o, IF db[o].status \in Unpaid THEN {RollbackTask} ELSE {})
     ELSE UNCHANGED <<db, tasks>>
  /\ UNCHANGED <<toss, hooks, dedup, alerts, faults, env>>

IgnoreWebhook(o) ==
  /\ Hook("IN_PROGRESS") \in open[o]
  /\ End(o, Hook("IN_PROGRESS"))
  /\ UNCHANGED <<db, toss, tasks, hooks, dedup, alerts, faults, env>>

(* The 60-second Redis key runs out. *)
DedupExpires(o, status) ==
  /\ status \in dedup[o]
  /\ dedup' = [dedup EXCEPT ![o] = @ \ {status}]
  /\ UNCHANGED <<db, toss, tasks, hooks, open, alerts, faults, env>>

-----------------------------------------------------------------------------
(* What Toss does on its own (external). *)

TossDeposit(o) ==
  /\ toss[o] = "WAITING_FOR_DEPOSIT"
  /\ SetToss(o, "DEPOSITED")
  /\ UNCHANGED <<db, tasks, open, dedup, alerts, faults, env>>

(* The authentication or the virtual account runs out. *)
TossExpires(o) ==
  /\ ChainIsOver(o)
  /\ toss[o] \in {"IN_PROGRESS", "WAITING_FOR_DEPOSIT"}
  /\ SetToss(o, "EXPIRED")
  /\ UNCHANGED <<db, tasks, open, dedup, alerts, faults, env>>

(* An operator cancels the payment on Toss's dashboard. *)
TossDashboardCancel(o) ==
  /\ toss[o] \in Approved
  /\ SetToss(o, "CANCELED")
  /\ UNCHANGED <<db, tasks, open, dedup, alerts, faults, env>>

TossRevertsDeposit(o) ==
  /\ "deposit_revert" \in env
  /\ toss[o] = "DEPOSITED"
  /\ SetToss(o, "WAITING_FOR_DEPOSIT")
  /\ UNCHANGED <<db, tasks, open, dedup, alerts, faults, env>>

(* An earlier window of the same order, never confirmed, expires at Toss. *)
AbandonedWindowExpires(o) ==
  /\ "second_window" \in env
  /\ toss[o] # "NONE"
  /\ Fault(o)
  /\ hooks' = [hooks EXCEPT ![o] = @ \union {"abandoned"}]
  /\ UNCHANGED <<db, toss, tasks, open, dedup, alerts, env>>

-----------------------------------------------------------------------------

CustomerStep(o) ==
  \/ RequestPayment(o) \/ RequestStalls(o) \/ RequestResumes(o)
  \/ Authenticate(o) \/ ConfirmAsync(o) \/ ConfirmPublishFails(o) \/ ConfirmSync(o)
  \/ FailViewReads(o) \/ \E s \in open[o] : FailViewWrites(o, s)
  \/ PointsOnlyPayment(o) \/ PointsOnlyStalls(o) \/ PointsOnlyResumes(o)
  \/ CancelByCustomer(o) \/ CancelVirtualAccount(o) \/ CancelPayment(o)

ConfirmStep(o) ==
  \E m \in tasks[o], t \in TossStatuses,
     reply \in {"DONE", "WAITING_FOR_DEPOSIT", "refused", "unreachable", "unsure"} :
    CallTossConfirm(o, m, t, reply)

FinalizeStep(o) == \E m \in tasks[o] : FinalizeConfirm(o, m) \/ FinalizeFails(o, m)

WorkerStep(o) ==
  \/ ConfirmStep(o) \/ FinalizeStep(o)
  \/ RollbackPaymentFailure(o) \/ AddPointsAfterPayment(o)
  \/ \E m \in tasks[o] : LoseTask(o, m)

SweepStep(o) ==
  DetectOrphanedOrders(o) \/ ReconcileStalledPayments(o) \/ ExpireUnpaidOrders(o)

HandlerStep(o) ==
  \/ HandlePaymentDone(o)
  \/ \E reclaimed \in BOOLEAN :
       HandlePaymentCanceled(o, reclaimed) \/ HandleWaitingForDeposit(o, reclaimed)
  \/ \E status \in {"ABORTED", "EXPIRED"} : HandleFailedReads(o, status)
  \/ \E s \in open[o] : HandleFailedWrites(o, s)
  \/ IgnoreWebhook(o)

WebhookStep(o) ==
  \/ \E w \in Windows : WebhookArrives(o, w)
  \/ HandlerStep(o)
  \/ \E status \in {"DONE", "CANCELED"} : DedupExpires(o, status)

TossStep(o) ==
  \/ TossDeposit(o) \/ TossExpires(o) \/ TossDashboardCancel(o)
  \/ TossRevertsDeposit(o) \/ AbandonedWindowExpires(o)

OrderStep(o) ==
  CustomerStep(o) \/ WorkerStep(o) \/ SweepStep(o) \/ WebhookStep(o) \/ TossStep(o)

Next == \E o \in Orders : OrderStep(o)

Spec == Init /\ [][Next]_vars

(* Celery retries until a task ends, Beat starts every sweep again and      *)
(* again, Toss delivers a notification until it is answered, and a virtual  *)
(* account has a due date.                                                  *)
Fairness == \A o \in Orders :
  /\ WF_vars(ConfirmStep(o)) /\ WF_vars(FinalizeStep(o))
  /\ WF_vars(RollbackPaymentFailure(o)) /\ WF_vars(AddPointsAfterPayment(o))
  /\ WF_vars(DetectOrphanedOrders(o)) /\ WF_vars(ReconcileStalledPayments(o))
  /\ WF_vars(ExpireUnpaidOrders(o))
  /\ WF_vars(WebhookArrives(o, "current")) /\ WF_vars(HandlePaymentDone(o))
  /\ WF_vars(\E reclaimed \in BOOLEAN : HandlePaymentCanceled(o, reclaimed))
  /\ WF_vars(\E reclaimed \in BOOLEAN : HandleWaitingForDeposit(o, reclaimed))
  /\ WF_vars(\E status \in {"ABORTED", "EXPIRED"} : HandleFailedReads(o, status))
  /\ WF_vars(\E s \in open[o] : HandleFailedWrites(o, s))
  /\ WF_vars(DedupExpires(o, "DONE")) /\ SF_vars(TossExpires(o))

FairSpec == Spec /\ Fairness

-----------------------------------------------------------------------------
(* Properties. *)

(* Stock and points are taken from an order exactly while it can still be   *)
(* paid or is paid, and are given back exactly once however it ends: the    *)
(* rollback, both cancellations, the expiry sweep and the CANCELED webhook  *)
(* all restore them.                                                        *)
StockFollowsOrder == \A o \in Orders :
  LET n == IF db[o].status \in {"confirmed", "paid"} THEN 1 ELSE 0
  IN  db[o].held = n /\ db[o].spent = n

(* sold_count counts an order once while it is paid, although the confirm   *)
(* chain, the DONE webhook, the synchronous confirmation and the sweep that *)
(* finalizes again may all record the same charge.                          *)
SoldFollowsPaid == \A o \in Orders :
  db[o].sold = IF db[o].status = "paid" THEN 1 ELSE 0

(* No order is paid that Toss has not charged (or charged and refunded).    *)
PaidWasCharged == \A o \in Orders :
  db[o].status = "paid" /\ ~db[o].free => toss[o] \in Charged \union {"CANCELED"}

(* Whatever happens around it, an order that Toss never approved is not     *)
(* paid.                                                                    *)
PaidWasApproved == \A o \in Orders :
  db[o].status = "paid" /\ ~db[o].free => toss[o] \notin {"NONE", "IN_PROGRESS", "ABORTED"}

(* The purchase points of an order are credited at most once, by whichever  *)
(* of the webhook, the points task and the synchronous path comes first.    *)
EarnedAtMostOnce == \A o \in Orders : db[o].credit <= 1

(* A canceled order whose payment is done was reported for a refund: the    *)
(* finalize task and the DONE webhook do not revive it silently.            *)
CanceledChargeAlerted == \A o \in Orders :
  db[o].status = "canceled" /\ db[o].pay = "done" => "canceled_order_charged" \in alerts[o]

Quiet(o) == tasks[o] = {} /\ hooks[o] = {} /\ open[o] = {}

(* Once every message is handled, a charge that Toss still holds for an     *)
(* order that failed or was canceled has been reported to a person.         *)
ChargeNeverSilent == \A o \in Orders :
  Quiet(o) /\ toss[o] \in Charged /\ db[o].status \in {"canceled", "payment_failed"}
    => alerts[o] # {}

(* The behaviours under which an order is given up although Toss may still  *)
(* approve its payment: two confirmations at once, an answer that never     *)
(* comes, a second window, a payment made for an order canceled meanwhile.  *)
PrematureOptions == {"sync_confirm", "unanswered", "late_create", "second_window", "redeliver"}

(* Without those no charge meets an order that failed or was canceled,      *)
(* however slow queues and webhooks are and whatever is lost: the fence of  *)
(* cancel_order, the rollback's guard and the lookup after an unclear       *)
(* confirm call never give up a payment that Toss goes on to approve.       *)
ChargeStands == env \intersect PrematureOptions = {} =>
  \A o \in Orders : toss[o] \in Charged => db[o].status \in {"confirmed", "paid"}

(* Once every message is handled, an order whose charge Toss gave back is   *)
(* not still paid: the CANCELED webhook catches up with a refund whose      *)
(* database half failed.                                                    *)
RefundReachesOrder == \A o \in Orders :
  Quiet(o) /\ toss[o] = "CANCELED" => db[o].status # "paid"

Column(f) == [o \in Orders |-> db[o][f]]

Lifecycle == INSTANCE OrderLifecycle WITH
  status <- Column("status"), held <- Column("held"),
  spent <- Column("spent"), sold <- Column("sold")

(* Every step of the payment flow is a step of the order's life cycle or    *)
(* leaves it alone: canceled and failed orders are never revived, a paid    *)
(* order is only ever canceled.                                             *)
ImplementsLifecycle == Lifecycle!Spec

(* The rollback gave the stock of a failed order back, so no late success   *)
(* makes it paid.                                                           *)
FailedStaysFailed == [][\A o \in Orders :
  db[o].status = "payment_failed" => db'[o].status \in {"payment_failed", "canceled"}]_vars

(* No way of paying revives a canceled order. *)
CanceledIsFinal == [][\A o \in Orders :
  db[o].status = "canceled" => db'[o].status = "canceled"]_vars

(* An order whose payment was given up does not keep its stock: the         *)
(* rollback runs, or the sweep asks for it again.                           *)
AbortedIsRolledBack == \A o \in Orders :
  (db[o].status = "confirmed" /\ db[o].pay = "aborted") ~> db[o].status # "confirmed"

(* Every charge ends on a paid order, back at the customer, or with a       *)
(* person, whatever was lost on the way, as long as every confirm call is   *)
(* answered and the confirmation does not run twice at once.                *)
ChargeIsSettled == \A o \in Orders :
  (env = {} /\ toss[o] \in Charged) ~>
    (db[o].status = "paid" \/ alerts[o] # {} \/ toss[o] = "CANCELED")

(* No order holds its stock for ever: it is paid, fails, is canceled or     *)
(* expires, or a person has been told that its payment is stuck.            *)
OrderEnds == \A o \in Orders :
  (db[o].status = "confirmed") ~> (db[o].status # "confirmed" \/ alerts[o] # {})

=============================================================================
