-------------------------- MODULE PaymentFlowProofs --------------------------
(***************************************************************************)
(* The inductive invariant of PaymentInvariant, and what follows from it:  *)
(* in calm environments the payment flow implements the life cycle of an   *)
(* order, whatever the number of orders, retries and lost messages.        *)
(***************************************************************************)
EXTENDS PaymentInvariant, PaymentFlowAlways

Calm == Environments \subseteq SUBSET CalmOptions

(* The options a calm environment does not offer. *)
LEMMA CalmEnv ==
  ASSUME Calm, TypeOK
  PROVE  /\ "late_create" \notin env /\ "late_points" \notin env /\ "second_window" \notin env
         /\ "deposit_revert" \notin env /\ "slow_webhook" \notin env /\ "slow_queue" \notin env
         /\ "redeliver" \notin env
  BY DEF Calm, TypeOK, CalmOptions

(* Toss's status and the task queue after an action, at its order. *)
LEMMA SetTossAt ==
  ASSUME Calm, TypeOK, NEW o \in Orders, NEW t, SetToss(o, t)
  PROVE  /\ toss'[o] = t
         /\ t = toss[o] \/ \A s \in open[o] : s.name # "hook"
         /\ hooks'[o] = IF t = toss[o] THEN hooks[o] ELSE hooks[o] \union {"current"}
         /\ \A p \in Orders : p # o => toss'[p] = toss[p] /\ hooks'[p] = hooks[p]
  BY CalmEnv DEF TypeOK, SetToss

(* What is queued for an order once a task has ended. *)
LEMMA FinishAt ==
  ASSUME Calm, TypeOK, NEW o \in Orders, NEW m, NEW new, Finish(o, m, new)
  PROVE  /\ tasks'[o] = (tasks[o] \ {m}) \union new
         /\ \A p \in Orders : p # o => tasks'[p] = tasks[p]
  BY CalmEnv DEF TypeOK, Finish

(* Which message is which. *)
LEMMA Messages ==
  /\ RollbackTask.kind = "rollback" /\ PointsTask.kind = "points"
  /\ ~IsChain(RollbackTask) /\ ~IsChain(PointsTask)
  /\ \A n, pid : /\ ConfirmTask(n, pid).kind = "confirm" /\ ConfirmTask(n, pid).pid = pid
                 /\ IsChain(ConfirmTask(n, pid))
  /\ \A n, status, pid : /\ FinalizeTask(n, status, pid).kind = "finalize"
                         /\ FinalizeTask(n, status, pid).status = status
                         /\ FinalizeTask(n, status, pid).pid = pid
                         /\ IsChain(FinalizeTask(n, status, pid))
  /\ \A name, arg, pid : /\ Step(name, arg, pid).name = name /\ Step(name, arg, pid).arg = arg
                         /\ Step(name, arg, pid).pid = pid
  BY DEF RollbackTask, PointsTask, ConfirmTask, FinalizeTask, Task, IsChain, Step

(* Trying a message again changes neither its kind nor what it is about. *)
LEMMA RetriedMessage ==
  ASSUME NEW m \in TaskSet
  PROVE  LET n == [m EXCEPT !.n = @ + 1] IN
         n.kind = m.kind /\ n.status = m.status /\ n.pid = m.pid
  BY DEF TaskSet

(* An order whose share of the state is unchanged keeps its invariant. *)
LEMMA SameInv ==
  ASSUME NEW p, Same(p), OrderInv(p)
  PROVE  OrderInv(p)'
  BY DEF Same, OrderInv, RowIsConsistent, PaymentAgreesWithOrder, FreeNeverAtToss, OneChain,
         ChainHasPayment, FinalizeIsApproved, ConfirmMayApprove, StepsMatchToss,
         RollbackFollowsFailure

-----------------------------------------------------------------------------
(* The actions keep the invariant of the order they work on.  Each lemma    *)
(* first says what the actions write, then unfolds OrderInv and takes them  *)
(* one by one.                                                              *)

(* The columns of a row that the invariant reads. *)
SameColumns(q, r) ==
  q.free = r.free /\ q.pid = r.pid /\ q.held = r.held /\ q.spent = r.spent /\ q.sold = r.sold

(* The payment views and PaymentService keep the invariant. *)
LEMMA CustomerKeeps ==
  ASSUME Calm, TypeOK, NEW o \in Orders, OrderInv(o), CustomerStep(o)
  PROVE  OrderInv(o)' /\ LegalMove(o)
<1>. DEFINE r == db[o]
<1>. USE OrderTypes, CalmEnv
<1>1. ASSUME RequestPayment(o)
      PROVE  /\ ~r.free /\ r.status = "confirmed" /\ r.pay = "none"
             /\ UNCHANGED <<toss, tasks, hooks, open>>
             /\ db'[o].status = r.status /\ db'[o].pay = "ready" /\ db'[o].free = r.free
             /\ db'[o].held = r.held /\ db'[o].sold = r.sold /\ db'[o].spent = r.spent
  <2>1. db'[o] = CreatePayment(r)
    BY <1>1, SetRowAt DEF RequestPayment
  <2>. QED BY <1>1, <2>1 DEF RequestPayment, MayRequest, CreatePayment, Rows
<1>2. ~RequestStalls(o) /\ ~PointsOnlyStalls(o)
  BY DEF RequestStalls, PointsOnlyStalls
<1>3. ~RequestResumes(o) /\ ~PointsOnlyResumes(o)
  <2>1. Step("create", "", 0).name = "create" /\ Step("points", "", 0).name = "points"
    BY DEF Step
  <2>2. Step("create", "", 0) \notin open[o] /\ Step("points", "", 0) \notin open[o]
    BY <2>1 DEF OrderInv, StepsMatchToss
  <2>. QED BY <2>2 DEF RequestResumes, PointsOnlyResumes
<1>4. ASSUME Authenticate(o)
      PROVE  /\ toss[o] = "NONE" /\ toss'[o] = "IN_PROGRESS" /\ UNCHANGED <<db, tasks, open>>
             /\ ~r.free /\ hooks'[o] = hooks[o] \union {"current"}
             /\ \A s \in open[o] : s.name \notin {"hook", "failview"}
  <2>1. SetToss(o, "IN_PROGRESS") /\ toss[o] # "IN_PROGRESS"
    BY <1>4 DEF Authenticate
  <2>2. /\ toss'[o] = "IN_PROGRESS" /\ hooks'[o] = hooks[o] \union {"current"}
        /\ \A s \in open[o] : s.name # "hook"
    BY <2>1, SetTossAt
  <2>. QED BY <1>4, <2>2 DEF Authenticate
<1>5. ASSUME ConfirmAsync(o)
      PROVE  /\ r.pay = "ready" /\ toss[o] # "NONE"
             /\ UNCHANGED <<toss, hooks, open>>
             /\ tasks'[o] = tasks[o] \union {ConfirmTask(0, r.pid)}
             /\ db'[o].status = r.status /\ db'[o].pay = "in_progress" /\ SameColumns(db'[o], r)
  <2>1. db'[o] = [r EXCEPT !.pay = "in_progress"]
    BY <1>5, SetRowAt DEF ConfirmAsync
  <2>. QED BY <1>5, <2>1, PublishAt DEF ConfirmAsync, SameColumns, Rows
<1>6. ASSUME ConfirmPublishFails(o)
      PROVE  /\ r.pay = "ready" /\ toss[o] # "NONE" /\ UNCHANGED <<toss, tasks, hooks, open>>
             /\ db'[o].status = r.status /\ db'[o].pay = "aborted" /\ SameColumns(db'[o], r)
  <2>1. db'[o] = SaveAsFailed(r, "aborted")
    BY <1>6, SetRowAt DEF ConfirmPublishFails
  <2>. QED BY <1>6, <2>1 DEF ConfirmPublishFails, SaveAsFailed, SameColumns, Rows
<1>7. ASSUME ConfirmSync(o)
      PROVE  /\ toss[o] = "IN_PROGRESS" /\ r.pay \in {"ready", "in_progress"}
             /\ UNCHANGED <<tasks, open>>
             /\ toss'[o] \in {"DONE", "WAITING_FOR_DEPOSIT", "ABORTED"}
             /\ hooks'[o] = hooks[o] \union {"current"}
             /\ \A s \in open[o] : s.name # "hook"
             /\ \/ /\ toss'[o] = "DONE" /\ db'[o].pay = "done" /\ db'[o].status = "paid"
                   /\ db'[o].free = r.free /\ db'[o].pid = r.pid /\ db'[o].held = r.held
                   /\ db'[o].spent = r.spent /\ db'[o].sold = r.sold + 1
                \/ /\ toss'[o] = "WAITING_FOR_DEPOSIT" /\ db'[o].pay = "waiting_for_deposit"
                   /\ db'[o].status = r.status /\ SameColumns(db'[o], r)
                \/ db'[o] = r
  <2>1. PICK t \in {"DONE", "WAITING_FOR_DEPOSIT", "ABORTED"} :
          /\ SetToss(o, t)
          /\ \/ t = "DONE" /\ SetRow(o, SyncDone(r))
             \/ t = "WAITING_FOR_DEPOSIT" /\ SetRow(o, MarkAsWaiting(r))
             \/ UNCHANGED db
    BY <1>7 DEF ConfirmSync
  <2>2. /\ toss[o] = "IN_PROGRESS" /\ r.pay \in {"ready", "in_progress"}
        /\ UNCHANGED <<tasks, open>>
    BY <1>7 DEF ConfirmSync
  <2>3. /\ toss'[o] = t /\ hooks'[o] = hooks[o] \union {"current"}
        /\ \A s \in open[o] : s.name # "hook"
    BY <2>1, <2>2, SetTossAt
  <2>4. CASE t = "DONE" /\ SetRow(o, SyncDone(r))
    <3>1. /\ SyncDone(r).pay = "done" /\ SyncDone(r).status = "paid"
          /\ SyncDone(r).free = r.free /\ SyncDone(r).pid = r.pid /\ SyncDone(r).held = r.held
          /\ SyncDone(r).spent = r.spent /\ SyncDone(r).sold = r.sold + 1
      <4>1. /\ PayOrder(r) \in Rows /\ PayOrder(r).pay = "done" /\ PayOrder(r).status = "paid"
            /\ PayOrder(r).free = r.free /\ PayOrder(r).pid = r.pid
            /\ PayOrder(r).held = r.held /\ PayOrder(r).spent = r.spent
            /\ PayOrder(r).sold = r.sold + 1
        BY PayOrderRow
      <4>. QED BY <4>1, EarnPointsRow DEF SyncDone
    <3>. QED BY <2>2, <2>3, <2>4, <3>1, SetRowAt
  <2>5. CASE t = "WAITING_FOR_DEPOSIT" /\ SetRow(o, MarkAsWaiting(r))
    <3>1. db'[o] = MarkAsWaiting(r)
      BY <2>5, SetRowAt
    <3>. QED BY <2>2, <2>3, <2>5, <3>1 DEF MarkAsWaiting, SameColumns, Rows
  <2>. QED BY <2>1, <2>2, <2>3, <2>4, <2>5
<1>8. ASSUME FailViewReads(o)
      PROVE  /\ UNCHANGED <<db, toss, tasks, hooks>> /\ toss[o] = "NONE"
             /\ r.pay \notin {"none", "done", "canceled"}
             /\ \A s \in open'[o] : s \in open[o] \/ s.name = "failview"
  <2>1. Step("failview", "", r.pid).name = "failview"
    BY DEF Step
  <2>2. open'[o] = open[o] \union {Step("failview", "", r.pid)}
    BY <1>8, BeginAt DEF FailViewReads
  <2>. QED BY <1>8, <2>1, <2>2 DEF FailViewReads
<1>9. ASSUME NEW s \in open[o], FailViewWrites(o, s)
      PROVE  /\ UNCHANGED <<toss, tasks, hooks>> /\ s.name = "failview"
             /\ open'[o] = open[o] \ {s}
             /\ db'[o].status = r.status /\ db'[o].pay \in {r.pay, "aborted"}
             /\ SameColumns(db'[o], r)
  <2>1. db'[o] \in {r, SaveAsFailed(r, "aborted")}
    BY <1>9, SetRowAt DEF FailViewWrites
  <2>. QED BY <1>9, <2>1, EndAt DEF FailViewWrites, SaveAsFailed, SameColumns, Rows
<1>10. ASSUME PointsOnlyPayment(o)
       PROVE  /\ r.free /\ r.status = "confirmed" /\ r.pay # "done"
              /\ UNCHANGED <<toss, tasks, hooks, open>>
              /\ db'[o] = CompletePointsOnly(r)
  BY <1>10, SetRowAt DEF PointsOnlyPayment, MayPayWithPoints
<1>11. ASSUME CancelByCustomer(o)
       PROVE  /\ r.status = "confirmed" /\ r.pay \notin Live
              /\ UNCHANGED <<toss, tasks, hooks, open>>
              /\ db'[o] = CancelOrder(r, "canceled")
  BY <1>11, SetRowAt DEF CancelByCustomer, CanCancelOrder, Unpaid, OrderStatuses
<1>12. ASSUME CancelVirtualAccount(o)
       PROVE  /\ r.pay = "waiting_for_deposit" /\ r.status = "confirmed"
              /\ toss[o] = "WAITING_FOR_DEPOSIT" /\ toss'[o] = "CANCELED"
              /\ hooks'[o] = hooks[o] \union {"current"} /\ \A s \in open[o] : s.name # "hook"
              /\ UNCHANGED <<tasks, open>>
              /\ \/ db'[o] = r
                 \/ /\ db'[o].status = "canceled" /\ db'[o].pay = "canceled"
                    /\ db'[o].free = r.free /\ db'[o].pid = r.pid
                    /\ db'[o].held = r.held - 1 /\ db'[o].spent = r.spent - 1
                    /\ db'[o].sold = r.sold
  <2>. DEFINE c == MarkAsCanceled(r)
  <2>1. c \in Rows /\ "canceled" \in PayStatuses
    BY PrimitiveRows DEF PayStatuses, OrderStatuses
  <2>2. c.pay = "canceled" /\ SameColumns(c, r)
    BY DEF MarkAsCanceled, SameColumns, Rows
  <2>3. db'[o] = r \/ db'[o] = CancelOrder(c, "canceled")
    BY <1>12, SetRowAt DEF CancelVirtualAccount
  <2>. HIDE DEF c
  <2>4. \/ db'[o] = r
        \/ /\ db'[o].status = "canceled" /\ db'[o].pay = "canceled"
           /\ db'[o].free = r.free /\ db'[o].pid = r.pid
           /\ db'[o].held = r.held - 1 /\ db'[o].spent = r.spent - 1 /\ db'[o].sold = r.sold
    BY <2>1, <2>2, <2>3, CancelOrderRow DEF SameColumns
  <2>5. SetToss(o, "CANCELED") /\ toss[o] # "CANCELED"
    BY <1>12 DEF CancelVirtualAccount
  <2>6. /\ toss'[o] = "CANCELED" /\ hooks'[o] = hooks[o] \union {"current"}
        /\ \A s \in open[o] : s.name # "hook"
    BY <2>5, SetTossAt
  <2>. QED BY <1>12, <2>4, <2>6 DEF CancelVirtualAccount, Unpaid, OrderStatuses
<1>13. ASSUME CancelPayment(o)
       PROVE  /\ r.pay = "done" /\ r.status \in {"paid", "canceled"}
              /\ toss[o] \in Charged /\ toss'[o] = "CANCELED"
              /\ hooks'[o] = hooks[o] \union {"current"} /\ \A s \in open[o] : s.name # "hook"
              /\ UNCHANGED <<tasks, open>>
              /\ db'[o] = r \/ db'[o] = RefundPayment(r)
  <2>1. SetToss(o, "CANCELED") /\ toss[o] # "CANCELED"
    BY <1>13 DEF CancelPayment, Charged
  <2>. QED BY <1>13, <2>1, SetTossAt, SetRowAt DEF CancelPayment, MayCancelPayment
<1>. USE DEF LegalMove, OrderInv, RowIsConsistent, PaymentAgreesWithOrder, FreeNeverAtToss, OneChain,
             ChainHasPayment, FinalizeIsApproved, ConfirmMayApprove, StepsMatchToss,
             RollbackFollowsFailure, IsChain, SameColumns
<1>21. CASE RequestPayment(o)
  BY <1>1, <1>21
<1>22. CASE Authenticate(o)
  BY <1>4, <1>22 DEF Settled, Charged, Dead
<1>23. CASE ConfirmAsync(o)
  BY <1>5, <1>23, Messages
<1>24. CASE ConfirmPublishFails(o)
  BY <1>6, <1>24
<1>25. CASE ConfirmSync(o)
  BY <1>7, <1>25 DEF Settled, Charged, Dead, Approved
<1>26. CASE FailViewReads(o)
  BY <1>8, <1>26
<1>27. CASE \E s \in open[o] : FailViewWrites(o, s)
  BY <1>9, <1>27
<1>28. CASE PointsOnlyPayment(o)
  BY <1>10, <1>28, CompletePointsOnlyRow
<1>29. CASE CancelByCustomer(o)
  <2>1. "canceled" \in PayStatuses
    BY DEF PayStatuses
  <2>. QED BY <1>11, <1>29, <2>1, CancelOrderRow DEF Live
<1>30. CASE CancelVirtualAccount(o)
  BY <1>12, <1>30 DEF Settled, Charged, Dead, Approved
<1>31. CASE CancelPayment(o)
  BY <1>13, <1>31, RefundPaymentRow DEF Settled, Charged, Dead, Approved
<1>. QED
  BY <1>2, <1>3, <1>21, <1>22, <1>23, <1>24, <1>25, <1>26, <1>27, <1>28, <1>29, <1>30, <1>31
  DEF CustomerStep

(* The confirm call keeps it, whatever Toss answers or fails to answer. *)
LEMMA ConfirmKeeps ==
  ASSUME Calm, TypeOK, NEW o \in Orders, OrderInv(o), NEW m, NEW t, NEW reply,
         CallTossConfirm(o, m, t, reply)
  PROVE  OrderInv(o)' /\ LegalMove(o)
<1>. DEFINE r == db[o]
<1>. USE OrderTypes
<1>1. /\ m \in tasks[o] /\ m \in TaskSet /\ m.kind = "confirm" /\ UNCHANGED open
      /\ <<t, reply>> \in ConfirmReplies(toss[o]) /\ SetToss(o, t)
  BY DEF CallTossConfirm
<1>2. /\ t = toss[o] \/ (toss[o] = "IN_PROGRESS" /\ t \in {"DONE", "WAITING_FOR_DEPOSIT", "ABORTED"})
      /\ reply \in {"DONE", "WAITING_FOR_DEPOSIT"} => t \in Approved /\ reply = Report(t)
  BY <1>1, ConfirmReplyFacts
<1>3. /\ toss'[o] = t
      /\ t = toss[o] \/ \A s \in open[o] : s.name # "hook"
      /\ hooks'[o] = hooks[o] \/ hooks'[o] = hooks[o] \union {"current"}
  BY <1>1, SetTossAt
<1>4. /\ m.pid = r.pid /\ r.pay \notin {"none", "ready"} /\ toss[o] # "NONE" /\ ~r.free
      /\ \A n \in tasks[o] : n.kind \in {"confirm", "finalize"} => n = m
  BY <1>1 DEF OrderInv, OneChain, ChainHasPayment, FreeNeverAtToss, IsChain
<1>. DEFINE again == [m EXCEPT !.n = @ + 1]
            fin == FinalizeTask(0, reply, m.pid)
<1>5. again.kind = "confirm" /\ again.pid = m.pid
  BY <1>1 DEF TaskSet
<1>6. fin.kind = "finalize" /\ fin.status = reply /\ fin.pid = m.pid
  BY DEF FinalizeTask, Task
<1>7. RollbackTask.kind = "rollback"
  BY DEF RollbackTask, Task
<1>8. \/ /\ reply \in {"DONE", "WAITING_FOR_DEPOSIT"} /\ db'[o] = r
         /\ tasks'[o] = (tasks[o] \ {m}) \union {fin}
      \/ db'[o] = r /\ tasks'[o] = (tasks[o] \ {m}) \union {again}
      \/ db'[o] = MarkAsFailed(r, "aborted") /\ tasks'[o] = (tasks[o] \ {m}) \union {RollbackTask}
      \/ db'[o] = r /\ tasks'[o] = tasks[o] \ {m}
  BY SetRowAt, FinishAt DEF CallTossConfirm
<1>9. /\ MarkAsFailed(r, "aborted").pay = "aborted"
      /\ MarkAsFailed(r, "aborted").status = r.status
      /\ SameColumns(MarkAsFailed(r, "aborted"), r)
  BY <1>4 DEF MarkAsFailed, SameColumns, Rows
<1>. HIDE DEF again, fin
<1>. USE <1>1, <1>2, <1>3, <1>4
     DEF LegalMove, OrderInv, RowIsConsistent, PaymentAgreesWithOrder, FreeNeverAtToss, OneChain,
         ChainHasPayment, FinalizeIsApproved, ConfirmMayApprove, StepsMatchToss,
         RollbackFollowsFailure, IsChain, SameColumns, Settled, Charged, Dead, Approved
<1>11. CASE /\ reply \in {"DONE", "WAITING_FOR_DEPOSIT"} /\ db'[o] = r
            /\ tasks'[o] = (tasks[o] \ {m}) \union {fin}
  BY <1>6, <1>7, <1>11 DEF Report
<1>12. CASE db'[o] = r /\ tasks'[o] = (tasks[o] \ {m}) \union {again}
  BY <1>5, <1>7, <1>12
<1>13. CASE /\ db'[o] = MarkAsFailed(r, "aborted")
            /\ tasks'[o] = (tasks[o] \ {m}) \union {RollbackTask}
  BY <1>7, <1>9, <1>13
<1>14. CASE db'[o] = r /\ tasks'[o] = tasks[o] \ {m}
  BY <1>14
<1>. QED BY <1>8, <1>11, <1>12, <1>13, <1>14

(* Recording the answer of a confirm call keeps it. *)
LEMMA FinalizeKeeps ==
  ASSUME Calm, TypeOK, NEW o \in Orders, OrderInv(o), NEW m,
         FinalizeConfirm(o, m) \/ FinalizeFails(o, m)
  PROVE  OrderInv(o)' /\ LegalMove(o)
<1>. DEFINE r == db[o]
<1>. USE OrderTypes
<1>1. m \in tasks[o] /\ m \in TaskSet /\ m.kind = "finalize" /\ UNCHANGED <<toss, hooks, open>>
  BY DEF FinalizeConfirm, FinalizeFails
<1>2. /\ m.pid = r.pid /\ r.pay \in {"in_progress", "waiting_for_deposit", "done", "canceled"}
      /\ toss[o] \in Approved \union {"CANCELED"} /\ m.status = "DONE" => toss[o] \in Settled
      /\ ~r.free /\ RollbackTask \notin tasks[o]
      /\ \A n \in tasks[o] : n.kind \in {"confirm", "finalize"} => n = m
  BY <1>1 DEF OrderInv, OneChain, ChainHasPayment, FinalizeIsApproved, FreeNeverAtToss, IsChain,
     Approved, Charged
<1>. DEFINE again == [m EXCEPT !.n = @ + 1]
<1>3. again.kind = "finalize" /\ again.pid = m.pid /\ again.status = m.status
  BY <1>1 DEF TaskSet
<1>4. RollbackTask.kind = "rollback" /\ PointsTask.kind = "points"
  BY DEF RollbackTask, PointsTask, Task
<1>5. \/ db'[o] = r /\ tasks'[o] = tasks[o] \ {m}
      \/ db'[o] = r /\ tasks'[o] = (tasks[o] \ {m}) \union {again}
      \/ /\ db'[o] = MarkAsWaiting(r) /\ tasks'[o] = tasks[o] \ {m} /\ r.pay # "done"
      \/ /\ db'[o] = FinalizeDone(r) /\ m.status = "DONE" /\ r.pay # "done"
         /\ tasks'[o] = tasks[o] \ {m} \/ tasks'[o] = (tasks[o] \ {m}) \union {PointsTask}
  <2>1. CASE FinalizeConfirm(o, m)
    BY <2>1, SetRowAt, FinishAt DEF FinalizeConfirm, IsPaid
  <2>2. CASE FinalizeFails(o, m)
    BY <2>2, FinishAt DEF FinalizeFails
  <2>. QED BY <2>1, <2>2
<1>6. MarkAsWaiting(r).pay = "waiting_for_deposit" /\ MarkAsWaiting(r).status = r.status
      /\ SameColumns(MarkAsWaiting(r), r)
  BY DEF MarkAsWaiting, SameColumns, Rows
<1>. HIDE DEF again
<1>. USE <1>1, <1>2
     DEF LegalMove, OrderInv, RowIsConsistent, PaymentAgreesWithOrder, FreeNeverAtToss, OneChain,
         ChainHasPayment, FinalizeIsApproved, ConfirmMayApprove, StepsMatchToss,
         RollbackFollowsFailure, IsChain, SameColumns
<1>11. CASE db'[o] = r /\ tasks'[o] = tasks[o] \ {m}
  BY <1>11
<1>12. CASE db'[o] = r /\ tasks'[o] = (tasks[o] \ {m}) \union {again}
  BY <1>3, <1>4, <1>12
<1>13. CASE db'[o] = MarkAsWaiting(r) /\ tasks'[o] = tasks[o] \ {m} /\ r.pay # "done"
  BY <1>6, <1>13
<1>14. CASE /\ db'[o] = FinalizeDone(r) /\ m.status = "DONE" /\ r.pay # "done"
            /\ tasks'[o] = tasks[o] \ {m} \/ tasks'[o] = (tasks[o] \ {m}) \union {PointsTask}
  BY <1>4, <1>14, FinalizeDoneRow
<1>. QED BY <1>5, <1>11, <1>12, <1>13, <1>14

(* The rollback, the points task and a lost message keep it too. *)
LEMMA WorkerKeeps ==
  ASSUME Calm, TypeOK, NEW o \in Orders, OrderInv(o), WorkerStep(o)
  PROVE  OrderInv(o)' /\ LegalMove(o)
<1>. DEFINE r == db[o]
<1>. USE OrderTypes
<1>. /\ RollbackTask.kind = "rollback" /\ PointsTask.kind = "points"
  BY DEF RollbackTask, PointsTask, Task
<1>1. ASSUME RollbackPaymentFailure(o)
      PROVE  /\ RollbackTask \in tasks[o] /\ UNCHANGED <<toss, hooks, open>>
             /\ tasks'[o] = tasks[o] \ {RollbackTask}
             /\ \/ r.status # "confirmed" /\ db'[o] = r
                \/ r.status = "confirmed" /\ db'[o] = RollbackFailure(r)
  BY <1>1, SetRowAt, FinishAt DEF RollbackPaymentFailure, Unpaid, OrderStatuses
<1>2. ASSUME AddPointsAfterPayment(o)
      PROVE  /\ UNCHANGED <<toss, hooks, open>> /\ tasks'[o] = tasks[o] \ {PointsTask}
             /\ db'[o].status = r.status /\ db'[o].pay = r.pay /\ SameColumns(db'[o], r)
  <2>1. /\ db'[o] = r \/ db'[o] = EarnPoints(r)
        /\ UNCHANGED <<toss, hooks, open>> /\ tasks'[o] = tasks[o] \ {PointsTask}
    BY <1>2, SetRowAt, FinishAt DEF AddPointsAfterPayment
  <2>2. /\ EarnPoints(r).status = r.status /\ EarnPoints(r).pay = r.pay
        /\ SameColumns(EarnPoints(r), r)
    BY EarnPointsRow DEF SameColumns
  <2>3. SameColumns(r, r)
    BY DEF SameColumns
  <2>. QED BY <2>1, <2>2, <2>3
<1>3. ASSUME NEW m, LoseTask(o, m)
      PROVE  UNCHANGED <<db, toss, hooks, open>> /\ tasks'[o] = tasks[o] \ {m}
  BY <1>3 DEF LoseTask, TypeOK
<1>. USE DEF LegalMove, OrderInv, RowIsConsistent, PaymentAgreesWithOrder, FreeNeverAtToss, OneChain,
             ChainHasPayment, FinalizeIsApproved, ConfirmMayApprove, StepsMatchToss,
             RollbackFollowsFailure, IsChain, SameColumns
<1>11. CASE RollbackPaymentFailure(o)
  BY <1>1, <1>11, RollbackFailureRow
<1>12. CASE AddPointsAfterPayment(o)
  BY <1>2, <1>12
<1>13. CASE \E m \in tasks[o] : LoseTask(o, m)
  BY <1>3, <1>13
<1>. QED BY <1>11, <1>12, <1>13, ConfirmKeeps, FinalizeKeeps
         DEF WorkerStep, ConfirmStep, FinalizeStep

(* The Beat sweeps keep the invariant. *)
LEMMA SweepKeeps ==
  ASSUME Calm, TypeOK, NEW o \in Orders, OrderInv(o), SweepStep(o)
  PROVE  OrderInv(o)' /\ LegalMove(o)
<1>. DEFINE r == db[o]
            fin == FinalizeTask(0, Report(toss[o]), r.pid)
<1>. USE OrderTypes
<1>. RollbackTask.kind = "rollback"
  BY DEF RollbackTask, Task
<1>1. fin.kind = "finalize" /\ fin.status = Report(toss[o]) /\ fin.pid = r.pid
  BY DEF FinalizeTask, Task
<1>. HIDE DEF fin
<1>2. ASSUME DetectOrphanedOrders(o)
      PROVE  /\ r.status = "confirmed" /\ r.pay = "aborted" /\ UNCHANGED <<db, toss, hooks, open>>
             /\ tasks'[o] = tasks[o] \union {RollbackTask}
  BY <1>2, PublishAt DEF DetectOrphanedOrders
<1>3. ASSUME ReconcileStalledPayments(o)
      PROVE  /\ r.pay = "in_progress" /\ UNCHANGED <<db, toss, hooks, open>>
             /\ \A n \in tasks[o] : n.kind \notin {"confirm", "finalize"}
             /\ \/ toss[o] \in Approved /\ tasks'[o] = tasks[o] \union {fin}
                \/ tasks'[o] = tasks[o]
  BY <1>3, PublishAt, CalmEnv DEF ReconcileStalledPayments, ChainIsOver, fin
<1>4. ASSUME ExpireUnpaidOrders(o)
      PROVE  /\ r.status = "confirmed" /\ r.pay \notin Live
             /\ UNCHANGED <<toss, tasks, hooks, open>>
             /\ db'[o] = CancelOrder(r, "expired")
  BY <1>4, SetRowAt DEF ExpireUnpaidOrders, CanCancelOrder, Unpaid, OrderStatuses
<1>5. "expired" \in PayStatuses
  BY DEF PayStatuses
<1>. USE DEF LegalMove, OrderInv, RowIsConsistent, PaymentAgreesWithOrder, FreeNeverAtToss, OneChain,
             ChainHasPayment, FinalizeIsApproved, ConfirmMayApprove, StepsMatchToss,
             RollbackFollowsFailure, IsChain
<1>11. CASE DetectOrphanedOrders(o)
  BY <1>2, <1>11
<1>12. CASE ReconcileStalledPayments(o)
  BY <1>1, <1>3, <1>12 DEF Approved, Charged, Settled, Report
<1>13. CASE ExpireUnpaidOrders(o)
  BY <1>4, <1>5, <1>13, CancelOrderRow DEF Live
<1>. QED BY <1>11, <1>12, <1>13 DEF SweepStep

(* What Toss does on its own keeps the invariant. *)
LEMMA TossKeeps ==
  ASSUME Calm, TypeOK, NEW o \in Orders, OrderInv(o), TossStep(o)
  PROVE  OrderInv(o)' /\ LegalMove(o)
<1>. USE OrderTypes
<1>1. ~TossRevertsDeposit(o) /\ ~AbandonedWindowExpires(o)
  BY CalmEnv DEF TossRevertsDeposit, AbandonedWindowExpires
<1>2. PICK t \in TossStatuses :
        /\ SetToss(o, t) /\ t # toss[o] /\ UNCHANGED <<db, tasks, open>>
        /\ \/ t = "DEPOSITED" /\ toss[o] = "WAITING_FOR_DEPOSIT"
           \/ /\ t = "EXPIRED" /\ toss[o] \in {"IN_PROGRESS", "WAITING_FOR_DEPOSIT"}
              /\ \A n \in tasks[o] : n.kind \notin {"confirm", "finalize"}
           \/ t = "CANCELED" /\ toss[o] \in Approved
  BY <1>1, CalmEnv
  DEF TossStep, TossDeposit, TossExpires, TossDashboardCancel, ChainIsOver, TossStatuses,
      Approved, Charged
<1>3. /\ toss'[o] = t /\ hooks'[o] = hooks[o] \union {"current"}
      /\ \A s \in open[o] : s.name # "hook"
  BY <1>2, SetTossAt
<1>. QED
  BY <1>2, <1>3
  DEF LegalMove, OrderInv, RowIsConsistent, PaymentAgreesWithOrder, FreeNeverAtToss, OneChain,
      ChainHasPayment, FinalizeIsApproved, ConfirmMayApprove, StepsMatchToss,
      RollbackFollowsFailure, IsChain, Approved, Charged, Settled, Dead

(* The webhook handlers keep the invariant, locked or not. *)
LEMMA HandlerKeeps ==
  ASSUME Calm, TypeOK, NEW o \in Orders, OrderInv(o), HandlerStep(o)
  PROVE  OrderInv(o)' /\ LegalMove(o)
<1>. DEFINE r == db[o]
<1>. USE OrderTypes
<1>. RollbackTask.kind = "rollback"
  BY DEF RollbackTask, Task
<1>0. ASSUME NEW status, Hook(status) \in open[o]
      PROVE  status = Report(toss[o]) /\ toss[o] # "NONE"
  <2>1. Hook(status).name = "hook" /\ Hook(status).arg = status
    BY DEF Hook, Step
  <2>. QED BY <1>0, <2>1 DEF OrderInv, StepsMatchToss
<1>1. ASSUME HandlePaymentDone(o)
      PROVE  /\ toss[o] \in Charged /\ UNCHANGED <<toss, tasks>>
             /\ hooks'[o] \in {hooks[o], hooks[o] \union {"current"}}
             /\ open'[o] \subseteq open[o]
             /\ \/ db'[o] = r
                \/ /\ r.pay \notin {"none", "done", "canceled", "aborted", "expired"}
                   /\ db'[o] = WebhookDone(r)
  <2>1. Hook("DONE") \in open[o] /\ End(o, Hook("DONE")) /\ UNCHANGED <<toss, tasks>>
    BY <1>1 DEF HandlePaymentDone
  <2>2. toss[o] \in Charged
    BY <1>0, <2>1 DEF Report, Charged, TossStatuses
  <2>3. open'[o] \subseteq open[o]
    BY <2>1, EndAt
  <2>4. hooks'[o] \in {hooks[o], hooks[o] \union {"current"}}
    BY <1>1 DEF HandlePaymentDone, TypeOK
  <2>5. \/ db'[o] = r
        \/ /\ r.pay \notin {"none", "done", "canceled", "aborted", "expired"}
           /\ db'[o] = WebhookDone(r)
    BY <1>1, SetRowAt DEF HandlePaymentDone
  <2>. QED BY <2>1, <2>2, <2>3, <2>4, <2>5
<1>2. ASSUME NEW reclaimed \in BOOLEAN, HandlePaymentCanceled(o, reclaimed)
      PROVE  /\ toss[o] = "CANCELED" /\ UNCHANGED <<toss, tasks, hooks>>
             /\ open'[o] \subseteq open[o]
             /\ \/ db'[o] = r
                \/ /\ r.pay \notin {"none", "aborted"}
                   /\ db'[o] = WebhookCanceled(r, reclaimed)
  <2>1. /\ Hook("CANCELED") \in open[o] /\ End(o, Hook("CANCELED"))
        /\ UNCHANGED <<toss, tasks, hooks>>
    BY <1>2 DEF HandlePaymentCanceled
  <2>2. toss[o] = "CANCELED"
    BY <1>0, <2>1 DEF Report, TossStatuses
  <2>3. open'[o] \subseteq open[o]
    BY <2>1, EndAt
  <2>4. \/ db'[o] = r
        \/ r.pay \notin {"none", "aborted"} /\ db'[o] = WebhookCanceled(r, reclaimed)
    BY <1>2, SetRowAt DEF HandlePaymentCanceled
  <2>. QED BY <2>1, <2>2, <2>3, <2>4
<1>3. ASSUME NEW reclaimed \in BOOLEAN, HandleWaitingForDeposit(o, reclaimed)
      PROVE  /\ toss[o] = "WAITING_FOR_DEPOSIT" /\ UNCHANGED <<toss, tasks, hooks>>
             /\ open'[o] \subseteq open[o]
             /\ \/ db'[o] = r
                \/ /\ r.pay \in {"ready", "in_progress", "done"}
                   /\ db'[o] = WebhookWaiting(r, reclaimed)
  <2>1. /\ Hook("WAITING_FOR_DEPOSIT") \in open[o] /\ End(o, Hook("WAITING_FOR_DEPOSIT"))
        /\ UNCHANGED <<toss, tasks, hooks>>
    BY <1>3 DEF HandleWaitingForDeposit
  <2>2. toss[o] = "WAITING_FOR_DEPOSIT"
    BY <1>0, <2>1 DEF Report, TossStatuses
  <2>3. open'[o] \subseteq open[o]
    BY <2>1, EndAt
  <2>4. \/ db'[o] = r
        \/ /\ r.pay \in {"ready", "in_progress", "done"}
           /\ db'[o] = WebhookWaiting(r, reclaimed)
    BY <1>3, SetRowAt DEF HandleWaitingForDeposit, PayStatuses
  <2>. QED BY <2>1, <2>2, <2>3, <2>4
<1>4. ASSUME NEW status, HandleFailedReads(o, status)
      PROVE  /\ toss[o] \in Dead /\ UNCHANGED <<db, toss, tasks, hooks>>
             /\ \A s \in open'[o] : s \in open[o] \/ s.name = "failwrite"
  <2>1. /\ status \in {"ABORTED", "EXPIRED"} /\ Hook(status) \in open[o]
        /\ UNCHANGED <<db, toss, tasks, hooks>>
    BY <1>4 DEF HandleFailedReads
  <2>2. toss[o] \in Dead
    BY <1>0, <2>1 DEF Report, Dead, TossStatuses
  <2>3. Step("failwrite", status, r.pid).name = "failwrite"
    BY DEF Step
  <2>4. open'[o] \subseteq open[o] \union {Step("failwrite", status, r.pid)}
    BY <1>4 DEF HandleFailedReads, TypeOK
  <2>. QED BY <2>1, <2>2, <2>3, <2>4
<1>5. ASSUME NEW s \in open[o], HandleFailedWrites(o, s)
      PROVE  /\ s.name = "failwrite" /\ UNCHANGED <<toss, hooks>> /\ open'[o] \subseteq open[o]
             /\ \/ db'[o] = r /\ tasks'[o] = tasks[o]
                \/ /\ db'[o].status = r.status /\ db'[o].pay \in {"aborted", "expired"}
                   /\ SameColumns(db'[o], r)
                   /\ tasks'[o] \in {tasks[o], tasks[o] \union {RollbackTask}}
  <2>1. s.name = "failwrite" /\ End(o, s) /\ UNCHANGED <<toss, hooks>>
    BY <1>5 DEF HandleFailedWrites
  <2>2. open'[o] \subseteq open[o]
    BY <2>1, EndAt
  <2>3. CASE s.pid # r.pid
    BY <1>5, <2>1, <2>2, <2>3 DEF HandleFailedWrites
  <2>4. CASE s.pid = r.pid
    <3>1. tasks'[o] \in {tasks[o], tasks[o] \union {RollbackTask}}
      <4>1. PICK new \in {{}, {RollbackTask}} : Publish(o, new)
        BY <1>5, <2>4 DEF HandleFailedWrites
      <4>. QED BY <4>1, PublishAt
    <3>2. db'[o] \in {SaveAsFailed(r, "expired"), SaveAsFailed(r, "aborted")}
      BY <1>5, <2>4, SetRowAt DEF HandleFailedWrites
    <3>3. /\ db'[o].status = r.status /\ db'[o].pay \in {"aborted", "expired"}
          /\ SameColumns(db'[o], r)
      BY <3>2 DEF SaveAsFailed, SameColumns, Rows
    <3>. QED BY <2>1, <2>2, <3>1, <3>3
  <2>. QED BY <2>3, <2>4
<1>6. ASSUME IgnoreWebhook(o)
      PROVE  UNCHANGED <<db, toss, tasks, hooks>> /\ open'[o] \subseteq open[o]
  BY <1>6, EndAt DEF IgnoreWebhook
<1>7. /\ WebhookDone(r).pay = "done"
      /\ WebhookDone(r).free = r.free /\ WebhookDone(r).pid = r.pid
      /\ WebhookDone(r).status = IF r.status = "canceled" THEN "canceled" ELSE "paid"
      /\ WebhookDone(r).held = r.held /\ WebhookDone(r).spent = r.spent
      /\ WebhookDone(r).sold = IF r.status \in {"canceled", "paid"} THEN r.sold ELSE r.sold + 1
  BY WebhookDoneRow
<1>. USE DEF LegalMove, OrderInv, RowIsConsistent, PaymentAgreesWithOrder, FreeNeverAtToss, OneChain,
             ChainHasPayment, FinalizeIsApproved, ConfirmMayApprove, StepsMatchToss,
             RollbackFollowsFailure, IsChain, SameColumns, Approved, Charged, Settled, Dead
<1>11. CASE HandlePaymentDone(o)
  <2>1. CASE db'[o] = r
    BY <1>1, <1>11, <2>1
  <2>2. CASE /\ r.pay \notin {"none", "done", "canceled", "aborted", "expired"}
             /\ db'[o] = WebhookDone(r)
    <3>1. r.pay \in {"ready", "in_progress", "waiting_for_deposit"} /\ r.status # "paid"
      BY <2>2 DEF PayStatuses
    <3>. QED BY <1>1, <1>7, <1>11, <2>2, <3>1
  <2>. QED BY <1>1, <1>11, <2>1, <2>2
<1>12. CASE \E reclaimed \in BOOLEAN : HandlePaymentCanceled(o, reclaimed)
  BY <1>2, <1>12, WebhookCanceledRow DEF OrderStatuses
<1>13. CASE \E reclaimed \in BOOLEAN : HandleWaitingForDeposit(o, reclaimed)
  BY <1>3, <1>13, WebhookWaitingRow
<1>14. CASE \E status \in {"ABORTED", "EXPIRED"} : HandleFailedReads(o, status)
  BY <1>4, <1>14
<1>15. CASE \E s \in open[o] : HandleFailedWrites(o, s)
  BY <1>5, <1>15
<1>16. CASE IgnoreWebhook(o)
  BY <1>6, <1>16
<1>. QED BY <1>11, <1>12, <1>13, <1>14, <1>15, <1>16 DEF HandlerStep

(* Delivery and deduplication of webhooks keep it. *)
LEMMA WebhookKeeps ==
  ASSUME Calm, TypeOK, NEW o \in Orders, OrderInv(o), WebhookStep(o)
  PROVE  OrderInv(o)' /\ LegalMove(o)
<1>1. ASSUME NEW w \in Windows, WebhookArrives(o, w) PROVE OrderInv(o)' /\ LegalMove(o)
  <2>1. /\ w \in hooks[o] /\ w = "current" /\ toss[o] # "NONE" /\ UNCHANGED <<db, toss, tasks>>
        /\ Begin(o, Step("hook", Report(toss[o]), 0))
    BY <1>1 DEF WebhookArrives, OrderInv, StepsMatchToss, Windows, Lookup
  <2>2. open'[o] = open[o] \union {Step("hook", Report(toss[o]), 0)}
    BY <2>1, BeginAt
  <2>3. hooks'[o] \subseteq hooks[o]
    BY <1>1 DEF WebhookArrives, TypeOK
  <2>4. /\ Step("hook", Report(toss[o]), 0).name = "hook"
        /\ Step("hook", Report(toss[o]), 0).arg = Report(toss[o])
    BY DEF Step
  <2>. QED
    BY <2>1, <2>2, <2>3, <2>4
    DEF LegalMove, OrderInv, RowIsConsistent, PaymentAgreesWithOrder, FreeNeverAtToss, OneChain,
        ChainHasPayment, FinalizeIsApproved, ConfirmMayApprove, StepsMatchToss,
        RollbackFollowsFailure
<1>2. ASSUME NEW status, DedupExpires(o, status) PROVE OrderInv(o)' /\ LegalMove(o)
  BY <1>2, SameInv DEF DedupExpires, Same, LegalMove
<1>. QED BY <1>1, <1>2, HandlerKeeps DEF WebhookStep

-----------------------------------------------------------------------------
(* The theorems. *)

(* A confirmed order without a payment satisfies the invariant. *)
LEMMA InitKeeps == Init => NoCrossPurpose
<1>. SUFFICES ASSUME Init, NEW o \in Orders PROVE OrderInv(o)
  BY DEF NoCrossPurpose
<1>1. PICK free \in BOOLEAN : db[o] = ConfirmedOrder(free)
  BY DEF Init
<1>2. /\ db[o].status = "confirmed" /\ db[o].pay = "none" /\ db[o].held = 1
      /\ db[o].spent = 1 /\ db[o].sold = 0
  BY <1>1 DEF ConfirmedOrder
<1>3. toss[o] = "NONE" /\ tasks[o] = {} /\ hooks[o] = {} /\ open[o] = {}
  BY DEF Init
<1>. QED
  BY <1>2, <1>3
  DEF OrderInv, RowIsConsistent, PaymentAgreesWithOrder, FreeNeverAtToss, OneChain,
      ChainHasPayment, FinalizeIsApproved, ConfirmMayApprove, StepsMatchToss,
      RollbackFollowsFailure

(* Every step for one order keeps the invariant of all orders. *)
LEMMA StepKeeps ==
  ASSUME Calm, TypeOK, NoCrossPurpose, [Next]_vars
  PROVE  NoCrossPurpose'
<1>1. ASSUME NEW o \in Orders, OrderStep(o), NEW p \in Orders PROVE OrderInv(p)'
  <2>1. OrderInv(p)
    BY DEF NoCrossPurpose
  <2>2. CASE p = o
    BY <1>1, <2>1, <2>2, CustomerKeeps, WorkerKeeps, SweepKeeps, WebhookKeeps, TossKeeps
    DEF OrderStep
  <2>3. CASE p # o
    BY <1>1, <2>1, <2>3, Frame, SameInv
  <2>. QED BY <2>2, <2>3
<1>2. ASSUME UNCHANGED vars, NEW p \in Orders PROVE OrderInv(p)'
  BY <1>2, SameInv DEF NoCrossPurpose, vars, Same
<1>. QED BY <1>1, <1>2 DEF NoCrossPurpose, Next

(* In a calm environment the confirm chain, the rollback, the webhooks, the *)
(* sweeps and the customer never work at cross purposes on an order.        *)
THEOREM CrossPurposeTheorem ==
  ASSUME Calm
  PROVE  Spec => []NoCrossPurpose
<1>1. TypeOK /\ NoCrossPurpose /\ [Next]_vars => NoCrossPurpose'
  BY StepKeeps
<1>. QED BY <1>1, InitKeeps, TypesAreKept, PTL DEF Spec

(* In a calm environment stock and points are returned exactly once,        *)
(* however an order ends.                                                   *)
THEOREM StockTheorem ==
  ASSUME Calm
  PROVE  Spec => []StockFollowsOrder
<1>1. NoCrossPurpose => StockFollowsOrder
  BY DEF NoCrossPurpose, OrderInv, RowIsConsistent, StockFollowsOrder
<1>. QED BY <1>1, CrossPurposeTheorem, PTL

(* In a calm environment a sale is counted once, whichever of the chain,    *)
(* the webhook, the synchronous page and the sweep records it.              *)
THEOREM SoldTheorem ==
  ASSUME Calm
  PROVE  Spec => []SoldFollowsPaid
<1>1. NoCrossPurpose => SoldFollowsPaid
  BY DEF NoCrossPurpose, OrderInv, RowIsConsistent, SoldFollowsPaid
<1>. QED BY <1>1, CrossPurposeTheorem, PTL

(* In a calm environment no order is paid that Toss has not charged. *)
THEOREM ChargedTheorem ==
  ASSUME Calm
  PROVE  Spec => []PaidWasCharged
<1>1. NoCrossPurpose => PaidWasCharged
  BY DEF NoCrossPurpose, OrderInv, PaymentAgreesWithOrder, PaidWasCharged, Settled
<1>. QED BY <1>1, CrossPurposeTheorem, PTL

-----------------------------------------------------------------------------
(* The refinement. *)

(* The initial states are initial states of the life cycle. *)
LEMMA InitRefines == Init => Lifecycle!Init
<1>. SUFFICES ASSUME Init PROVE Lifecycle!Init
  OBVIOUS
<1>1. ASSUME NEW o \in Orders
      PROVE  /\ db[o].status = "confirmed" /\ db[o].held = 1 /\ db[o].spent = 1
             /\ db[o].sold = 0
  <2>1. PICK free \in BOOLEAN : db[o] = ConfirmedOrder(free)
    BY DEF Init
  <2>. QED BY <2>1 DEF ConfirmedOrder
<1>. QED BY <1>1 DEF Lifecycle!Init, Column

(* Every step is a step of the life cycle or leaves it alone. *)
LEMMA StepRefines ==
  ASSUME Calm, TypeOK, NoCrossPurpose, NoCrossPurpose', [Next]_vars
  PROVE  [Lifecycle!Next]_Lifecycle!vars
<1>1. CASE UNCHANGED vars
  BY <1>1 DEF vars, Lifecycle!vars, Column
<1>2. ASSUME NEW o \in Orders, OrderStep(o)
      PROVE  Lifecycle!Next \/ UNCHANGED Lifecycle!vars
  <2>1. OrderInv(o)
    BY DEF NoCrossPurpose
  <2>2. LegalMove(o)
    BY <1>2, <2>1, CustomerKeeps, WorkerKeeps, SweepKeeps, WebhookKeeps, TossKeeps
    DEF OrderStep
  <2>3. \A p \in Orders : p # o => db'[p] = db[p]
    BY <1>2, Frame DEF Same
  <2>4. RowIsConsistent(db[o]) /\ RowIsConsistent(db'[o])
    BY DEF NoCrossPurpose, OrderInv
  <2>5. CASE db'[o].status = db[o].status
    <3>1. /\ db'[o].held = db[o].held /\ db'[o].spent = db[o].spent
          /\ db'[o].sold = db[o].sold
      BY <2>4, <2>5 DEF RowIsConsistent
    <3>. QED BY <2>3, <2>5, <3>1 DEF Lifecycle!vars, Column
  <2>6. CASE db[o].status = "confirmed" /\ db'[o].status = "paid"
    <3>1. Lifecycle!Pay(o)
      BY <2>3, <2>4, <2>6 DEF Lifecycle!Pay, Column, RowIsConsistent
    <3>. QED BY <3>1 DEF Lifecycle!Next
  <2>7. CASE db[o].status = "confirmed" /\ db'[o].status = "payment_failed"
    <3>1. Lifecycle!Close(o, "payment_failed")
      BY <2>3, <2>4, <2>7 DEF Lifecycle!Close, Column, RowIsConsistent
    <3>. QED BY <3>1 DEF Lifecycle!Next
  <2>8. CASE db[o].status \in {"confirmed", "paid"} /\ db'[o].status = "canceled"
    <3>1. Lifecycle!Close(o, "canceled")
      BY <2>3, <2>4, <2>8 DEF Lifecycle!Close, Column, RowIsConsistent
    <3>. QED BY <3>1 DEF Lifecycle!Next
  <2>9. CASE db[o].status = "payment_failed" /\ db'[o].status = "canceled"
    <3>1. Lifecycle!CancelFailed(o)
      BY <2>3, <2>4, <2>9 DEF Lifecycle!CancelFailed, Column, RowIsConsistent
    <3>. QED BY <3>1 DEF Lifecycle!Next
  <2>. QED BY <2>2, <2>5, <2>6, <2>7, <2>8, <2>9 DEF LegalMove
<1>. QED BY <1>1, <1>2 DEF Next

(* In a calm environment every step of the payment flow is a step of the    *)
(* life cycle the shop promises, or leaves it alone.                        *)
THEOREM RefinementTheorem ==
  ASSUME Calm
  PROVE  Spec => ImplementsLifecycle
<1>1. TypeOK /\ NoCrossPurpose /\ NoCrossPurpose' /\ [Next]_vars
        => [Lifecycle!Next]_Lifecycle!vars
  BY StepRefines
<1>. QED
  BY <1>1, InitRefines, TypesAreKept, CrossPurposeTheorem, PTL
  DEF Spec, Lifecycle!Spec, ImplementsLifecycle

(* In a calm environment no step revives an order that was canceled or has  *)
(* failed.                                                                  *)
THEOREM FinalityTheorem ==
  ASSUME Calm
  PROVE  Spec => CanceledIsFinal /\ FailedStaysFailed
<1>1. ASSUME TypeOK, NoCrossPurpose, [Next]_vars, NEW p \in Orders PROVE LegalMove(p)
  <2>1. OrderInv(p)
    BY <1>1 DEF NoCrossPurpose
  <2>2. ASSUME NEW o \in Orders, OrderStep(o) PROVE LegalMove(p)
    <3>1. CASE p = o
      BY <1>1, <2>1, <2>2, <3>1, CustomerKeeps, WorkerKeeps, SweepKeeps, WebhookKeeps, TossKeeps
      DEF OrderStep
    <3>2. CASE p # o
      BY <1>1, <2>2, <3>2, Frame DEF Same, LegalMove
    <3>. QED BY <3>1, <3>2
  <2>3. CASE UNCHANGED vars
    BY <2>3 DEF vars, LegalMove
  <2>. QED BY <1>1, <2>2, <2>3 DEF Next
<1>2. TypeOK /\ NoCrossPurpose /\ [Next]_vars
        => [\A o \in Orders : db[o].status = "canceled" => db'[o].status = "canceled"]_vars
  BY <1>1 DEF LegalMove
<1>3. TypeOK /\ NoCrossPurpose /\ [Next]_vars
        => [\A o \in Orders : db[o].status = "payment_failed" =>
              db'[o].status \in {"payment_failed", "canceled"}]_vars
  BY <1>1 DEF LegalMove
<1>. QED
  BY <1>2, <1>3, TypesAreKept, CrossPurposeTheorem, PTL DEF Spec, CanceledIsFinal, FailedStaysFailed

-----------------------------------------------------------------------------
(* Why a charge stands: ChargeInv is kept in every environment without      *)
(* PrematureOptions, calm or not.                                           *)

Orderly == env \intersect PrematureOptions = {}

(* The options such an environment does not offer. *)
LEMMA OrderlyEnv ==
  ASSUME Orderly
  PROVE  /\ "sync_confirm" \notin env /\ "unanswered" \notin env /\ "late_create" \notin env
         /\ "second_window" \notin env /\ "redeliver" \notin env
  BY DEF Orderly, PrematureOptions

(* Toss has not approved the payment and no queued message can make it. *)
Hopeless(o) ==
  /\ toss[o] \notin Approved
  /\ toss[o] = "IN_PROGRESS" => \A m \in tasks[o] : m.kind # "confirm"

(* A payment that does not stand is beyond approval. *)
LEMMA FallenIsHopeless ==
  ASSUME NEW o, ChargeInv(o), ~Stands(db[o]) \/ RollbackTask \in tasks[o]
  PROVE  Hopeless(o)
  BY DEF ChargeInv, ApprovedStands, FailureIsFinal, Hopeless

(* A step that leaves Toss alone, opens no request and queues no confirm    *)
(* message keeps the invariant, if it gives up no payment that may still be *)
(* approved.                                                                *)
LEMMA BystanderKeeps ==
  ASSUME NEW o, ChargeInv(o),
         toss'[o] = toss[o], open'[o] \subseteq open[o], "abandoned" \notin hooks'[o],
         \A m \in tasks'[o] : m \in tasks[o] \/ m.kind # "confirm",
         db'[o].free = db[o].free,
         db'[o].pay = "ready" => db[o].pay = "ready" /\ db'[o].status = db[o].status,
         db'[o].pay = "none" => db[o].pay = "none",
         Hopeless(o) \/ (Stands(db[o]) => Stands(db'[o])),
         RollbackTask \in tasks'[o] =>
           RollbackTask \in tasks[o] \/ (Hopeless(o) /\ db'[o].pay \notin {"none", "ready"})
  PROVE  ChargeInv(o)'
<1>1. ApprovedStands(o)'
  BY DEF ChargeInv, ApprovedStands, FailureIsFinal, Hopeless
<1>2. ReadyIsOpen(o)'
  BY DEF ChargeInv, ReadyIsOpen
<1>3. FailureIsFinal(o)'
  BY DEF ChargeInv, FailureIsFinal, Hopeless
<1>. QED BY <1>1, <1>2, <1>3 DEF ChargeInv

(* The payment views keep it.  A request that stalls before its lock is one *)
(* for an order that costs nothing, which Toss never sees.                  *)
LEMMA CustomerCharge ==
  ASSUME Orderly, TypeOK, NEW o \in Orders, ChargeInv(o), CustomerStep(o)
  PROVE  ChargeInv(o)'
<1>. DEFINE r == db[o]
<1>. USE OrderTypes, OrderlyEnv
<1>. "abandoned" \notin hooks[o]
  BY DEF ChargeInv, FailureIsFinal
<1>1. CASE RequestPayment(o)
  <2>1. r.pay = "none" /\ r.status = "confirmed" /\ UNCHANGED <<toss, tasks, hooks, open>>
    BY <1>1 DEF RequestPayment, MayRequest
  <2>2. db'[o] = CreatePayment(r)
    BY <1>1, SetRowAt DEF RequestPayment
  <2>3. db'[o].pay = "ready" /\ db'[o].status = r.status /\ db'[o].free = r.free
    BY <2>2 DEF CreatePayment, Rows
  <2>. QED BY <2>1, <2>3 DEF ChargeInv, ApprovedStands, ReadyIsOpen, FailureIsFinal, Stands, Live
<1>2. ~RequestStalls(o) /\ ~ConfirmSync(o)
  BY DEF RequestStalls, ConfirmSync
<1>3. ~RequestResumes(o)
  <2>1. Step("create", "", 0).name = "create"
    BY DEF Step
  <2>. QED BY <2>1 DEF RequestResumes, ChargeInv, FailureIsFinal
<1>4. CASE Authenticate(o)
  <2>1. /\ toss[o] = "NONE" /\ SetToss(o, "IN_PROGRESS") /\ ~r.free /\ UNCHANGED <<db, tasks, open>>
        /\ \A s \in open[o] : s.name # "failview"
    BY <1>4 DEF Authenticate
  <2>2. toss'[o] = "IN_PROGRESS" /\ hooks'[o] = hooks[o] \union {"current"}
    BY <2>1 DEF SetToss, TypeOK
  <2>. QED BY <2>1, <2>2
       DEF ChargeInv, ApprovedStands, ReadyIsOpen, FailureIsFinal, Approved, Charged, Dead, Final
<1>5. CASE ConfirmAsync(o)
  <2>1. /\ toss[o] # "NONE" /\ r.pay = "ready" /\ UNCHANGED <<toss, hooks, open>>
    BY <1>5 DEF ConfirmAsync
  <2>2. db'[o] = [r EXCEPT !.pay = "in_progress"]
    BY <1>5, SetRowAt DEF ConfirmAsync
  <2>3. db'[o].pay = "in_progress" /\ db'[o].status = r.status /\ db'[o].free = r.free
    BY <2>2 DEF Rows
  <2>4. tasks'[o] = tasks[o] \union {ConfirmTask(0, r.pid)}
    BY <1>5, PublishAt DEF ConfirmAsync
  <2>5. /\ ConfirmTask(0, r.pid).kind = "confirm" /\ RollbackTask.kind = "rollback"
    BY Messages
  <2>6. /\ \A m \in tasks[o] : m.kind # "confirm"
        /\ RollbackTask \notin tasks[o] /\ r.status = "confirmed"
    BY <2>1 DEF ChargeInv, ApprovedStands, ReadyIsOpen, FailureIsFinal
  <2>7. Stands(db'[o])
    BY <2>3, <2>6 DEF Stands, Live
  <2>. QED BY <2>1, <2>3, <2>4, <2>5, <2>6, <2>7
       DEF ChargeInv, ApprovedStands, ReadyIsOpen, FailureIsFinal
<1>6. CASE ConfirmPublishFails(o)
  <2>1. r.pay = "ready" /\ UNCHANGED <<toss, tasks, hooks, open>>
    BY <1>6 DEF ConfirmPublishFails
  <2>2. db'[o] = SaveAsFailed(r, "aborted")
    BY <1>6, SetRowAt DEF ConfirmPublishFails
  <2>3. db'[o].pay = "aborted" /\ db'[o].free = r.free
    BY <2>2 DEF SaveAsFailed, Rows
  <2>4. Hopeless(o)
    BY <2>1, FallenIsHopeless DEF Stands, Live
  <2>. QED BY <2>1, <2>3, <2>4, BystanderKeeps
<1>7. CASE FailViewReads(o)
  <2>1. toss[o] = "NONE" /\ UNCHANGED <<db, toss, tasks, hooks>>
    BY <1>7 DEF FailViewReads
  <2>2. open'[o] = open[o] \union {Step("failview", "", r.pid)}
    BY <1>7, BeginAt DEF FailViewReads
  <2>3. Step("failview", "", r.pid).name = "failview"
    BY DEF Step
  <2>. QED BY <2>1, <2>2, <2>3 DEF ChargeInv, ApprovedStands, ReadyIsOpen, FailureIsFinal
<1>8. ASSUME NEW s \in open[o], FailViewWrites(o, s) PROVE ChargeInv(o)'
  <2>1. s.name = "failview" /\ UNCHANGED <<toss, tasks, hooks>>
    BY <1>8 DEF FailViewWrites
  <2>2. open'[o] \subseteq open[o]
    BY <1>8, EndAt DEF FailViewWrites
  <2>3. toss[o] = "NONE"
    BY <2>1 DEF ChargeInv, FailureIsFinal
  <2>4. Hopeless(o)
    BY <2>3 DEF Hopeless, Approved, Charged
  <2>5. db'[o] \in {r, SaveAsFailed(r, "aborted")}
    BY <1>8, SetRowAt DEF FailViewWrites
  <2>6. db'[o] = r \/ (db'[o].pay = "aborted" /\ db'[o].free = r.free)
    BY <2>5 DEF SaveAsFailed, Rows
  <2>. QED BY <2>1, <2>2, <2>4, <2>6, BystanderKeeps
<1>9. CASE PointsOnlyPayment(o) \/ PointsOnlyResumes(o)
  <2>1. UNCHANGED <<toss, tasks, hooks>>
    BY <1>9 DEF PointsOnlyPayment, PointsOnlyResumes
  <2>2. open'[o] \subseteq open[o]
    BY <1>9, EndAt DEF PointsOnlyPayment, PointsOnlyResumes
  <2>3. db'[o] = r \/ db'[o] = CompletePointsOnly(r)
    BY <1>9, SetRowAt DEF PointsOnlyPayment, PointsOnlyResumes
  <2>4. \/ db'[o] = r
        \/ db'[o].status = "paid" /\ db'[o].pay = "done" /\ db'[o].free = r.free
    BY <2>3, CompletePointsOnlyRow
  <2>5. Stands(r) => Stands(db'[o])
    BY <2>4 DEF Stands, Live
  <2>. QED BY <2>1, <2>2, <2>4, <2>5, BystanderKeeps
<1>10. CASE PointsOnlyStalls(o)
  <2>1. UNCHANGED <<db, toss, tasks, hooks>>
    BY <1>10 DEF PointsOnlyStalls
  <2>2. open'[o] = open[o] \union {Step("points", "", 0)}
    BY <1>10, BeginAt DEF PointsOnlyStalls
  <2>3. Step("points", "", 0).name = "points"
    BY DEF Step
  <2>. QED BY <2>1, <2>2, <2>3 DEF ChargeInv, ApprovedStands, ReadyIsOpen, FailureIsFinal
<1>11. CASE CancelByCustomer(o)
  <2>1. r.pay \notin Live /\ UNCHANGED <<toss, tasks, hooks, open>>
    BY <1>11 DEF CancelByCustomer, CanCancelOrder
  <2>2. db'[o] = CancelOrder(r, "canceled") /\ "canceled" \in PayStatuses
    BY <1>11, SetRowAt DEF CancelByCustomer, PayStatuses
  <2>3. /\ db'[o].pay \in {r.pay, "canceled"} /\ db'[o].pay # "ready" /\ db'[o].free = r.free
    BY <2>2, CancelOrderRow
  <2>4. Hopeless(o)
    BY <2>1, FallenIsHopeless DEF Stands
  <2>. QED BY <2>1, <2>3, <2>4, BystanderKeeps
<1>12. CASE CancelVirtualAccount(o) \/ CancelPayment(o)
  <2>1. /\ toss[o] \in Approved /\ SetToss(o, "CANCELED") /\ UNCHANGED <<tasks, open>>
    BY <1>12 DEF CancelVirtualAccount, CancelPayment, Approved
  <2>2. toss'[o] = "CANCELED" /\ hooks'[o] \subseteq hooks[o] \union {"current"}
    BY <2>1 DEF SetToss, TypeOK
  <2>3. /\ MarkAsCanceled(r) \in Rows /\ MarkAsCanceled(r).pay = "canceled"
        /\ MarkAsCanceled(r).free = r.free /\ "canceled" \in PayStatuses
    <3>1. MarkAsCanceled(r) \in Rows /\ "canceled" \in PayStatuses
      BY PrimitiveRows DEF PayStatuses, OrderStatuses
    <3>. QED BY <3>1 DEF MarkAsCanceled, Rows
  <2>4. \/ db'[o] = r
        \/ db'[o] = CancelOrder(MarkAsCanceled(r), "canceled") \/ db'[o] = RefundPayment(r)
    BY <1>12, SetRowAt DEF CancelVirtualAccount, CancelPayment
  <2>5. /\ db'[o] = r \/ db'[o].pay = "canceled"
        /\ db'[o].free = r.free
    BY <2>3, <2>4, CancelOrderRow, RefundPaymentRow
  <2>. QED BY <2>1, <2>2, <2>5
       DEF ChargeInv, ApprovedStands, ReadyIsOpen, FailureIsFinal, Approved, Charged, Dead, Final
<1>. QED BY <1>1, <1>2, <1>3, <1>4, <1>5, <1>6, <1>7, <1>8, <1>9, <1>10, <1>11, <1>12 DEF CustomerStep


(* A refused confirm call has found nothing approved. *)
LEMMA RefusedIsNotApproved ==
  ASSUME NEW was \in TossStatuses, NEW t, <<t, "refused">> \in ConfirmReplies(was)
  PROVE  t \notin Approved
<1>1. CASE was = "IN_PROGRESS"
  BY <1>1 DEF ConfirmReplies, Approved, Charged
<1>2. CASE was \in Approved
  BY <1>2 DEF ConfirmReplies, Approved, Charged, Report
<1>3. CASE was \notin Approved \union {"IN_PROGRESS"}
  BY <1>3 DEF ConfirmReplies
<1>. QED BY <1>1, <1>2, <1>3

(* A task that ended is gone from the queue. *)
LEMMA FinishEnds ==
  ASSUME Orderly, TypeOK, NEW o \in Orders, NEW m, NEW new, Finish(o, m, new)
  PROVE  tasks'[o] = (tasks[o] \ {m}) \union new
  BY OrderlyEnv DEF TypeOK, Finish

(* The confirm call keeps it: it gives up only what Toss refused or never   *)
(* approved, and it is the last message that could have got it approved.    *)
LEMMA ConfirmCharge ==
  ASSUME Orderly, TypeOK, NEW o \in Orders, ChargeInv(o), NEW m, NEW t, NEW reply,
         CallTossConfirm(o, m, t, reply)
  PROVE  ChargeInv(o)'
<1>. DEFINE r == db[o]
<1>. USE OrderTypes
<1>1. /\ m \in tasks[o] /\ m \in TaskSet /\ m.kind = "confirm" /\ UNCHANGED open
      /\ <<t, reply>> \in ConfirmReplies(toss[o]) /\ SetToss(o, t) /\ ~Unanswered(m, t, reply)
  BY OrderlyEnv DEF CallTossConfirm
<1>2. t = toss[o] \/ (toss[o] = "IN_PROGRESS" /\ t \in {"DONE", "WAITING_FOR_DEPOSIT", "ABORTED"})
  BY <1>1, ConfirmReplyFacts
<1>3. toss'[o] = t /\ hooks'[o] \subseteq hooks[o] \union {"current"}
  BY <1>1 DEF SetToss, TypeOK
<1>4. /\ toss[o] # "NONE" /\ ~r.free /\ r.pay \notin {"none", "ready"}
      /\ \A n \in tasks[o] : n.kind = "confirm" => n = m
      /\ t \in Approved \union {"IN_PROGRESS"} => Stands(r) /\ RollbackTask \notin tasks[o]
  BY <1>1, <1>2 DEF ChargeInv, ApprovedStands, ReadyIsOpen, FailureIsFinal, Approved, Charged
<1>. DEFINE again == [m EXCEPT !.n = @ + 1]
            fin == FinalizeTask(0, reply, m.pid)
<1>5. again.kind = "confirm" /\ fin.kind = "finalize" /\ RollbackTask.kind = "rollback"
  BY <1>1, RetriedMessage, Messages
<1>6. \/ db'[o] = r /\ tasks'[o] = (tasks[o] \ {m}) \union {fin}
      \/ db'[o] = r /\ tasks'[o] = (tasks[o] \ {m}) \union {again}
      \/ /\ ConfirmGivesUp(m, reply) /\ db'[o] = MarkAsFailed(r, "aborted")
         /\ tasks'[o] = (tasks[o] \ {m}) \union {RollbackTask}
      \/ db'[o] = r /\ tasks'[o] = tasks[o] \ {m}
  BY SetRowAt, FinishEnds DEF CallTossConfirm
<1>7. ConfirmGivesUp(m, reply) => t \notin Approved
  BY <1>1, RefusedIsNotApproved DEF ConfirmGivesUp, Unanswered
<1>8. MarkAsFailed(r, "aborted").pay = "aborted" /\ MarkAsFailed(r, "aborted").free = r.free
  BY <1>4 DEF MarkAsFailed, Rows
<1>9. ASSUME NEW s \in open[o]
      PROVE  /\ s.name # "create" /\ s.name # "failview"
             /\ s.name = "failwrite" => t \in Dead
             /\ s.name = "hook" /\ s.arg \in Final => t = s.arg
  BY <1>2, <1>4 DEF ChargeInv, FailureIsFinal, Dead, Final
<1>. HIDE DEF again, fin
<1>11. FailureIsFinal(o)'
  <2>1. "abandoned" \notin hooks'[o]
    BY <1>3 DEF ChargeInv, FailureIsFinal
  <2>2. RollbackTask \in tasks'[o] => t \notin Approved /\ db'[o].pay \notin {"none", "ready"}
    BY <1>4, <1>5, <1>6, <1>7, <1>8
  <2>. QED BY <1>1, <1>3, <1>9, <2>1, <2>2 DEF FailureIsFinal
<1>12. ReadyIsOpen(o)'
  BY <1>4, <1>6, <1>8 DEF ReadyIsOpen
<1>13. ApprovedStands(o)'
  <2>1. CASE ConfirmGivesUp(m, reply) /\ tasks'[o] = (tasks[o] \ {m}) \union {RollbackTask}
    BY <1>3, <1>4, <1>5, <1>7, <2>1 DEF ApprovedStands
  <2>2. CASE db'[o] = r /\ tasks'[o] = (tasks[o] \ {m}) \union {fin}
    BY <1>3, <1>4, <1>5, <2>2 DEF ApprovedStands
  <2>3. CASE db'[o] = r /\ tasks'[o] = (tasks[o] \ {m}) \union {again}
    BY <1>2, <1>3, <1>4, <1>5, <2>3 DEF ApprovedStands
  <2>4. CASE db'[o] = r /\ tasks'[o] = tasks[o] \ {m}
    BY <1>3, <1>4, <2>4 DEF ApprovedStands
  <2>. QED BY <1>6, <2>1, <2>2, <2>3, <2>4
<1>. QED BY <1>11, <1>12, <1>13 DEF ChargeInv

(* Recording an answer, rolling back, crediting points and losing a message *)
(* keep it.                                                                 *)
LEMMA WorkerCharge ==
  ASSUME Orderly, TypeOK, NEW o \in Orders, ChargeInv(o), WorkerStep(o)
  PROVE  ChargeInv(o)'
<1>. DEFINE r == db[o]
<1>. USE OrderTypes
<1>. /\ RollbackTask.kind = "rollback" /\ PointsTask.kind = "points"
     /\ "abandoned" \notin hooks[o]
  BY Messages DEF ChargeInv, FailureIsFinal
<1>1. ASSUME NEW m, FinalizeConfirm(o, m) \/ FinalizeFails(o, m) PROVE ChargeInv(o)'
  <2>. DEFINE again == [m EXCEPT !.n = @ + 1]
  <2>1. m \in tasks[o] /\ m.kind = "finalize" /\ UNCHANGED <<toss, hooks, open>>
    BY <1>1 DEF FinalizeConfirm, FinalizeFails
  <2>2. again.kind = "finalize"
    BY <2>1, RetriedMessage
  <2>3. tasks'[o] \subseteq tasks[o] \union {again, PointsTask}
    <3>1. PICK new \in {{}, {again}, {PointsTask}} : Finish(o, m, new)
      BY <1>1 DEF FinalizeConfirm, FinalizeFails
    <3>. QED BY <3>1, FinishAdds
  <2>4. db'[o] = r \/ db'[o] = MarkAsWaiting(r) \/ db'[o] = FinalizeDone(r)
    BY <1>1, SetRowAt DEF FinalizeConfirm, FinalizeFails
  <2>5. /\ MarkAsWaiting(r).pay = "waiting_for_deposit" /\ MarkAsWaiting(r).status = r.status
        /\ MarkAsWaiting(r).free = r.free
    BY DEF MarkAsWaiting, Rows
  <2>6. /\ FinalizeDone(r).pay = "done" /\ FinalizeDone(r).free = r.free
        /\ FinalizeDone(r).status = IF r.status = "canceled" THEN "canceled" ELSE "paid"
    BY FinalizeDoneRow
  <2>7. Stands(r) => Stands(db'[o])
    BY <2>4, <2>5, <2>6 DEF Stands, Live
  <2>. HIDE DEF again
  <2>8. /\ \A n \in tasks'[o] : n \in tasks[o] \/ n.kind # "confirm"
        /\ RollbackTask \in tasks'[o] => RollbackTask \in tasks[o]
    BY <2>2, <2>3
  <2>. QED BY <2>1, <2>4, <2>5, <2>6, <2>7, <2>8, BystanderKeeps
<1>2. CASE RollbackPaymentFailure(o)
  <2>1. RollbackTask \in tasks[o] /\ UNCHANGED <<toss, hooks, open>>
    BY <1>2 DEF RollbackPaymentFailure
  <2>2. tasks'[o] \subseteq tasks[o]
    BY <1>2, FinishAdds DEF RollbackPaymentFailure
  <2>3. db'[o] = r \/ db'[o] = RollbackFailure(r)
    BY <1>2, SetRowAt DEF RollbackPaymentFailure
  <2>4. Hopeless(o)
    BY <2>1, FallenIsHopeless
  <2>5. r.pay \notin {"none", "ready"}
    BY <2>1 DEF ChargeInv, FailureIsFinal
  <2>6. db'[o] = r \/ (db'[o].pay \notin {"none", "ready"} /\ db'[o].free = r.free)
    BY <2>3, <2>5, RollbackFailureRow
  <2>. QED BY <2>1, <2>2, <2>4, <2>6, BystanderKeeps
<1>3. CASE AddPointsAfterPayment(o)
  <2>1. UNCHANGED <<toss, hooks, open>> /\ tasks'[o] \subseteq tasks[o]
    BY <1>3, FinishAdds DEF AddPointsAfterPayment
  <2>2. db'[o] = r \/ db'[o] = EarnPoints(r)
    BY <1>3, SetRowAt DEF AddPointsAfterPayment
  <2>3. db'[o].status = r.status /\ db'[o].pay = r.pay /\ db'[o].free = r.free
    BY <2>2, EarnPointsRow
  <2>4. Stands(r) => Stands(db'[o])
    BY <2>3 DEF Stands
  <2>. QED BY <2>1, <2>3, <2>4, BystanderKeeps
<1>4. ASSUME NEW m, LoseTask(o, m) PROVE ChargeInv(o)'
  <2>1. UNCHANGED <<db, toss, hooks, open>> /\ tasks'[o] \subseteq tasks[o]
    BY <1>4 DEF LoseTask, TypeOK
  <2>. QED BY <2>1, BystanderKeeps
<1>. QED BY <1>1, <1>2, <1>3, <1>4, ConfirmCharge DEF WorkerStep, ConfirmStep, FinalizeStep

(* The sweeps keep it: the one that rolls back and the one that expires     *)
(* find a payment nobody works on any more.                                 *)
LEMMA SweepCharge ==
  ASSUME Orderly, TypeOK, NEW o \in Orders, ChargeInv(o), SweepStep(o)
  PROVE  ChargeInv(o)'
<1>. DEFINE r == db[o]
<1>. USE OrderTypes
<1>. RollbackTask.kind = "rollback" /\ "abandoned" \notin hooks[o]
  BY Messages DEF ChargeInv, FailureIsFinal
<1>1. CASE DetectOrphanedOrders(o)
  <2>1. r.pay = "aborted" /\ UNCHANGED <<db, toss, hooks, open>>
    BY <1>1 DEF DetectOrphanedOrders
  <2>2. tasks'[o] = tasks[o] \union {RollbackTask}
    BY <1>1, PublishAt DEF DetectOrphanedOrders
  <2>3. Hopeless(o)
    BY <2>1, FallenIsHopeless DEF Stands, Live
  <2>. QED BY <2>1, <2>2, <2>3, BystanderKeeps
<1>2. CASE ReconcileStalledPayments(o)
  <2>. DEFINE fin == FinalizeTask(0, Report(toss[o]), r.pid)
  <2>1. UNCHANGED <<db, toss, hooks, open>> /\ tasks'[o] \subseteq tasks[o] \union {fin}
    BY <1>2, PublishAt DEF ReconcileStalledPayments
  <2>2. fin.kind = "finalize"
    BY Messages
  <2>. HIDE DEF fin
  <2>. QED BY <2>1, <2>2, BystanderKeeps
<1>3. CASE ExpireUnpaidOrders(o)
  <2>1. r.pay \notin Live /\ UNCHANGED <<toss, tasks, hooks, open>>
    BY <1>3 DEF ExpireUnpaidOrders, CanCancelOrder
  <2>2. db'[o] = CancelOrder(r, "expired") /\ "expired" \in PayStatuses
    BY <1>3, SetRowAt DEF ExpireUnpaidOrders, PayStatuses
  <2>3. db'[o].pay \in {r.pay, "expired"} /\ db'[o].pay # "ready" /\ db'[o].free = r.free
    BY <2>2, CancelOrderRow
  <2>4. Hopeless(o)
    BY <2>1, FallenIsHopeless DEF Stands
  <2>. QED BY <2>1, <2>3, <2>4, BystanderKeeps
<1>. QED BY <1>1, <1>2, <1>3 DEF SweepStep


(* The webhook handlers keep it, although Toss's status may have changed    *)
(* since their lookup: what fails a payment is final at Toss.               *)
LEMMA HandlerCharge ==
  ASSUME Orderly, TypeOK, NEW o \in Orders, ChargeInv(o), HandlerStep(o)
  PROVE  ChargeInv(o)'
<1>. DEFINE r == db[o]
<1>. USE OrderTypes
<1>. RollbackTask.kind = "rollback" /\ "abandoned" \notin hooks[o]
  BY Messages DEF ChargeInv, FailureIsFinal
<1>0. ASSUME NEW status \in Final, Hook(status) \in open[o] PROVE toss[o] = status
  <2>1. Hook(status).name = "hook" /\ Hook(status).arg = status
    BY DEF Hook, Step
  <2>. QED BY <1>0, <2>1 DEF ChargeInv, FailureIsFinal
<1>1. CASE HandlePaymentDone(o)
  <2>1. UNCHANGED <<toss, tasks>> /\ open'[o] \subseteq open[o]
    BY <1>1, EndAt DEF HandlePaymentDone
  <2>2. hooks'[o] \subseteq hooks[o] \union {"current"}
    BY <1>1 DEF HandlePaymentDone, TypeOK
  <2>3. db'[o] = r \/ db'[o] = WebhookDone(r)
    BY <1>1, SetRowAt DEF HandlePaymentDone
  <2>4. /\ WebhookDone(r).pay = "done" /\ WebhookDone(r).free = r.free
        /\ WebhookDone(r).status = IF r.status = "canceled" THEN "canceled" ELSE "paid"
    BY WebhookDoneRow
  <2>5. Stands(r) => Stands(db'[o])
    BY <2>3, <2>4 DEF Stands, Live
  <2>. QED BY <2>1, <2>2, <2>3, <2>4, <2>5, BystanderKeeps
<1>2. ASSUME NEW reclaimed \in BOOLEAN, HandlePaymentCanceled(o, reclaimed) PROVE ChargeInv(o)'
  <2>1. UNCHANGED <<toss, tasks, hooks>> /\ open'[o] \subseteq open[o]
    BY <1>2, EndAt DEF HandlePaymentCanceled
  <2>2. toss[o] = "CANCELED"
    BY <1>0, <1>2 DEF HandlePaymentCanceled, Final
  <2>3. Hopeless(o)
    BY <2>2 DEF Hopeless, Approved, Charged
  <2>4. db'[o] = r \/ db'[o] = WebhookCanceled(r, reclaimed)
    BY <1>2, SetRowAt DEF HandlePaymentCanceled
  <2>5. db'[o] = r \/ (db'[o].pay = "canceled" /\ db'[o].free = r.free)
    BY <2>4, WebhookCanceledRow
  <2>. QED BY <2>1, <2>3, <2>5, BystanderKeeps
<1>3. ASSUME NEW reclaimed \in BOOLEAN, HandleWaitingForDeposit(o, reclaimed) PROVE ChargeInv(o)'
  <2>1. UNCHANGED <<toss, tasks, hooks>> /\ open'[o] \subseteq open[o]
    BY <1>3, EndAt DEF HandleWaitingForDeposit
  <2>2. db'[o] = r \/ db'[o] = WebhookWaiting(r, reclaimed)
    BY <1>3, SetRowAt DEF HandleWaitingForDeposit
  <2>3. \/ db'[o] = r
        \/ /\ db'[o].pay = "waiting_for_deposit" /\ db'[o].free = r.free
           /\ db'[o].status \in {r.status, "confirmed"}
    BY <2>2, WebhookWaitingRow
  <2>4. Stands(r) => Stands(db'[o])
    BY <2>3 DEF Stands, Live
  <2>. QED BY <2>1, <2>3, <2>4, BystanderKeeps
<1>4. ASSUME NEW status, HandleFailedReads(o, status) PROVE ChargeInv(o)'
  <2>1. /\ status \in {"ABORTED", "EXPIRED"} /\ Hook(status) \in open[o]
        /\ UNCHANGED <<db, toss, tasks, hooks>>
    BY <1>4 DEF HandleFailedReads
  <2>2. toss[o] \in Dead
    BY <1>0, <2>1 DEF Final, Dead
  <2>3. Step("failwrite", status, r.pid).name = "failwrite"
    BY DEF Step
  <2>4. open'[o] \subseteq open[o] \union {Step("failwrite", status, r.pid)}
    BY <1>4 DEF HandleFailedReads, TypeOK
  <2>. QED BY <2>1, <2>2, <2>3, <2>4 DEF ChargeInv, ApprovedStands, ReadyIsOpen, FailureIsFinal
<1>5. ASSUME NEW s \in open[o], HandleFailedWrites(o, s) PROVE ChargeInv(o)'
  <2>1. s.name = "failwrite" /\ UNCHANGED <<toss, hooks>> /\ open'[o] \subseteq open[o]
    BY <1>5, EndAt DEF HandleFailedWrites
  <2>2. toss[o] \in Dead
    BY <2>1 DEF ChargeInv, FailureIsFinal
  <2>3. Hopeless(o)
    BY <2>2 DEF Hopeless, Approved, Charged, Dead
  <2>4. CASE s.pid # r.pid
    BY <1>5, <2>1, <2>3, <2>4, BystanderKeeps DEF HandleFailedWrites
  <2>5. CASE s.pid = r.pid
    <3>1. PICK new \in {{}, {RollbackTask}} : Publish(o, new)
      BY <1>5, <2>5 DEF HandleFailedWrites
    <3>2. tasks'[o] \subseteq tasks[o] \union {RollbackTask}
      BY <3>1, PublishAt
    <3>3. db'[o] \in {SaveAsFailed(r, "expired"), SaveAsFailed(r, "aborted")}
      BY <1>5, <2>5, SetRowAt DEF HandleFailedWrites
    <3>4. db'[o].pay \in {"aborted", "expired"} /\ db'[o].free = r.free
      BY <3>3 DEF SaveAsFailed, Rows
    <3>. QED BY <2>1, <2>3, <3>2, <3>4, BystanderKeeps
  <2>. QED BY <2>4, <2>5
<1>6. CASE IgnoreWebhook(o)
  <2>1. UNCHANGED <<db, toss, tasks, hooks>> /\ open'[o] \subseteq open[o]
    BY <1>6, EndAt DEF IgnoreWebhook
  <2>. QED BY <2>1, BystanderKeeps
<1>. QED BY <1>1, <1>2, <1>3, <1>4, <1>5, <1>6 DEF HandlerStep

(* Delivery and deduplication of webhooks keep it. *)
LEMMA WebhookCharge ==
  ASSUME Orderly, TypeOK, NEW o \in Orders, ChargeInv(o), WebhookStep(o)
  PROVE  ChargeInv(o)'
<1>1. ASSUME NEW w \in Windows, WebhookArrives(o, w) PROVE ChargeInv(o)'
  <2>. DEFINE h == Step("hook", Report(toss[o]), 0)
  <2>1. UNCHANGED <<db, toss, tasks>> /\ Begin(o, h)
    BY <1>1 DEF WebhookArrives, ChargeInv, FailureIsFinal, Windows, Lookup
  <2>2. open'[o] = open[o] \union {h} /\ hooks'[o] \subseteq hooks[o]
    BY <1>1, <2>1, BeginAt DEF WebhookArrives, TypeOK
  <2>3. h.name = "hook" /\ h.arg = Report(toss[o])
    BY DEF Step
  <2>4. h.arg \in Final => h.arg = toss[o]
    BY <2>3 DEF Report, Final, Dead
  <2>. HIDE DEF h
  <2>. QED BY <2>1, <2>2, <2>3, <2>4 DEF ChargeInv, ApprovedStands, ReadyIsOpen, FailureIsFinal
<1>2. ASSUME NEW status, DedupExpires(o, status) PROVE ChargeInv(o)'
  BY <1>2 DEF DedupExpires, ChargeInv, ApprovedStands, ReadyIsOpen, FailureIsFinal
<1>. QED BY <1>1, <1>2, HandlerCharge DEF WebhookStep

(* What Toss does on its own keeps it, a deposit taken back included. *)
LEMMA TossCharge ==
  ASSUME Orderly, TypeOK, NEW o \in Orders, ChargeInv(o), TossStep(o)
  PROVE  ChargeInv(o)'
<1>. USE OrderTypes
<1>1. ~AbandonedWindowExpires(o)
  BY OrderlyEnv DEF AbandonedWindowExpires
<1>2. PICK t \in TossStatuses :
        /\ SetToss(o, t) /\ UNCHANGED <<db, tasks, open>>
        /\ \/ t \in Approved /\ toss[o] \in Approved
           \/ t \in {"EXPIRED", "CANCELED"} /\ toss[o] \in Approved \union {"IN_PROGRESS"}
  BY <1>1
  DEF TossStep, TossDeposit, TossExpires, TossDashboardCancel, TossRevertsDeposit, TossStatuses,
      Approved, Charged
<1>3. toss'[o] = t /\ hooks'[o] \subseteq hooks[o] \union {"current"}
  BY <1>2 DEF SetToss, TypeOK
<1>. QED
  BY <1>2, <1>3
  DEF ChargeInv, ApprovedStands, ReadyIsOpen, FailureIsFinal, Approved, Charged, Dead, Final

(* A confirmed order without a payment satisfies it. *)
LEMMA InitCharge ==
  ASSUME Init, NEW o \in Orders
  PROVE  ChargeInv(o)
<1>1. PICK free \in BOOLEAN : db[o] = ConfirmedOrder(free)
  BY DEF Init
<1>2. db[o].status = "confirmed" /\ db[o].pay = "none"
  BY <1>1 DEF ConfirmedOrder
<1>3. toss[o] = "NONE" /\ tasks[o] = {} /\ hooks[o] = {} /\ open[o] = {}
  BY DEF Init
<1>. QED
  BY <1>2, <1>3 DEF ChargeInv, ApprovedStands, ReadyIsOpen, FailureIsFinal, Approved, Charged

(* No step changes the environment it runs in. *)
LEMMA EnvironmentIsFixed ==
  ASSUME NEW o \in Orders, OrderStep(o)
  PROVE  env' = env
<1>1. CASE CustomerStep(o)
  BY <1>1
  DEF CustomerStep, RequestPayment, RequestStalls, RequestResumes, Authenticate, ConfirmAsync,
      ConfirmPublishFails, ConfirmSync, FailViewReads, FailViewWrites, PointsOnlyPayment,
      PointsOnlyStalls, PointsOnlyResumes, CancelByCustomer, CancelVirtualAccount, CancelPayment
<1>2. CASE WorkerStep(o)
  BY <1>2
  DEF WorkerStep, ConfirmStep, CallTossConfirm, FinalizeStep, FinalizeConfirm, FinalizeFails,
      RollbackPaymentFailure, AddPointsAfterPayment, LoseTask
<1>3. CASE SweepStep(o)
  BY <1>3 DEF SweepStep, DetectOrphanedOrders, ReconcileStalledPayments, ExpireUnpaidOrders
<1>4. CASE WebhookStep(o)
  BY <1>4
  DEF WebhookStep, WebhookArrives, HandlerStep, HandlePaymentDone, HandlePaymentCanceled,
      HandleWaitingForDeposit, HandleFailedReads, HandleFailedWrites, IgnoreWebhook, DedupExpires
<1>5. CASE TossStep(o)
  BY <1>5
  DEF TossStep, TossDeposit, TossExpires, TossDashboardCancel, TossRevertsDeposit,
      AbandonedWindowExpires
<1>. QED BY <1>1, <1>2, <1>3, <1>4, <1>5 DEF OrderStep

(* Where no order is given up too early, no charge of Toss ever meets an    *)
(* order that failed or was canceled, however late tasks, webhooks and the  *)
(* sweeps run, whatever is lost, and if deposits are taken back.            *)
THEOREM ChargeStandsTheorem == Spec => []ChargeStands
<1>. DEFINE Inv == Orderly => \A o \in Orders : ChargeInv(o)
<1>1. Init => Inv
  BY InitCharge
<1>2. ASSUME TypeOK, Inv, [Next]_vars PROVE Inv'
  <2>1. ASSUME NEW o \in Orders, OrderStep(o), Orderly', NEW p \in Orders PROVE ChargeInv(p)'
    <3>1. Orderly
      BY <2>1, EnvironmentIsFixed DEF Orderly
    <3>2. ChargeInv(p)
      BY <1>2, <3>1
    <3>3. CASE p = o
      BY <1>2, <2>1, <3>1, <3>2, <3>3, CustomerCharge, WorkerCharge, SweepCharge, WebhookCharge,
         TossCharge DEF OrderStep
    <3>4. CASE p # o
      <4>1. Same(p)
        BY <1>2, <2>1, <3>4, Frame
      <4>. QED BY <3>2, <4>1
           DEF Same, ChargeInv, ApprovedStands, ReadyIsOpen, FailureIsFinal
    <3>. QED BY <3>3, <3>4
  <2>2. ASSUME UNCHANGED vars PROVE Inv'
    BY <1>2, <2>2
    DEF vars, Orderly, ChargeInv, ApprovedStands, ReadyIsOpen, FailureIsFinal
  <2>. QED BY <1>2, <2>1, <2>2 DEF Next
<1>3. TypeOK /\ Inv => ChargeStands
  BY DEF ChargeStands, Orderly, ChargeInv, ApprovedStands, Stands, Approved
<1>. QED BY <1>1, <1>2, <1>3, TypesAreKept, PTL DEF Spec


=============================================================================
