---------------------------- MODULE PointLedger ----------------------------
(***************************************************************************)
(* The points of one customer: User.points (the balance) and the "earn"    *)
(* rows of PointHistory, each with what has been used of it and the day it *)
(* expires.  The two are kept in step by PointService and written by six   *)
(* kinds of actors: order processing, payment cancellation, Toss webhooks, *)
(* returns, the expiry batch, and the points task of a paid order.  Two    *)
(* more writers take no lock: the expiry notice writes back a row's whole  *)
(* metadata, a profile save the customer's whole row.                      *)
(*                                                                         *)
(*   acct.balance   User.points                                            *)
(*   acct.made      how many earn rows exist; they fill the slots in order *)
(*   acct.rows[i]   points, metadata used_amount / expired /               *)
(*                  expiry_notified, expires_at                            *)
(*   orders[o]      status; used, earned: the columns used_points and      *)
(*                  earned_points; refunded: points given back so far;     *)
(*                  owed[i]: used_details less restored_details of row i;  *)
(*                  hasRow: its unique earn row exists; due: a points task *)
(*                  is queued; asked, returned: quantity of the open       *)
(*                  return and of the completed ones; at: the time of the  *)
(*                  check its running cancellation or refund has passed    *)
(*   listed[b]      rows a run b of the expiry batch has read, unlocked    *)
(*   notices        rows the expiry notice has read and not yet written    *)
(*   drafts         balances read by a profile request and not yet saved   *)
(*   lapses         history: which unlocked writer has written back        *)
(*                  something older than what it overwrote                 *)
(*                                                                         *)
(* expires_at is always created_at + 365 days, so the order of the rows by *)
(* (expires_at, created_at) is the order of their slots.                   *)
(***************************************************************************)
EXTENDS Sums, Sequences

CONSTANTS Orders,        \* the customer's orders
          MaxRows,       \* bound: earn rows of the customer
          Earlier,       \* earn rows that exist already, oldest first
          Granted,       \* balance that no earn row backs
          MinUse,        \* MINIMUM_USE_AMOUNT
          UseAmounts, EarnAmounts,
          Goods,         \* ordered quantity of every order
          Life, Window,  \* 365 days; the 7 days of the notice
          MaxTime,       \* bound: the last day
          MaxRefunded,   \* bound: an order given back more is not revived again
          Batches,       \* overlapping runs of the expiry task
          Unlocked       \* which unlocked writers run: "notice", "profile"

Slots == 1..MaxRows

Row == [points : Nat, used : Nat, expires : Nat, expired : BOOLEAN, notified : BOOLEAN]

Statuses == {"none", "confirmed", "payment_failed", "paid", "delivered", "canceled", "refunded"}

ASSUME PointConstants ==
  /\ Orders # {} /\ IsFiniteSet(Orders)
  /\ MaxRows \in Nat /\ Granted \in Nat /\ MinUse \in Nat \ {0}
  /\ UseAmounts \subseteq Nat /\ EarnAmounts \subseteq Nat
  /\ Goods \in Nat \ {0} /\ Life \in Nat \ {0} /\ Window \in Nat /\ MaxTime \in Nat
  /\ MaxRefunded \in Nat
  /\ Earlier \in Seq([points : Nat \ {0}, expires : Nat]) /\ Len(Earlier) <= MaxRows

VARIABLES acct, orders, now, listed, notices, drafts, lapses

vars == <<acct, orders, now, listed, notices, drafts, lapses>>

-----------------------------------------------------------------------------
(* The ledger: effects of PointService's transactions on an account.       *)

BlankRow == [points |-> 0, used |-> 0, expires |-> 0, expired |-> FALSE, notified |-> FALSE]

(* remaining_points *)
Left(r) == IF r.expired THEN 0 ELSE Monus(r.points, r.used)

Lefts(a) == [i \in Slots |-> Left(a.rows[i])]

(* The earn rows cancel_deduct may take from: not expired at time t. *)
Usable(a, t) == [i \in Slots |-> IF a.rows[i].expires > t THEN Left(a.rows[i]) ELSE 0]

Older(i) == {j \in Slots : j < i}

Newer(i) == {j \in Slots : j > i}

(* The loop of _consume_points_fifo: each row gives what the rows before it *)
(* have left open.                                                          *)
TakeFifo(avail, amount) ==
  [i \in Slots |-> Least(avail[i], Monus(amount, SumOver(avail, Older(i))))]

(* The loop of refund_used_points runs the other way. *)
GiveBackLifo(owed, amount) ==
  [i \in Slots |-> Least(owed[i], Monus(amount, SumOver(owed, Newer(i))))]

(* add_points with type "earn" *)
AddPoints(a, amount, t) ==
  [balance |-> a.balance + amount,
   made |-> a.made + 1,
   rows |-> [a.rows EXCEPT ![a.made + 1] =
               [BlankRow EXCEPT !.points = amount, !.expires = t + Life]]]

(* _update_earn_metadata of every row of used_details *)
UseRows(rows, take) == [i \in Slots |-> [rows[i] EXCEPT !.used = @ + take[i]]]

Spend(a, amount, take) ==
  [a EXCEPT !.balance = @ - amount, !.rows = UseRows(a.rows, take)]

CanUseUnchecked(a, amount) == amount >= MinUse                     \* mutant

CanUse(a, amount) == amount >= MinUse /\ a.balance >= amount

CanReclaim(a, amount, t) ==
  a.balance >= amount /\ SumOver(Usable(a, t), Slots) >= amount

(* use_points_fifo with type "cancel_deduct".  When the rows do not suffice *)
(* it answers no, and what the loop has written stays written.              *)
Reclaim(a, amount, t) ==
  LET take == TakeFifo(Usable(a, t), amount)
  IN  IF CanReclaim(a, amount, t) THEN Spend(a, amount, take)
      ELSE IF a.balance >= amount THEN Spend(a, 0, take)
      ELSE a

RefundBalanceOnly(a, owed, amount, t) == [a EXCEPT !.balance = @ + amount]  \* mutant

(* refund_used_points: a row that is still live gets its share back, the    *)
(* share of an overdue row expires at once.                                 *)
RefundUsed(a, owed, amount, t) ==
  LET back == GiveBackLifo(owed, amount)
      live(i) == a.rows[i].expires > t
      overdue == {i \in Slots : ~live(i)}
  IN  [a EXCEPT !.balance = Monus(@ + amount, SumOver(back, overdue)),
                !.rows = [i \in Slots |-> IF live(i)
                                          THEN [a.rows[i] EXCEPT !.used = Monus(@, back[i])]
                                          ELSE a.rows[i]]]

ExpireRowUnmarked(a, i, t) ==                                      \* mutant
  [a EXCEPT !.balance = Monus(@, Left(a.rows[i]))]

(* _expire_one under the lock *)
ExpireRow(a, i, t) ==
  IF Left(a.rows[i]) = 0 THEN a
  ELSE [a EXCEPT !.balance = Monus(@, Left(a.rows[i])), !.rows[i].expired = TRUE]

-----------------------------------------------------------------------------
(* Orders as the ledger sees them. *)

NoPoints == [i \in Slots |-> 0]

NewOrder == [status |-> "none", used |-> 0, earned |-> 0, refunded |-> 0, owed |-> NoPoints,
             hasRow |-> FALSE, due |-> FALSE, asked |-> 0, returned |-> 0, at |-> 0]

GivenBackForgotten(r, amount) == [r EXCEPT !.refunded = @ + amount]  \* mutant

(* A refund of the order's used points as its next refund will see it. *)
GivenBack(r, amount) ==
  [r EXCEPT !.refunded = @ + amount,
            !.owed = [i \in Slots |-> r.owed[i] - GiveBackLifo(r.owed, amount)[i]]]

(* _proportional_share: floor(points * part / whole) *)
Share(points, part) == (points * part) \div Goods

(* What an unwinding gives back and takes: a canceled payment everything,   *)
(* a return its share, as the difference of two cumulative shares.          *)
PointsBack(r) ==
  IF r.status = "paid" THEN r.used
  ELSE Share(r.used, r.returned + r.asked) - Share(r.used, r.returned)

EarnedBack(r) ==
  IF r.status = "paid" THEN r.earned
  ELSE Share(r.earned, r.returned + r.asked) - Share(r.earned, r.returned)

(* The account after the used points came back and before the earned ones   *)
(* are taken.                                                               *)
Refunded(r) == IF PointsBack(r) = 0 THEN acct ELSE RefundUsed(acct, r.owed, PointsBack(r), now)

ReclaimableBalanceOnly(r) == acct.balance + PointsBack(r) >= EarnedBack(r)  \* mutant

(* The check before the Toss refund, which cannot be undone. *)
Reclaimable(r) ==
  EarnedBack(r) > 0 =>
    Least(acct.balance + PointsBack(r), SumOver(Usable(acct, now), Slots)) >= EarnedBack(r)

(* The reclaim after it. *)
GoesThrough(r) == EarnedBack(r) > 0 => CanReclaim(Refunded(r), EarnedBack(r), now)

Unwound(r) == IF EarnedBack(r) > 0 THEN Reclaim(Refunded(r), EarnedBack(r), now) ELSE Refunded(r)

Checking(o) == orders[o].at > 0

(* cancel_payment locks the customer's row only when there are points to    *)
(* reclaim; complete_refund always does.                                    *)
HoldsUser(o) == Checking(o) /\ (orders[o].earned > 0 \/ orders[o].status # "paid")

UserFree == \A o \in Orders : ~HoldsUser(o)

UserFreeFor(o) == \A p \in Orders \ {o} : ~HoldsUser(p)

SaveOrder(o, r) == orders' = [orders EXCEPT ![o] = r]

-----------------------------------------------------------------------------
Init ==
  /\ acct = [balance |-> Granted + SumOver([i \in 1..Len(Earlier) |-> Earlier[i].points], 1..Len(Earlier)),
             made |-> Len(Earlier),
             rows |-> [i \in Slots |->
                         IF i <= Len(Earlier)
                         THEN [BlankRow EXCEPT !.points = Earlier[i].points, !.expires = Earlier[i].expires]
                         ELSE BlankRow]]
  /\ orders = [o \in Orders |-> NewOrder]
  /\ now = 1
  /\ listed = [b \in Batches |-> {}]
  /\ notices = {}
  /\ drafts = {}
  /\ lapses = {}

(* process_order_heavy_tasks / _process_point_usage: an order is confirmed, *)
(* with or without points.                                                  *)
ConfirmOrder(o, amount) ==
  LET take == TakeFifo(Lefts(acct), amount)
  IN  /\ orders[o].status = "none"
      /\ UserFree
      /\ \/ /\ amount = 0
            /\ UNCHANGED acct
         \/ /\ CanUse(acct, amount)
            /\ acct' = Spend(acct, amount, take)
      /\ SaveOrder(o, [orders[o] EXCEPT !.status = "confirmed", !.used = amount, !.owed = take])
      /\ UNCHANGED <<now, listed, notices, drafts, lapses>>

(* cancel_order ("canceled") and rollback_payment_failure ("payment_failed") *)
EndUnpaid(o, status) ==
  /\ orders[o].status = "confirmed"
  /\ UserFree
  /\ acct' = IF orders[o].used > 0 THEN RefundUsed(acct, orders[o].owed, orders[o].used, now) ELSE acct
  /\ SaveOrder(o, [GivenBack(orders[o], orders[o].used) EXCEPT !.status = status])
  /\ UNCHANGED <<now, listed, notices, drafts, lapses>>

(* An order that was rolled back is paid just the same (see PaymentFlow). *)
Payable(o) ==
  \/ orders[o].status = "confirmed"
  \/ orders[o].status = "payment_failed" /\ orders[o].refunded <= MaxRefunded

(* finalize_payment_confirm; the points task is queued. *)
PayOrder(o) ==
  /\ Payable(o)
  /\ SaveOrder(o, [orders[o] EXCEPT !.status = "paid", !.due = TRUE])
  /\ UNCHANGED <<acct, now, listed, notices, drafts, lapses>>

(* add_points_after_payment: the order's status is not looked at. *)
EarnTask(o, amount) ==
  /\ orders[o].due /\ ~Checking(o) /\ UserFree
  /\ \/ /\ orders[o].earned > 0 \/ orders[o].hasRow \/ amount = 0
        /\ SaveOrder(o, [orders[o] EXCEPT !.due = FALSE])
        /\ UNCHANGED acct
     \/ /\ ~(orders[o].earned > 0 \/ orders[o].hasRow) /\ amount > 0
        /\ acct.made < MaxRows
        /\ acct' = AddPoints(acct, amount, now)
        /\ SaveOrder(o, [orders[o] EXCEPT !.due = FALSE, !.earned = amount, !.hasRow = TRUE])
  /\ UNCHANGED <<now, listed, notices, drafts, lapses>>

(* handle_payment_done: paid and earned in one transaction, which fails on  *)
(* the unique earn row of an order that has earned before.                  *)
WebhookDone(o, amount) ==
  /\ Payable(o)
  /\ UserFree
  /\ \/ /\ orders[o].earned > 0 \/ amount = 0
        /\ SaveOrder(o, [orders[o] EXCEPT !.status = "paid"])
        /\ UNCHANGED acct
     \/ /\ orders[o].earned = 0 /\ amount > 0 /\ ~orders[o].hasRow
        /\ acct.made < MaxRows
        /\ acct' = AddPoints(acct, amount, now)
        /\ SaveOrder(o, [orders[o] EXCEPT !.status = "paid", !.earned = amount, !.hasRow = TRUE])
  /\ UNCHANGED <<now, listed, notices, drafts, lapses>>

(* handle_payment_canceled: reclaim first, then refund. *)
WebhookCanceled(o) ==
  LET r == orders[o]
      reclaimed == IF r.status = "paid" /\ r.earned > 0 THEN Reclaim(acct, r.earned, now) ELSE acct
      given == r.status \in {"confirmed", "paid"} /\ r.used > 0
  IN  /\ r.status \in {"confirmed", "payment_failed", "paid", "delivered", "refunded"}
      /\ ~Checking(o) /\ UserFree
      /\ acct' = IF given THEN RefundUsed(reclaimed, r.owed, r.used, now) ELSE reclaimed
      /\ SaveOrder(o, [(IF given THEN GivenBack(r, r.used) ELSE r) EXCEPT !.status = "canceled"])
      /\ UNCHANGED <<now, listed, notices, drafts, lapses>>

(* handle_waiting_for_deposit on a paid order: the deposit was taken back. *)
DepositReverted(o) ==
  LET r == orders[o]
      ok == CanReclaim(acct, r.earned, now)
  IN  /\ r.status = "paid"
      /\ ~Checking(o) /\ UserFree
      /\ acct' = IF r.earned > 0 THEN Reclaim(acct, r.earned, now) ELSE acct
      /\ SaveOrder(o, [r EXCEPT !.status = "confirmed", !.earned = IF ok THEN 0 ELSE @])
      /\ UNCHANGED <<now, listed, notices, drafts, lapses>>

(* An administrator ships and delivers the order. *)
Deliver(o) ==
  /\ orders[o].status = "paid" /\ ~Checking(o)
  /\ SaveOrder(o, [orders[o] EXCEPT !.status = "delivered"])
  /\ UNCHANGED <<acct, now, listed, notices, drafts, lapses>>

(* create_return *)
AskReturn(o, quantity) ==
  /\ orders[o].status = "delivered" /\ orders[o].asked = 0
  /\ orders[o].returned + quantity <= Goods
  /\ SaveOrder(o, [orders[o] EXCEPT !.asked = quantity])
  /\ UNCHANGED <<acct, now, listed, notices, drafts, lapses>>

(* cancel_payment and complete_refund up to the call of Toss: the locks are *)
(* taken and the check has passed.                                          *)
CheckUnwind(o) ==
  /\ orders[o].status = "paid" \/ orders[o].asked > 0
  /\ ~Checking(o) /\ UserFree
  /\ Reclaimable(orders[o])
  /\ SaveOrder(o, [orders[o] EXCEPT !.at = now])
  /\ UNCHANGED <<acct, now, listed, notices, drafts, lapses>>

(* The database half after Toss has refunded, in the same transaction: when *)
(* the points cannot be reclaimed it is rolled back as a whole.             *)
FinishUnwind(o) ==
  LET r == orders[o]
      done == GivenBack(r, PointsBack(r))
      returned == r.returned + r.asked
      unwound == IF r.status = "paid" THEN [done EXCEPT !.status = "canceled"]
                 ELSE [done EXCEPT !.status = IF returned >= Goods THEN "refunded" ELSE @,
                                   !.returned = returned, !.asked = 0]
  IN  /\ Checking(o) /\ UserFreeFor(o)
      /\ \/ /\ GoesThrough(r)
            /\ acct' = Unwound(r)
            /\ SaveOrder(o, [unwound EXCEPT !.at = 0])
         \/ /\ ~GoesThrough(r)
            /\ SaveOrder(o, [r EXCEPT !.at = 0])
            /\ UNCHANGED acct
      /\ UNCHANGED <<now, listed, notices, drafts, lapses>>

-----------------------------------------------------------------------------
(* The daily batches and the unlocked writers. *)

Tick ==
  /\ now < MaxTime
  /\ now' = now + 1
  /\ UNCHANGED <<acct, orders, listed, notices, drafts, lapses>>

GetExpiredUnnoticed ==                                             \* mutant
  {i \in Slots : LET r == acct.rows[i] IN r.expires <= now /\ Left(r) > 0 /\ ~r.notified}

(* get_expired_points; the rows with nothing left are skipped right away. *)
GetExpired == {i \in Slots : acct.rows[i].expires <= now /\ Left(acct.rows[i]) > 0}

(* expire_points reads its list. *)
ListExpired(b) ==
  /\ listed[b] = {} /\ GetExpired # {}
  /\ listed' = [listed EXCEPT ![b] = GetExpired]
  /\ UNCHANGED <<acct, orders, now, notices, drafts, lapses>>

(* _expire_one: under the lock the row is read again. *)
ExpireOne(b, i) ==
  /\ i \in listed[b]
  /\ UserFree
  /\ acct' = ExpireRow(acct, i, now)
  /\ listed' = [listed EXCEPT ![b] = @ \ {i}]
  /\ UNCHANGED <<orders, now, notices, drafts, lapses>>

(* A row whose transaction fails is left for the next run. *)
ExpireOneFails(b, i) ==
  /\ i \in listed[b]
  /\ listed' = [listed EXCEPT ![b] = @ \ {i}]
  /\ UNCHANGED <<acct, orders, now, notices, drafts, lapses>>

(* send_expiry_notifications reads the rows and sends the mail. *)
Expiring ==
  {i \in Slots : LET r == acct.rows[i]
                 IN  now < r.expires /\ r.expires <= now + Window /\ ~r.notified /\ Left(r) > 0}

ReadNotices ==
  /\ "notice" \in Unlocked /\ notices = {} /\ Expiring # {}
  /\ notices' = {[row |-> i, used |-> acct.rows[i].used, expired |-> acct.rows[i].expired] : i \in Expiring}
  /\ UNCHANGED <<acct, orders, now, listed, drafts, lapses>>

(* point.save(update_fields=["metadata"]) writes all of what was read. *)
WriteNotice(n) ==
  /\ n \in notices
  /\ acct' = [acct EXCEPT !.rows[n.row] = [@ EXCEPT !.used = n.used, !.expired = n.expired, !.notified = TRUE]]
  /\ lapses' = IF n.used = acct.rows[n.row].used /\ n.expired = acct.rows[n.row].expired
               THEN lapses ELSE lapses \cup {"notice"}
  /\ notices' = notices \ {n}
  /\ UNCHANGED <<orders, now, listed, drafts>>

NoticeMailFails ==
  /\ notices # {}
  /\ notices' = {}
  /\ UNCHANGED <<acct, orders, now, listed, drafts, lapses>>

(* A profile or password request has loaded the customer's row. *)
ReadProfile ==
  /\ "profile" \in Unlocked /\ drafts = {}
  /\ drafts' = {acct.balance}
  /\ UNCHANGED <<acct, orders, now, listed, notices, lapses>>

(* instance.save() without update_fields writes every column, points too. *)
SaveProfile(balance) ==
  /\ balance \in drafts /\ UserFree
  /\ acct' = [acct EXCEPT !.balance = balance]
  /\ lapses' = IF balance = acct.balance THEN lapses ELSE lapses \cup {"profile"}
  /\ drafts' = {}
  /\ UNCHANGED <<orders, now, listed, notices>>

-----------------------------------------------------------------------------
OrderNext(o) ==
  \/ \E amount \in UseAmounts : ConfirmOrder(o, amount)
  \/ \E status \in {"canceled", "payment_failed"} : EndUnpaid(o, status)
  \/ PayOrder(o)
  \/ \E amount \in EarnAmounts : EarnTask(o, amount) \/ WebhookDone(o, amount)
  \/ WebhookCanceled(o)
  \/ DepositReverted(o)
  \/ Deliver(o)
  \/ \E quantity \in 1..Goods : AskReturn(o, quantity)
  \/ CheckUnwind(o)
  \/ FinishUnwind(o)

BatchNext(b) ==
  \/ ListExpired(b)
  \/ \E i \in Slots : ExpireOne(b, i) \/ ExpireOneFails(b, i)

Next ==
  \/ \E o \in Orders : OrderNext(o)
  \/ \E b \in Batches : BatchNext(b)
  \/ Tick
  \/ ReadNotices \/ (\E n \in notices : WriteNotice(n)) \/ NoticeMailFails
  \/ ReadProfile \/ (\E balance \in drafts : SaveProfile(balance))

Spec == Init /\ [][Next]_vars

(* Beat starts the expiry task every day; a row it fails on is tried again  *)
(* the next day and not every try fails; a transaction ends.                *)
FairSpec ==
  /\ Spec
  /\ \A o \in Orders : WF_vars(FinishUnwind(o))
  /\ \A b \in Batches : WF_vars(ListExpired(b)) /\ \A i \in Slots : SF_vars(ExpireOne(b, i))

-----------------------------------------------------------------------------
OrderRec == [status : Statuses, used : Nat, earned : Nat, refunded : Nat, owed : [Slots -> Nat],
             hasRow : BOOLEAN, due : BOOLEAN, asked : Nat, returned : Nat, at : Nat]

TypeOK ==
  /\ acct \in [balance : Nat, made : 0..MaxRows, rows : [Slots -> Row]]
  /\ orders \in [Orders -> OrderRec]
  /\ now \in Nat
  /\ listed \in [Batches -> SUBSET Slots]
  /\ notices \in SUBSET [row : Slots, used : Nat, expired : BOOLEAN]
  /\ drafts \in SUBSET Nat
  /\ lapses \in SUBSET {"notice", "profile"}

(* The balance pays for everything the earn rows still promise.  If it did  *)
(* not, use_points_fifo would take points that are not there, and the batch *)
(* would let the same points expire twice.                                  *)
LedgerAgrees == acct.balance >= SumOver(Lefts(acct), Slots)

(* Every transaction of PointService, in any order and with any two runs of *)
(* the expiry batch overlapping, keeps the balance and the rows together:   *)
(* only an unlocked write-back can part them.                               *)
LedgerAgreesUnlessLapsed == lapses = {} => LedgerAgrees

(* What the orders may still get back from an earn row has been used of it, *)
(* and no more was used than earned: a refund never gives a row more than   *)
(* was taken, whatever other orders and reclaims took from it meanwhile.    *)
OwedWasUsed ==
  lapses = {} =>
    \A i \in Slots :
      /\ SumOver([o \in Orders |-> orders[o].owed[i]], Orders) <= acct.rows[i].used
      /\ acct.rows[i].used <= acct.rows[i].points

ExpiresSince(t) == \E i \in Slots : t < acct.rows[i].expires /\ acct.rows[i].expires <= now

(* The check of cancel_payment and complete_refund before the Toss refund   *)
(* is enough: the reclaim after it cannot fail, unless a row reached its    *)
(* expiry in between.                                                       *)
CheckedUnwindGoesThrough ==
  \A o \in Orders :
    lapses = {} /\ Checking(o) /\ ~ExpiresSince(orders[o].at) => GoesThrough(orders[o])

(* What an order has spent of points that no earn row backed, as far as it  *)
(* has not been given back yet.                                             *)
SpentUnbacked(r) == Monus(r.used, r.refunded + SumOver(r.owed, Slots))

(* The points no expiry date applies to: those of the balance that no earn  *)
(* row backs, and those that orders have spent and may get back.            *)
Unbacked ==
  acct.balance - SumOver(Lefts(acct), Slots)
    + SumOver([o \in Orders |-> SpentUnbacked(orders[o])], Orders)

(* Points given back beyond what their order has used: used_points stays as *)
(* it is when an order fails, so one that fails, is paid after all and then *)
(* canceled is given its points twice.                                      *)
GivenTwice ==
  SumOver([o \in Orders |-> Monus(orders[o].refunded, orders[o].used)], Orders)

(* A webhook takes back the earned points of an order and the rows do not   *)
(* hold enough of them.                                                     *)
ReclaimsTooLittle(o) ==
  /\ orders[o].status = "paid" /\ orders'[o].status \in {"canceled", "confirmed"}
  /\ ~Checking(o)
  /\ orders[o].earned > 0 /\ ~CanReclaim(acct, orders[o].earned, now)

(* "An order and its cancellation must not turn points about to expire into *)
(* points without an expiry date" (refund_used_points).  They do in two     *)
(* ways and by no more than this, however ordering, failing, canceling,     *)
(* returning and expiring interleave: what an order is given back beyond    *)
(* what it has used never expires; and a webhook's reclaim that fails       *)
(* leaves, of fewer points than the order has earned, the rows used and the *)
(* balance in place.  Every other step, and every refund of an order that   *)
(* was not given back before, leaves the points without a date as they are. *)
ExpiryIsLostInTwoWays ==
  [][lapses' = {} =>
       LET otherwise == (Unbacked' - Unbacked) - (GivenTwice' - GivenTwice)
       IN  \/ otherwise = 0
           \/ \E o \in Orders : /\ ReclaimsTooLittle(o)
                               /\ 0 <= otherwise /\ otherwise < orders[o].earned]_vars

Overdue == {i \in Slots : acct.rows[i].expires <= now /\ Left(acct.rows[i]) > 0}

(* Points past their expiry date come off, whatever holds the customer's    *)
(* row and however often a row's transaction fails.  (After a lapse a check *)
(* may fail again and again while it holds the row.)                        *)
OverdueExpires == \A i \in Slots : (i \in Overdue) ~> (i \notin Overdue \/ lapses # {})

-----------------------------------------------------------------------------
(* What comments of the code say and the code does not keep.               *)

(* "a later expiry batch takes the same points off the balance once more"   *)
(* is what the ledger is built to prevent (toss_webhook_service.py:81): the *)
(* balance covers the rows, whatever the expiry notice does.                *)
NoticeKeepsLedger == "profile" \notin lapses => LedgerAgrees

=============================================================================
