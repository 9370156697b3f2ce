------------------------------ MODULE RowLocks ------------------------------
(***************************************************************************)
(* The database transactions on orders, payments, points, products and     *)
(* active carts at the grain of their row locks: which rows they lock, how *)
(* strongly and in which order.  The other modules take a transaction as   *)
(* one step; this one asks when two or three of them wait for each other   *)
(* for ever, so that PostgreSQL has to roll one of them back -- for a      *)
(* refund, after Toss has paid.                                            *)
(*                                                                         *)
(* A lock is held until the transaction ends.  Its strength is             *)
(*   "update"  select_for_update() and DELETE (FOR UPDATE)                 *)
(*   "write"   an UPDATE (FOR NO KEY UPDATE)                               *)
(*   "refer"   a new row with a foreign key (FOR KEY SHARE), checked when  *)
(*             the transaction commits, so at its end                      *)
(* A row the transaction holds already is not listed again, and rows only  *)
(* one kind of transaction locks are left out (a return, an order's own    *)
(* cart behind the order's lock).  Also left out:                          *)
(*   - UPDATEs of one row outside any transaction (a profile, a product):  *)
(*     they have nothing while they wait and wait for nothing while they   *)
(*     have the row, so they are in no ring.  The one on earn rows is here *)
(*     for EarnRowsMeetOnlyTheNotice;                                      *)
(*   - requests that only add a row which refers to a customer and another *)
(*     row (a return request, a product question, a review, a wish);       *)
(*   - cart lines.  Of the transactions below, process_order, add_items    *)
(*     and the merge at login take them behind their cart's lock.  The     *)
(*     requests that change, remove, clear, reprice or clean up lines      *)
(*     (cart_service.py:248-357, 551-576 and 640-715) take no other lock:  *)
(*     every ring they add goes through cart lines, and is not checked.    *)
(*                                                                         *)
(* There is one customer, so that all orders share the customer's row, the *)
(* earn rows and the active cart.  Every order uses and earns points       *)
(* unless its kind says otherwise: a transaction that skips locks waits    *)
(* for no more than one that does not.  What state an order is in is left  *)
(* out: any two transactions may meet, also ones whose early returns keep  *)
(* them apart.                                                             *)
(***************************************************************************)
EXTENDS Naturals, Sequences, FiniteSets, Functions

CONSTANTS Txs,       \* bound: transactions at a time
          Orders,
          Added,     \* Added[o]: the order's products as they went into the cart
          Listed     \* Listed[o]: the order's products as a return lists them

(* A cart has one line per product (unique_together, cart.py:248). *)
ASSUME LockConstants ==
  /\ IsFiniteSet(Txs)
  /\ Added \in [Orders -> Seq(Nat)]
  /\ \A o \in Orders : \A i, j \in DOMAIN Added[o] : Added[o][i] = Added[o][j] => i = j
  /\ Listed \in [Orders -> Seq(Nat)]

VARIABLES tx      \* tx[t]: what the transaction is for and how many locks it has

-----------------------------------------------------------------------------
(* Rows and locks. *)

Payment(o) == <<"payment", o>>

Order(o) == <<"order", o>>

Items(o) == <<"items", o>>

User == <<"user">>

Earned == <<"earned">>

Cart == <<"cart">>

Lock(strength, row) == [strength |-> strength, row |-> row]

Products(strength, ids) == [i \in DOMAIN ids |-> Lock(strength, <<"product", ids[i]>>)]

(* FOR KEY SHARE goes with itself and with FOR NO KEY UPDATE; nothing else  *)
(* goes together.                                                           *)
Conflict(s, t) == ~("refer" \in {s, t} /\ "update" \notin {s, t})

-----------------------------------------------------------------------------
(* The transactions. *)

InCartOrder(o) == Added[o]                                         \* mutant

(* The task takes the cart's items by product id and makes the order's      *)
(* items in that order; everybody else goes through the order's items.      *)
InItemOrder(o) ==
  CHOOSE ids \in [DOMAIN Added[o] -> Range(Added[o])] :
    \A i, j \in DOMAIN ids : i < j => ids[i] < ids[j]

RowsBeforeUser == <<Lock("update", Earned), Lock("update", User)>>  \* mutant

(* use_points_fifo, refund_used_points, _expire_one: "user row, then earn   *)
(* rows".                                                                   *)
PointRows == <<Lock("update", User), Lock("update", Earned)>>

ProcessOrder(o) == <<Lock("update", Order(o))>> \o Products("update", InItemOrder(o)) \o PointRows

(* It fails for want of points, and the items go to the active cart. *)
ProcessOrderFails(o) == ProcessOrder(o) \o <<Lock("update", Cart)>>

CancelRows(o) == <<Lock("update", Items(o))>> \o Products("write", InItemOrder(o)) \o PointRows

CancelOrder(o) == <<Lock("update", Order(o)), Lock("write", Payment(o))>> \o CancelRows(o)

RollbackPaymentFailure(o) ==
  <<Lock("update", Order(o))>> \o CancelRows(o) \o <<Lock("write", Payment(o))>>

CreatePayment(o) == <<Lock("update", Order(o)), Lock("update", Payment(o))>>

PointsOnlyPayment(o) ==
  <<Lock("update", Order(o)), Lock("write", Payment(o))>>
    \o Products("update", InItemOrder(o)) \o <<Lock("write", Cart)>>

(* The log entry refers to the payment. *)
AddPointsAfterPayment(o) ==
  <<Lock("update", Order(o)), Lock("write", User), Lock("refer", Payment(o))>>

FinalizeOrderFirst(o) ==                                           \* mutant
  <<Lock("update", Order(o)), Lock("update", Payment(o)), Lock("update", Items(o))>>
    \o Products("write", InItemOrder(o)) \o <<Lock("write", Cart)>>

FinalizePaymentConfirm(o) ==
  <<Lock("update", Payment(o)), Lock("update", Order(o)), Lock("update", Items(o))>>
    \o Products("write", InItemOrder(o)) \o <<Lock("write", Cart)>>

(* The synchronous page calls Toss after the first lock. *)
ConfirmPayment(o) ==
  <<Lock("update", Payment(o))>> \o Products("update", InItemOrder(o))
    \o <<Lock("write", Order(o)), Lock("write", Cart), Lock("write", User)>>

HandlePaymentDone(o) == FinalizePaymentConfirm(o) \o <<Lock("write", User)>>

HandlePaymentCanceled(o) ==
  <<Lock("update", Payment(o))>> \o Products("write", InItemOrder(o)) \o PointRows
    \o <<Lock("write", Order(o))>>

HandleWaitingForDeposit(o) ==
  <<Lock("update", Payment(o))>> \o CancelRows(o) \o <<Lock("write", Order(o))>>

(* Toss is called after the second lock. *)
CancelWaitingDeposit(o) == <<Lock("update", Payment(o)), Lock("update", Order(o))>> \o CancelRows(o)

(* With points to reclaim, the customer's row is locked before Toss is      *)
(* called and the products are locked after it.                             *)
CancelPayment(o) ==
  <<Lock("update", Payment(o)), Lock("update", Order(o)), Lock("update", User)>>
    \o Products("update", InItemOrder(o)) \o <<Lock("update", Earned)>>

CancelPaymentNoneEarned(o) ==
  <<Lock("update", Payment(o)), Lock("update", Order(o))>>
    \o Products("update", InItemOrder(o)) \o PointRows

CompleteRefund(o) ==
  <<Lock("update", Payment(o)), Lock("update", Order(o)), Lock("update", User)>>
    \o Products("write", Listed[o]) \o <<Lock("update", Earned)>>

(* A notification refers to the customer. *)
CompleteExchange(o) == Products("update", Listed[o]) \o <<Lock("refer", User)>>

(* Cart and point requests that belong to no order yet. *)
CreateOrderHybrid(o) == <<Lock("update", Cart), Lock("refer", User)>>

(* Also the merge at login. *)
AddItems(o) == <<Lock("update", Cart)>> \o Products("refer", Added[o])

ExpireOne(o) == PointRows

(* Each save() of send_expiry_notifications is a transaction of its own,    *)
(* and none locks the customer's row.                                       *)
SendExpiryNotice(o) == <<Lock("write", Earned)>>

(* The kinds that lock the order before its payment, or no payment at all.  *)
OrderFirst == {"process_order", "cancel_order", "rollback", "create_payment", "points_only", "add_points"}

PaymentFirst == {"finalize", "confirm", "done", "canceled", "deposit", "close_account", "cancel_unearned"}

NoPayment == {"expire", "notice", "create_order"}

(* The kinds that lock something in an order of their own. *)
Inverting == {"process_fails", "cancel_payment", "refund", "exchange", "add_items"}

Kinds == OrderFirst \cup PaymentFirst \cup NoPayment \cup Inverting

Script(o) ==
  [process_order |-> ProcessOrder(o), process_fails |-> ProcessOrderFails(o),
   cancel_order |-> CancelOrder(o), rollback |-> RollbackPaymentFailure(o),
   create_payment |-> CreatePayment(o), points_only |-> PointsOnlyPayment(o),
   add_points |-> AddPointsAfterPayment(o), finalize |-> FinalizePaymentConfirm(o),
   confirm |-> ConfirmPayment(o), done |-> HandlePaymentDone(o),
   canceled |-> HandlePaymentCanceled(o), deposit |-> HandleWaitingForDeposit(o),
   close_account |-> CancelWaitingDeposit(o), cancel_payment |-> CancelPayment(o),
   cancel_unearned |-> CancelPaymentNoneEarned(o), refund |-> CompleteRefund(o),
   exchange |-> CompleteExchange(o), create_order |-> CreateOrderHybrid(o),
   add_items |-> AddItems(o), expire |-> ExpireOne(o),
   notice |-> SendExpiryNotice(o)]

Scripts == [o \in Orders |-> Script(o)]

-----------------------------------------------------------------------------
Idle == [kind |-> "idle"]

Running == {t \in Txs : tx[t] # Idle}

Locks(t) == Scripts[tx[t].order][tx[t].kind]

Held(t) == {Locks(t)[i] : i \in 1..tx[t].held}

More(t) == tx[t].held < Len(Locks(t))

Wanted(t) == Locks(t)[tx[t].held + 1]

(* t waits for s. *)
Waits(t, s) ==
  /\ s # t /\ More(t)
  /\ \E l \in Held(s) : l.row = Wanted(t).row /\ Conflict(l.strength, Wanted(t).strength)

Init == tx = [t \in Txs |-> Idle]

Begin(t, kind, o) ==
  /\ t \notin Running
  /\ tx' = [tx EXCEPT ![t] = [kind |-> kind, order |-> o, held |-> 0]]

Take(t) ==
  /\ t \in Running /\ More(t)
  /\ \A s \in Running : ~Waits(t, s)
  /\ tx' = [tx EXCEPT ![t].held = @ + 1]

Commit(t) ==
  /\ t \in Running /\ ~More(t)
  /\ tx' = [tx EXCEPT ![t] = Idle]

(* A transaction returns early or fails, or PostgreSQL picks it to end a    *)
(* deadlock.                                                                *)
RollBack(t) ==
  /\ t \in Running /\ More(t)
  /\ tx' = [tx EXCEPT ![t] = Idle]

Next ==
  \E t \in Txs :
    \/ \E kind \in Kinds, o \in Orders : Begin(t, kind, o)
    \/ Take(t) \/ Commit(t) \/ RollBack(t)

Spec == Init /\ [][Next]_tx

-----------------------------------------------------------------------------
(* Transactions that all wait for one another. *)
Ring(S) == S # {} /\ \A t \in S : \E s \in S : Waits(t, s)

Rings == {S \in SUBSET Running : Ring(S)}

(* Orders, cancellations, rollbacks and points-only payments never deadlock *)
(* among themselves, and neither do the transactions that start from the    *)
(* payment: products are locked by id everywhere and the points after them  *)
(* (README.md:22, order_tasks.py:68).                                       *)
FamiliesNeverDeadlock ==
  \A S \in Rings :
    \A family \in {OrderFirst, PaymentFirst} :
      ~({tx[t].kind : t \in S} \subseteq family \cup NoPayment)

(* What it takes to deadlock: for one order, a transaction that starts from *)
(* the order and one that starts from the payment; or a refund that locks   *)
(* the customer before the products, a return that locks products as the    *)
(* customer listed them, an order that fails and wants the active cart, or  *)
(* items being added to it.                                                 *)
RingsNeedAnInversion ==
  \A S \in Rings :
    \/ \E s, t \in S : tx[s].order = tx[t].order
                       /\ tx[s].kind \in OrderFirst /\ tx[t].kind \in PaymentFirst
    \/ \E t \in S : tx[t].kind \in Inverting

(* Use, refund and expiry lock earn rows in opposite orders and never       *)
(* contend for them, as all take the customer's row first                   *)
(* (point_service.py:239 and :576).  Only the expiry notice, which does     *)
(* not, waits for one or keeps somebody waiting (point_service.py:697-700): *)
(* it has nothing while it waits and wants nothing more once it has a row,  *)
(* so earn rows are in no ring.                                             *)
EarnRowsMeetOnlyTheNotice ==
  \A t, s \in Running :
    Waits(t, s) /\ Wanted(t).row = Earned =>
      \/ tx[t].kind = "notice" /\ Held(t) = {}
      \/ tx[s].kind = "notice" /\ ~More(s)

=============================================================================
