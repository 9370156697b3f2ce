----------------------------- MODULE OrderIntake -----------------------------
(***************************************************************************)
(* From the cart to an order whose stock and points are reserved: the cart *)
(* requests, create_order_hybrid, the Celery task that processes the order *)
(* and gives the cart back when it cannot, and the Beat sweep that         *)
(* publishes or abandons what was never processed.  What happens to a      *)
(* confirmed order is PaymentFlow's subject; here it is paid, failed or    *)
(* canceled in one step, with its effect on stock, points and carts.       *)
(*                                                                         *)
(* A request looks its cart up in one transaction and works on it in the   *)
(* next.  That somebody else comes in between is the option of `late`      *)
(* named after the request: then the request is two actions with a record  *)
(* of `open` between them.                                                 *)
(***************************************************************************)
EXTENDS Sums

CONSTANTS
  Customers,
  Carts, Orders,   \* row ids, given out in ascending order
  Products,        \* product ids, the order in which the task takes stock
  Owner,           \* Owner[c]: the customer of a cart row
  InitialStock, InitialPoints,
  Quantities,      \* quantities a request asks for
  PointAmounts,    \* amounts of points a customer asks to use
  MaxLine,         \* bound: units of a product in a cart
  MaxFaults,       \* bound: messages lost, refused or delivered again
  MaxOpen,         \* bound: overtaken requests at a time
  Environments     \* sets of requests that may be overtaken; one is chosen

ASSUME IntakeAssumption ==
  /\ Products \subseteq Nat /\ Carts \subseteq Nat
  /\ Orders \subseteq Nat /\ IsFiniteSet(Orders)
  /\ Owner \in [Carts -> Customers]
  /\ InitialStock \in [Products -> Nat] /\ InitialPoints \in [Customers -> Nat]
  /\ Quantities \subseteq Nat \ {0} /\ PointAmounts \subseteq Nat
  /\ MaxLine \in Nat /\ MaxFaults \in Nat /\ MaxOpen \in Nat
  /\ Environments \subseteq SUBSET {"edit", "order"}

VARIABLES
  stock,   \* stock[p]: Product.stock
  points,  \* points[u]: User.points
  carts,   \* carts[c]: Cart row with its CartItem rows (0: no row)
  orders,  \* orders[o]: Order row with its OrderItem rows (0: no row)
  queue,   \* orders with a process_order_heavy_tasks message in the broker
  open,    \* requests between their read and their transaction
  faults,  \* how many messages were lost, refused or redelivered
  late     \* the requests that may be overtaken in this run, fixed

vars == <<stock, points, carts, orders, queue, open, faults, late>>

-----------------------------------------------------------------------------
(* Rows. *)

Units == [Products -> Nat]

Nothing == [p \in Products |-> 0]

NewCart == [used |-> FALSE, active |-> FALSE, items |-> Nothing]

NoOrder == [status |-> "none", cart |-> 0, quoted |-> Nothing, items |-> Nothing,
            pts |-> 0, spent |-> 0]

OrderStatuses == {"none", "pending", "confirmed", "paid", "failed", "payment_failed", "canceled"}

CartRows == [used : BOOLEAN, active : BOOLEAN, items : Units]

OrderRows == [status : OrderStatuses, cart : Nat, quoted : Units,
              items : Units, pts : Nat, spent : Nat]

Requests == [name : {"edit", "order"}, cart : Carts, quoted : Units, pts : Nat]

(* Stock and balances are never negative (PositiveIntegerField: a negative  *)
(* value would fail the transaction), and every row and request has the     *)
(* shape the code gives it.                                                 *)
TypeOK ==
  /\ stock \in Units
  /\ points \in [Customers -> Nat]
  /\ carts \in [Carts -> CartRows]
  /\ orders \in [Orders -> OrderRows]
  /\ queue \subseteq Orders
  /\ open \subseteq Requests
  /\ faults \in Nat
  /\ late \in Environments

Init ==
  /\ stock = InitialStock
  /\ points = InitialPoints
  /\ carts = [c \in Carts |-> NewCart]
  /\ orders = [o \in Orders |-> NoOrder]
  /\ queue = {}
  /\ open = {}
  /\ faults = 0
  /\ late \in Environments

Fault == faults < MaxFaults /\ faults' = faults + 1

-----------------------------------------------------------------------------
(* Cart requests (CartViewSet and CartService). *)

ActiveCarts(u) == {c \in Carts : Owner[c] = u /\ carts[c].active}

ResolvesInactive(c) == carts[c].used \/ ActiveCarts(Owner[c]) = {}  \* mutant

(* get_or_create_active_cart: the customer's active cart, or a new row when *)
(* there is none.                                                           *)
Resolves(c) ==
  \/ carts[c].active
  \/ /\ ActiveCarts(Owner[c]) = {}
     /\ ~carts[c].used /\ \A d \in Carts : Owner[d] = Owner[c] /\ d < c => carts[d].used

Resolved(c, items) == [carts EXCEPT ![c] = [used |-> TRUE, active |-> TRUE, items |-> items]]

EditRequest(c) == [name |-> "edit", cart |-> c, quoted |-> Nothing, pts |-> 0]

(* A request is overtaken: it goes on later. *)
Begin(r) == Cardinality(open) < MaxOpen /\ open' = open \union {r}

EditStalls(c) ==
  /\ "edit" \in late
  /\ Resolves(c)
  /\ carts' = Resolved(c, carts[c].items)
  /\ Begin(EditRequest(c))
  /\ UNCHANGED <<stock, points, orders, queue, faults, late>>

(* A request leaves these items in the cart it looked up.  It does not ask  *)
(* whether the cart is still the active one.                                *)
Edit(c, items) ==
  /\ \/ Resolves(c) /\ carts' = Resolved(c, items) /\ UNCHANGED open
     \/ /\ EditRequest(c) \in open
        /\ carts' = [carts EXCEPT ![c].items = items]
        /\ open' = open \ {EditRequest(c)}
  /\ UNCHANGED <<stock, points, orders, queue, faults, late>>

AddItem(c, p, q) ==
  /\ carts[c].items[p] + q <= stock[p]
  /\ carts[c].items[p] + q <= MaxLine
  /\ Edit(c, [carts[c].items EXCEPT ![p] = @ + q])

(* bulk_add_items compares each quantity, not the total, with the stock. *)
BulkAddItems(c, wanted) ==
  LET added == [p \in Products |->
                  carts[c].items[p] + IF wanted[p] <= stock[p] THEN wanted[p] ELSE 0]
  IN  /\ \A p \in Products : added[p] <= MaxLine
      /\ Edit(c, added)

(* Cart.merge_anonymous_cart at login: no stock is looked at, and the lock  *)
(* on the customer's cart is kept from its lookup on.                       *)
MergeAnonymousCart(c, anonymous) ==
  LET merged == [p \in Products |-> carts[c].items[p] + anonymous[p]]
  IN  /\ Resolves(c)
      /\ \A p \in Products : merged[p] <= MaxLine
      /\ carts' = Resolved(c, merged)
      /\ UNCHANGED <<stock, points, orders, queue, open, faults, late>>

UpdateItemQuantity(c, p, q) ==
  /\ carts[c].items[p] > 0
  /\ q <= stock[p]
  /\ Edit(c, [carts[c].items EXCEPT ![p] = q])

RemoveItem(c, p) ==
  /\ carts[c].items[p] > 0
  /\ Edit(c, [carts[c].items EXCEPT ![p] = 0])

ClearCart(c) == Edit(c, Nothing)

(* Sold-out lines are deleted, the others cut down to what there is. *)
CleanupUnavailableItems(c) ==
  Edit(c, [p \in Products |->
             IF carts[c].items[p] > stock[p] THEN stock[p] ELSE carts[c].items[p]])

-----------------------------------------------------------------------------
(* Placing an order (OrderViewSet.create, create_order_hybrid). *)

(* Everything is validated, and the amount computed, on rows read without a *)
(* lock.                                                                    *)
MayOrder(c, n) ==
  /\ carts[c].active /\ carts[c].items # Nothing
  /\ \A p \in Products : carts[c].items[p] <= stock[p]
  /\ n <= points[Owner[c]]

OrderRequest(c, n) ==
  [name |-> "order", cart |-> c, quoted |-> carts[c].items, pts |-> n]

OrderableWhileFilled(c) == carts[c].items # Nothing             \* mutant

(* The check under the cart lock: the same cart is ordered once. *)
Orderable(c) == carts[c].active /\ carts[c].items # Nothing

(* The order row and the inactive cart are committed, then the task is      *)
(* published; a refused publish is only logged.                             *)
CreateOrder(o, r) ==
  /\ orders[o].status = "none" /\ \A p \in Orders : p < o => orders[p].status # "none"
  /\ Orderable(r.cart)
  /\ orders' = [orders EXCEPT ![o] =
       [status |-> "pending", cart |-> r.cart, quoted |-> r.quoted, items |-> Nothing,
        pts |-> r.pts, spent |-> 0]]
  /\ carts' = [carts EXCEPT ![r.cart].active = FALSE]
  /\ \/ queue' = queue \union {o} /\ UNCHANGED faults
     \/ Fault /\ UNCHANGED queue
  /\ UNCHANGED <<stock, points, late>>

PlaceOrder(o, c, n) ==
  MayOrder(c, n) /\ CreateOrder(o, OrderRequest(c, n)) /\ UNCHANGED open

OrderStalls(c, n) ==
  /\ "order" \in late
  /\ MayOrder(c, n)
  /\ Begin(OrderRequest(c, n))
  /\ UNCHANGED <<stock, points, carts, orders, queue, faults, late>>

OrderResumes(o, r) ==
  /\ r \in open /\ r.name = "order"
  /\ open' = open \ {r}
  /\ CreateOrder(o, r)

(* The cart was ordered or emptied meanwhile: the latest order is shown. *)
OrderRefused(r) ==
  /\ r \in open /\ r.name = "order"
  /\ ~Orderable(r.cart)
  /\ open' = open \ {r}
  /\ UNCHANGED <<stock, points, carts, orders, queue, faults, late>>

-----------------------------------------------------------------------------
(* Processing (process_order_heavy_tasks). *)

(* acks_late, and a republished order has two messages: the message may     *)
(* come again.                                                              *)
Deliver(o) ==
  /\ o \in queue
  /\ \/ queue' = queue \ {o} /\ UNCHANGED faults
     \/ Fault /\ UNCHANGED queue

(* unique_active_cart_per_user: what breaks it is rolled back. *)
ConstraintHolds(cs) == \A c, d \in Carts :
  Owner[c] = Owner[d] /\ cs[c].active /\ cs[d].active => c = d

RestoreCartAlways(c) == [carts EXCEPT ![c].active = TRUE]        \* mutant

RestoreCartToNewer(c) ==                                       \* mutant
  IF ActiveCarts(Owner[c]) = {} THEN [carts EXCEPT ![c].active = TRUE] ELSE carts

(* _restore_cart: the order's cart becomes active again, or what the newer  *)
(* active cart does not hold is moved there.                                *)
RestoreCart(c) ==
  LET newer == ActiveCarts(Owner[c]) \ {c}
      n == CHOOSE d \in newer : TRUE
      Moves(p) == carts[n].items[p] = 0
  IN  IF newer = {} THEN [carts EXCEPT ![c].active = TRUE]
      ELSE [carts EXCEPT
              ![n].items = [p \in Products |-> IF Moves(p) THEN carts[c].items[p] ELSE @[p]],
              ![c].items = [p \in Products |-> IF Moves(p) THEN 0 ELSE @[p]]]

FailOrder(o, rows) ==
  LET restored == RestoreCart(orders[o].cart) IN
  /\ ConstraintHolds(restored)
  /\ carts' = restored
  /\ orders' = [orders EXCEPT ![o].status = "failed", ![o].items = rows]

StockLeftTaken(rows) == [p \in Products |-> stock[p] - rows[p]]  \* mutant

(* The failing branch returns normally, so the transaction commits: the     *)
(* units that the rows created so far took are given back by hand.          *)
StockAfterFailure(rows) == [p \in Products |-> (stock[p] - rows[p]) + rows[p]]

Wanted(o) == carts[orders[o].cart].items

Buyer(o) == Owner[orders[o].cart]

ShortNever(o) == {}                                              \* mutant

Short(o) == {p \in Products : Wanted(o)[p] > stock[p]}

(* The rows of the products before the first short one. *)
RowsBefore(o) == [p \in Products |-> IF \A s \in Short(o) : p < s THEN Wanted(o)[p] ELSE 0]

IsPending(o) == orders[o].status = "pending"

SkipOrder(o) ==
  /\ Deliver(o)
  /\ ~IsPending(o)
  /\ UNCHANGED <<stock, points, carts, orders, open, late>>

FailOnStock(o) ==
  /\ Deliver(o)
  /\ IsPending(o) /\ Short(o) # {}
  /\ FailOrder(o, RowsBefore(o))
  /\ stock' = StockAfterFailure(RowsBefore(o))
  /\ UNCHANGED <<points, open, late>>

FailOnPoints(o) ==
  /\ Deliver(o)
  /\ IsPending(o) /\ Short(o) = {}
  /\ orders[o].pts > points[Buyer(o)]
  /\ FailOrder(o, Wanted(o))
  /\ stock' = StockAfterFailure(Wanted(o))
  /\ UNCHANGED <<points, open, late>>

ConfirmOrder(o) ==
  /\ Deliver(o)
  /\ IsPending(o) /\ Short(o) = {}
  /\ orders[o].pts <= points[Buyer(o)]
  /\ stock' = [p \in Products |-> stock[p] - Wanted(o)[p]]
  /\ points' = [points EXCEPT ![Buyer(o)] = @ - orders[o].pts]
  /\ orders' = [orders EXCEPT ![o].status = "confirmed", ![o].items = Wanted(o),
                              ![o].spent = orders[o].pts]
  /\ carts' = [carts EXCEPT ![orders[o].cart].items = Nothing]
  /\ UNCHANGED <<open, late>>

ProcessOrder(o) == SkipOrder(o) \/ FailOnStock(o) \/ FailOnPoints(o) \/ ConfirmOrder(o)

(* The broker drops the message, or the task used up its retries. *)
LoseMessage(o) ==
  /\ o \in queue
  /\ Fault
  /\ queue' = queue \ {o}
  /\ UNCHANGED <<stock, points, carts, orders, open, late>>

-----------------------------------------------------------------------------
(* The sweep over orders that were never processed. *)

Stalled(o) == IsPending(o) /\ orders[o].items = Nothing

RepublishStalledOrder(o) ==
  /\ Stalled(o)
  /\ queue' = queue \union {o}
  /\ UNCHANGED <<stock, points, carts, orders, open, faults, late>>

AbandonStalledOrder(o) ==
  /\ Stalled(o)
  /\ FailOrder(o, orders[o].items)
  /\ UNCHANGED <<stock, points, queue, open, faults, late>>

-----------------------------------------------------------------------------
(* The end of an order. *)

CloseRefundingUsedPoints(o, status) ==                         \* mutant
  /\ orders' = [orders EXCEPT ![o].status = status]
  /\ stock' = [p \in Products |-> stock[p] + orders[o].items[p]]
  /\ points' = [points EXCEPT ![Buyer(o)] = @ + orders[o].pts]
  /\ UNCHANGED <<carts, queue, open, faults, late>>

(* Stock goes back row by row, and points only if the ledger has a "use"    *)
(* entry: an order canceled before it was processed took none.              *)
CloseOrder(o, status) ==
  /\ orders' = [orders EXCEPT ![o].status = status]
  /\ stock' = [p \in Products |-> stock[p] + orders[o].items[p]]
  /\ points' = [points EXCEPT ![Buyer(o)] = @ + orders[o].spent]
  /\ UNCHANGED <<carts, queue, open, faults, late>>

CancelAnyOrder(o) ==                                           \* mutant
  orders[o].status \in {"pending", "confirmed", "failed"} /\ CloseOrder(o, "canceled")

(* cancel_order; the payment fence is PaymentFlow's. *)
CancelOrder(o) ==
  orders[o].status \in {"pending", "confirmed"} /\ CloseOrder(o, "canceled")

(* expire_unpaid_orders takes only orders that have items. *)
ExpireOrder(o) ==
  /\ orders[o].status \in {"pending", "confirmed"}
  /\ orders[o].items # Nothing
  /\ CloseOrder(o, "canceled")

(* rollback_payment_failure. *)
FailPayment(o) == orders[o].status = "confirmed" /\ CloseOrder(o, "payment_failed")

(* cancel_payment and the CANCELED webhook. *)
RefundOrder(o) == orders[o].status = "paid" /\ CloseOrder(o, "canceled")

(* Every way of paying deactivates whatever cart the customer has by then. *)
PayOrder(o) ==
  /\ orders[o].status = "confirmed"
  /\ orders' = [orders EXCEPT ![o].status = "paid"]
  /\ carts' = [c \in Carts |->
                 IF Owner[c] = Buyer(o) THEN [carts[c] EXCEPT !.active = FALSE] ELSE carts[c]]
  /\ UNCHANGED <<stock, points, queue, open, faults, late>>

-----------------------------------------------------------------------------

CartStep ==
  \E c \in Carts :
    \/ EditStalls(c) \/ ClearCart(c) \/ CleanupUnavailableItems(c)
    \/ \E p \in Products :
         \/ RemoveItem(c, p)
         \/ \E q \in Quantities : AddItem(c, p, q) \/ UpdateItemQuantity(c, p, q)
    \/ \E wanted \in [Products -> Quantities \union {0}] :
         BulkAddItems(c, wanted) \/ MergeAnonymousCart(c, wanted)

PlaceStep ==
  \/ \E c \in Carts, n \in PointAmounts :
       OrderStalls(c, n) \/ \E o \in Orders : PlaceOrder(o, c, n)
  \/ \E r \in open : OrderRefused(r) \/ \E o \in Orders : OrderResumes(o, r)

TaskStep(o) ==
  \/ ProcessOrder(o) \/ LoseMessage(o)
  \/ RepublishStalledOrder(o) \/ AbandonStalledOrder(o)

EndStep(o) ==
  CancelOrder(o) \/ ExpireOrder(o) \/ FailPayment(o) \/ RefundOrder(o) \/ PayOrder(o)

Next == CartStep \/ PlaceStep \/ \E o \in Orders : TaskStep(o) \/ EndStep(o)

Spec == Init /\ [][Next]_vars

(* A worker takes every message, and Beat starts the sweeps again and again. *)
FairSpec == Spec /\ \A o \in Orders :
  /\ WF_vars(ProcessOrder(o)) /\ WF_vars(RepublishStalledOrder(o))
  /\ WF_vars(AbandonStalledOrder(o)) /\ WF_vars(ExpireOrder(o))

-----------------------------------------------------------------------------
(* Properties. *)

HoldsStock(o) == orders[o].status \in {"confirmed", "paid"}

UnitsHeld(p) == [o \in Orders |-> IF HoldsStock(o) THEN orders[o].items[p] ELSE 0]

PointsHeld(u) ==
  [o \in Orders |-> IF HoldsStock(o) /\ Buyer(o) = u THEN orders[o].spent ELSE 0]

(* No unit is lost or sold twice: what is missing from the shelf is what    *)
(* confirmed and paid orders hold, although failing orders commit after     *)
(* taking part of their stock and leave their OrderItem rows behind.        *)
StockConserved == \A p \in Products :
  stock[p] + SumOver(UnitsHeld(p), Orders) = InitialStock[p]

(* Points leave a balance once, for an order that is confirmed or paid, and *)
(* come back once when it ends; an order canceled before it was processed   *)
(* gives nothing back.                                                      *)
PointsConserved == \A u \in Customers :
  points[u] + SumOver(PointsHeld(u), Orders) = InitialPoints[u]

(* Two clicks on "order", or a republished message, never make two orders   *)
(* out of one cart: the cart of a pending order is not active and belongs   *)
(* to no other pending order.                                               *)
CartOrderedOnce == \A o \in Orders : IsPending(o) =>
  /\ orders[o].cart \in Carts
  /\ ~carts[orders[o].cart].active
  /\ \A o2 \in Orders : IsPending(o2) /\ orders[o2].cart = orders[o].cart => o2 = o

(* The customer is charged for what was reserved, as long as no request is  *)
(* overtaken: the amount is computed when the order is placed, the items    *)
(* are taken from the cart when it is processed.                            *)
QuotedIsOrdered == late = {} => \A o \in Orders :
  HoldsStock(o) => orders[o].items = orders[o].quoted

(* An order that fails gives its cart back: every product it wanted is in   *)
(* the customer's active cart afterwards, in the quantity ordered or in the *)
(* one the customer has chosen since.                                       *)
FailedGivesCartBack == [][\A o \in Orders :
  IsPending(o) /\ orders'[o].status = "failed" =>
    \E c \in Carts :
      /\ Owner[c] = Buyer(o) /\ carts'[c].active
      /\ \A p \in Products : Wanted(o)[p] > 0 =>
           carts'[c].items[p] = (IF carts[c].items[p] > 0 THEN carts[c].items[p] ELSE Wanted(o)[p])]_vars

Reservation == INSTANCE StockReservation WITH
  held <- [o \in Orders |-> IF HoldsStock(o) THEN orders[o].items ELSE Nothing],
  phase <- [o \in Orders |-> IF HoldsStock(o) THEN "held"
                             ELSE IF orders[o].status \in {"none", "pending"} THEN "open"
                             ELSE "closed"]

(* Stock is taken for a whole order at once and given back at most once. *)
ImplementsReservation == Reservation!Spec

(* No order stays unprocessed: it is confirmed, fails or is canceled,       *)
(* although its message may be refused, lost or fail for ever.              *)
PendingIsDecided == \A o \in Orders : IsPending(o) ~> ~IsPending(o)

=============================================================================
