-------------------------- MODULE OrderIntakeProofs --------------------------
(***************************************************************************)
(* OrderIntake for any number of customers, carts, orders and products:    *)
(* stock and balances never go negative, no unit and no point is lost or   *)
(* counted twice, a cart is ordered once, stock is reserved as             *)
(* StockReservation promises, and orders that no request overtakes reserve *)
(* what was quoted.                                                        *)
(***************************************************************************)
EXTENDS OrderIntake, SumTheorems, TLAPS

(* Cart rows exist before they are active, or ordered from. *)
CartsExist ==
  /\ \A c \in Carts : carts[c].active => carts[c].used
  /\ \A o \in Orders : orders[o].status # "none" =>
       orders[o].cart \in Carts /\ carts[orders[o].cart].used

(* A pending order has taken nothing yet. *)
PendingHoldsNothing == \A o \in Orders :
  /\ IsPending(o) => orders[o].items = Nothing /\ orders[o].spent = 0

(* Without overtaken requests the cart of a pending order stays as it was   *)
(* quoted: only requests for active carts and restored carts change one.    *)
CartIsAsQuoted == late = {} =>
  /\ open = {}
  /\ \A o \in Orders : IsPending(o) => carts[orders[o].cart].items = orders[o].quoted

IntakeInv ==
  /\ TypeOK /\ CartsExist /\ PendingHoldsNothing /\ CartOrderedOnce
  /\ CartIsAsQuoted /\ QuotedIsOrdered

-----------------------------------------------------------------------------
(* What the steps of the customer and the tasks come down to. *)

(* A cart request, whichever it is. *)
SomeEdit == \E c \in Carts : EditStalls(c) \/ \E items \in Units : Edit(c, items)

(* A pending order fails: nothing it took is left taken. *)
SomeFailure(o) == \E rows \in Units :
  /\ IsPending(o) /\ FailOrder(o, rows)
  /\ queue' \subseteq Orders /\ faults' \in Nat
  /\ UNCHANGED <<stock, points, open, late>>

(* An order is closed and gives back what it holds. *)
SomeClose(o) == \E status \in {"canceled", "payment_failed"} :
  orders[o].status \in {"pending", "confirmed", "paid"} /\ CloseOrder(o, status)

(* A message is published, lost or passed over. *)
SomeMessage ==
  /\ queue' \subseteq Orders /\ faults' \in Nat
  /\ UNCHANGED <<stock, points, carts, orders, open, late>>

(* Nothing is a function over the products. *)
LEMMA NothingType == Nothing \in Units
  BY DEF Nothing, Units

(* Every cart request leaves a whole number of units of each product. *)
LEMMA CartSteps ==
  ASSUME TypeOK, CartStep
  PROVE  SomeEdit
<1>1. PICK c \in Carts :
        \/ EditStalls(c) \/ ClearCart(c) \/ CleanupUnavailableItems(c)
        \/ \E p \in Products :
             \/ RemoveItem(c, p)
             \/ \E q \in Quantities : AddItem(c, p, q) \/ UpdateItemQuantity(c, p, q)
        \/ \E wanted \in [Products -> Quantities \union {0}] :
             BulkAddItems(c, wanted) \/ MergeAnonymousCart(c, wanted)
  BY DEF CartStep
<1>2. carts[c].items \in Units /\ stock \in Units
  BY DEF TypeOK, CartRows
<1>3. Quantities \union {0} \subseteq Nat
  BY IntakeAssumption
<1>4. CASE EditStalls(c)
  BY <1>4 DEF SomeEdit
<1>5. CASE ClearCart(c)
  BY <1>5, NothingType DEF SomeEdit, ClearCart
<1>6. CASE CleanupUnavailableItems(c)
  <2>1. [p \in Products |-> IF carts[c].items[p] > stock[p] THEN stock[p]
                            ELSE carts[c].items[p]] \in Units
    BY <1>2 DEF Units
  <2> QED BY <2>1, <1>6 DEF SomeEdit, CleanupUnavailableItems
<1>7. ASSUME NEW p \in Products, RemoveItem(c, p)
      PROVE  SomeEdit
  <2>1. [carts[c].items EXCEPT ![p] = 0] \in Units
    BY <1>2 DEF Units
  <2> QED BY <2>1, <1>7 DEF SomeEdit, RemoveItem
<1>8. ASSUME NEW p \in Products, NEW q \in Quantities,
             AddItem(c, p, q) \/ UpdateItemQuantity(c, p, q)
      PROVE  SomeEdit
  <2>1. /\ [carts[c].items EXCEPT ![p] = @ + q] \in Units
        /\ [carts[c].items EXCEPT ![p] = q] \in Units
    BY <1>2, <1>3 DEF Units
  <2> QED BY <2>1, <1>8 DEF SomeEdit, AddItem, UpdateItemQuantity
<1>9. ASSUME NEW wanted \in [Products -> Quantities \union {0}],
             BulkAddItems(c, wanted) \/ MergeAnonymousCart(c, wanted)
      PROVE  SomeEdit
  <2> DEFINE bulk == [p \in Products |->
                        carts[c].items[p] + IF wanted[p] <= stock[p] THEN wanted[p] ELSE 0]
             merged == [p \in Products |-> carts[c].items[p] + wanted[p]]
  <2>1. bulk \in Units /\ merged \in Units
    BY <1>2, <1>3 DEF Units
  <2>2. CASE BulkAddItems(c, wanted)
    BY <2>1, <2>2 DEF SomeEdit, BulkAddItems
  <2>3. CASE MergeAnonymousCart(c, wanted)
    BY <2>1, <2>3 DEF SomeEdit, MergeAnonymousCart, Edit
  <2> QED BY <1>9, <2>2, <2>3
<1> QED BY <1>1, <1>4, <1>5, <1>6, <1>7, <1>8, <1>9

(* A redelivered or consumed message leaves a queue of orders. *)
LEMMA DeliverType ==
  ASSUME TypeOK, NEW o \in Orders, Deliver(o)
  PROVE  queue' \subseteq Orders /\ faults' \in Nat
  BY DEF TypeOK, Deliver, Fault

(* The units a failing order took go back where they came from. *)
LEMMA StockIsGivenBack ==
  ASSUME TypeOK, NEW rows \in Units
  PROVE  StockAfterFailure(rows) = stock
  BY DEF TypeOK, StockAfterFailure, Units

(* The cart of a pending order holds whole numbers of units. *)
LEMMA PendingCart ==
  ASSUME TypeOK, CartsExist, NEW o \in Orders, orders[o].status # "none"
  PROVE  /\ orders[o].cart \in Carts
         /\ Wanted(o) \in Units
         /\ Buyer(o) \in Customers
<1>1. orders[o].cart \in Carts
  BY DEF CartsExist
<1>2. carts[orders[o].cart] \in CartRows
  BY <1>1 DEF TypeOK
<1>3. Wanted(o) \in Units
  BY <1>2 DEF Wanted, CartRows
<1>4. Buyer(o) \in Customers
  BY <1>1, IntakeAssumption DEF Buyer
<1> QED BY <1>1, <1>3, <1>4

(* A task step confirms an order, fails it, or only moves messages. *)
LEMMA TaskSteps ==
  ASSUME TypeOK, CartsExist, NEW o \in Orders, TaskStep(o)
  PROVE  SomeMessage \/ SomeFailure(o) \/ ConfirmOrder(o)
<1>1. CASE SkipOrder(o)
  BY <1>1, DeliverType DEF SkipOrder, SomeMessage
<1>2. CASE FailOnStock(o)
  <2>1. IsPending(o)
    BY <1>2 DEF FailOnStock
  <2>2. Wanted(o) \in Units
    BY <2>1, PendingCart DEF IsPending
  <2>3. RowsBefore(o) \in Units
    BY <2>2 DEF RowsBefore, Units
  <2>4. StockAfterFailure(RowsBefore(o)) = stock
    BY <2>3, StockIsGivenBack
  <2> QED BY <1>2, <2>3, <2>4, DeliverType DEF FailOnStock, SomeFailure
<1>3. CASE FailOnPoints(o)
  <2>1. IsPending(o)
    BY <1>3 DEF FailOnPoints
  <2>2. Wanted(o) \in Units
    BY <2>1, PendingCart DEF IsPending
  <2>3. StockAfterFailure(Wanted(o)) = stock
    BY <2>2, StockIsGivenBack
  <2> QED BY <1>3, <2>2, <2>3, DeliverType DEF FailOnPoints, SomeFailure
<1>4. CASE LoseMessage(o)
  BY <1>4 DEF LoseMessage, SomeMessage, TypeOK, Fault
<1>5. CASE RepublishStalledOrder(o)
  BY <1>5 DEF RepublishStalledOrder, SomeMessage, TypeOK
<1>6. CASE AbandonStalledOrder(o)
  <2>1. orders[o].items \in Units
    BY DEF TypeOK, OrderRows
  <2> QED BY <1>6, <2>1 DEF AbandonStalledOrder, SomeFailure, Stalled, TypeOK
<1> QED BY <1>1, <1>2, <1>3, <1>4, <1>5, <1>6 DEF TaskStep, ProcessOrder

(* An order ends by being paid, or it is closed. *)
LEMMA EndSteps ==
  ASSUME NEW o \in Orders, EndStep(o)
  PROVE  SomeClose(o) \/ PayOrder(o)
  BY DEF EndStep, CancelOrder, ExpireOrder, FailPayment, RefundOrder, SomeClose

(* What _restore_cart does to the other carts: nothing to an inactive one. *)
LEMMA RestoreCartEffect ==
  ASSUME TypeOK, NEW c \in Carts
  PROVE  /\ RestoreCart(c) \in [Carts -> CartRows]
         /\ \A d \in Carts : RestoreCart(c)[d].used = carts[d].used
         /\ \A d \in Carts : d # c /\ RestoreCart(c)[d].active => carts[d].active
         /\ \A d \in Carts : d # c /\ ~carts[d].active =>
              /\ ~RestoreCart(c)[d].active
              /\ RestoreCart(c)[d].items = carts[d].items
<1> DEFINE newer == ActiveCarts(Owner[c]) \ {c}
           n == CHOOSE d \in newer : TRUE
           moved == [p \in Products |-> IF carts[n].items[p] = 0 THEN carts[c].items[p]
                                        ELSE carts[n].items[p]]
           kept == [p \in Products |-> IF carts[n].items[p] = 0 THEN 0 ELSE carts[c].items[p]]
<1>1. carts \in [Carts -> CartRows]
  BY DEF TypeOK
<1>2. CASE newer = {}
  <2>1. RestoreCart(c) = [carts EXCEPT ![c] = [@ EXCEPT !.active = TRUE]]
    BY <1>2 DEF RestoreCart
  <2> QED BY <1>1, <2>1 DEF CartRows
<1>3. CASE newer # {}
  <2>1. n \in Carts /\ n # c /\ carts[n].active
    BY <1>3 DEF ActiveCarts
  <2>2. moved \in Units /\ kept \in Units
    BY <1>1, <2>1 DEF CartRows, Units
  <2>3. RestoreCart(c) = [[carts EXCEPT ![n] = [@ EXCEPT !.items = moved]]
                            EXCEPT ![c] = [@ EXCEPT !.items = kept]]
    BY <1>1, <1>3, <2>1 DEF RestoreCart
  <2> HIDE DEF moved, kept, n
  <2> QED BY <1>1, <2>1, <2>2, <2>3 DEF CartRows
<1> QED BY <1>2, <1>3

-----------------------------------------------------------------------------
(* The invariant is inductive: one lemma for each kind of step. *)

(* The initial database satisfies the invariant. *)
LEMMA InitInv == Init => IntakeInv
<1> SUFFICES ASSUME Init PROVE IntakeInv
  OBVIOUS
<1>1. NewCart \in CartRows /\ NoOrder \in OrderRows
  BY NothingType DEF NewCart, CartRows, NoOrder, OrderRows, OrderStatuses
<1>2. TypeOK
  BY <1>1, IntakeAssumption DEF Init, TypeOK, Units
<1>3. \A o \in Orders : orders[o].status = "none"
  BY DEF Init, NoOrder
<1>4. \A c \in Carts : ~carts[c].active
  BY DEF Init, NewCart
<1> QED
  BY <1>2, <1>3, <1>4 DEF IntakeInv, CartsExist, PendingHoldsNothing, CartOrderedOnce,
       CartIsAsQuoted, QuotedIsOrdered, IsPending, HoldsStock, Init

(* Only carts and requests change, and no pending order's cart unless a     *)
(* request was overtaken: the invariant stays.                              *)
LEMMA CartsOnlyInv ==
  ASSUME IntakeInv, UNCHANGED <<stock, points, orders, late>>,
         queue' \subseteq Orders, faults' \in Nat,
         carts' \in [Carts -> CartRows], open' \subseteq Requests,
         \A c \in Carts : carts[c].used \/ carts'[c].active => carts'[c].used,
         \A o \in Orders : IsPending(o) => ~carts'[orders[o].cart].active,
         late = {} => open' = {},
         late = {} => \A o \in Orders : IsPending(o) =>
           carts'[orders[o].cart].items = carts[orders[o].cart].items
  PROVE  IntakeInv'
<1>1. TypeOK'
  BY DEF IntakeInv, TypeOK
<1>2. CartsExist'
  BY DEF IntakeInv, CartsExist
<1>3. PendingHoldsNothing'
  BY DEF IntakeInv, PendingHoldsNothing, IsPending
<1>4. CartOrderedOnce'
  BY DEF IntakeInv, CartOrderedOnce, IsPending
<1>5. CartIsAsQuoted'
  BY DEF IntakeInv, CartIsAsQuoted, IsPending
<1>6. QuotedIsOrdered'
  BY DEF IntakeInv, QuotedIsOrdered, HoldsStock
<1> QED BY <1>1, <1>2, <1>3, <1>4, <1>5, <1>6 DEF IntakeInv

(* A cart that a request looks up is not the cart of a pending order. *)
LEMMA ResolvedIsNotPending ==
  ASSUME IntakeInv, NEW c \in Carts, Resolves(c), NEW o \in Orders, IsPending(o)
  PROVE  orders[o].cart # c
  BY DEF IntakeInv, CartsExist, CartOrderedOnce, IsPending, Resolves

(* Cart requests: the only cart they change is active, or was active when   *)
(* an overtaken request looked it up.                                       *)
LEMMA EditInv ==
  ASSUME IntakeInv, SomeEdit
  PROVE  IntakeInv'
<1>1. PICK c \in Carts : EditStalls(c) \/ \E items \in Units : Edit(c, items)
  BY DEF SomeEdit
<1>2. /\ carts \in [Carts -> CartRows] /\ open \subseteq Requests
      /\ queue \subseteq Orders /\ faults \in Nat
      /\ carts[c].items \in Units
  BY DEF IntakeInv, TypeOK, CartRows
<1>3. EditRequest(c) \in Requests
  BY NothingType DEF EditRequest, Requests
<1>4. UNCHANGED <<stock, points, orders, queue, faults, late>>
  BY <1>1 DEF EditStalls, Edit
<1>5. ASSUME NEW items \in Units, Resolves(c), carts' = Resolved(c, items),
             open' \subseteq Requests, late = {} => open' = {}
      PROVE  IntakeInv'
  <2>1. carts' = [carts EXCEPT ![c] = [used |-> TRUE, active |-> TRUE, items |-> items]]
    BY <1>5 DEF Resolved
  <2>2. carts' \in [Carts -> CartRows]
    BY <1>2, <1>5, <2>1 DEF CartRows
  <2>3. \A d \in Carts : carts[d].used \/ carts'[d].active => carts'[d].used
    BY <1>2, <2>1 DEF IntakeInv, CartsExist
  <2>4. \A o \in Orders : IsPending(o) => carts'[orders[o].cart] = carts[orders[o].cart]
    BY <1>2, <1>5, <2>1, ResolvedIsNotPending
       DEF IntakeInv, CartsExist, IsPending
  <2>5. \A o \in Orders : IsPending(o) => ~carts'[orders[o].cart].active
    BY <2>4 DEF IntakeInv, CartOrderedOnce
  <2> QED BY <1>2, <1>4, <1>5, <2>2, <2>3, <2>4, <2>5, CartsOnlyInv
<1>6. ASSUME NEW items \in Units, EditRequest(c) \in open,
             carts' = [carts EXCEPT ![c].items = items], open' = open \ {EditRequest(c)}
      PROVE  IntakeInv'
  <2>1. carts' = [carts EXCEPT ![c] = [@ EXCEPT !.items = items]]
    BY <1>6
  <2>2. carts' \in [Carts -> CartRows]
    BY <1>2, <1>6, <2>1 DEF CartRows
  <2>3. \A d \in Carts : carts'[d].used = carts[d].used /\ carts'[d].active = carts[d].active
    BY <1>2, <2>1 DEF CartRows
  <2>4. late # {}
    BY <1>6 DEF IntakeInv, CartIsAsQuoted
  <2>5. \A d \in Carts : carts[d].used \/ carts'[d].active => carts'[d].used
    BY <2>3 DEF IntakeInv, CartsExist
  <2>6. \A o \in Orders : IsPending(o) => ~carts'[orders[o].cart].active
    BY <2>3 DEF IntakeInv, CartOrderedOnce
  <2>7. open' \subseteq Requests
    BY <1>2, <1>6
  <2> QED BY <1>2, <1>4, <2>2, <2>4, <2>5, <2>6, <2>7, CartsOnlyInv
<1>7. CASE EditStalls(c)
  <2>1. open' \subseteq Requests /\ late # {}
    BY <1>2, <1>3, <1>7 DEF EditStalls, Begin
  <2> QED BY <1>2, <1>5, <1>7, <2>1 DEF EditStalls
<1>8. ASSUME NEW items \in Units, Edit(c, items) PROVE IntakeInv'
  <2>1. CASE Resolves(c) /\ carts' = Resolved(c, items) /\ UNCHANGED open
    <3>1. open' \subseteq Requests /\ (late = {} => open' = {})
      BY <1>2, <2>1 DEF IntakeInv, CartIsAsQuoted
    <3> QED BY <1>5, <2>1, <3>1
  <2>2. CASE /\ EditRequest(c) \in open
             /\ carts' = [carts EXCEPT ![c].items = items]
             /\ open' = open \ {EditRequest(c)}
    BY <1>6, <2>2
  <2> QED BY <1>8, <2>1, <2>2 DEF Edit
<1> QED BY <1>1, <1>7, <1>8

(* Steps that move only messages and requests. *)
LEMMA IdleInv ==
  ASSUME IntakeInv, UNCHANGED <<stock, points, carts, orders, late>>,
         queue' \subseteq Orders, faults' \in Nat, open' \subseteq Requests,
         late = {} => open' = {}
  PROVE  IntakeInv'
<1>1. carts' \in [Carts -> CartRows]
  BY DEF IntakeInv, TypeOK
<1>2. \A c \in Carts : carts[c].used \/ carts'[c].active => carts'[c].used
  BY DEF IntakeInv, CartsExist
<1>3. \A o \in Orders : IsPending(o) => ~carts'[orders[o].cart].active
  BY DEF IntakeInv, CartOrderedOnce
<1> QED BY <1>1, <1>2, <1>3, CartsOnlyInv

(* A new order takes an active cart away: no pending order has it. *)
LEMMA CreateInv ==
  ASSUME IntakeInv, NEW o \in Orders, NEW r \in Requests, CreateOrder(o, r),
         open' \subseteq Requests, late = {} => open' = {} /\ r.quoted = carts[r.cart].items
  PROVE  IntakeInv'
<1> DEFINE row == [status |-> "pending", cart |-> r.cart, quoted |-> r.quoted,
                   items |-> Nothing, pts |-> r.pts, spent |-> 0]
<1>1. /\ r.cart \in Carts /\ r.quoted \in Units /\ r.pts \in Nat
      /\ carts \in [Carts -> CartRows] /\ orders \in [Orders -> OrderRows]
  BY DEF IntakeInv, TypeOK, Requests
<1>2. /\ carts[r.cart].active /\ carts[r.cart].used
      /\ orders' = [orders EXCEPT ![o] = row]
      /\ carts' = [carts EXCEPT ![r.cart] = [@ EXCEPT !.active = FALSE]]
      /\ queue' \subseteq Orders /\ faults' \in Nat
      /\ UNCHANGED <<stock, points, late>>
  BY <1>1 DEF CreateOrder, Orderable, Fault, IntakeInv, TypeOK, CartsExist
<1>3. row \in OrderRows
  BY <1>1, NothingType, IntakeAssumption DEF OrderRows, OrderStatuses
<1>4. \A c \in Carts : /\ carts'[c].used = carts[c].used
                       /\ carts'[c].items = carts[c].items
                       /\ carts'[c].active => carts[c].active /\ c # r.cart
  BY <1>1, <1>2 DEF CartRows
<1>5. /\ orders'[o] = row
      /\ \A q \in Orders : q # o => orders'[q] = orders[q]
  BY <1>1, <1>2
<1>6. TypeOK'
  BY <1>1, <1>2, <1>3 DEF IntakeInv, TypeOK, CartRows
<1>7. CartsExist'
  BY <1>1, <1>2, <1>4, <1>5 DEF IntakeInv, CartsExist
<1>8. PendingHoldsNothing'
  BY <1>5 DEF IntakeInv, PendingHoldsNothing, IsPending
<1>9. CartOrderedOnce'
  <2>1. \A q \in Orders : IsPending(q) => orders[q].cart # r.cart
    BY <1>2 DEF IntakeInv, CartOrderedOnce
  <2> QED BY <1>1, <1>4, <1>5, <2>1 DEF IntakeInv, CartOrderedOnce, IsPending
<1>10. CartIsAsQuoted'
  BY <1>1, <1>2, <1>4, <1>5 DEF IntakeInv, CartIsAsQuoted, CartsExist, IsPending
<1>11. QuotedIsOrdered'
  BY <1>2, <1>5 DEF IntakeInv, QuotedIsOrdered, HoldsStock
<1> QED BY <1>6, <1>7, <1>8, <1>9, <1>10, <1>11 DEF IntakeInv

(* Placing an order, with or without an overtaken request. *)
LEMMA PlaceInv ==
  ASSUME IntakeInv, PlaceStep
  PROVE  IntakeInv'
<1>1. /\ carts \in [Carts -> CartRows] /\ open \subseteq Requests
      /\ queue \subseteq Orders /\ faults \in Nat
  BY DEF IntakeInv, TypeOK
<1>2. late = {} => open = {}
  BY DEF IntakeInv, CartIsAsQuoted
<1>3. \A c \in Carts, n \in PointAmounts : OrderRequest(c, n) \in Requests
  BY <1>1, IntakeAssumption DEF OrderRequest, Requests, CartRows
<1>4. ASSUME NEW c \in Carts, NEW n \in PointAmounts, OrderStalls(c, n) PROVE IntakeInv'
  <2>1. open' \subseteq Requests /\ late # {}
    BY <1>1, <1>3, <1>4 DEF OrderStalls, Begin
  <2> QED BY <1>1, <1>4, <2>1, IdleInv DEF OrderStalls
<1>5. ASSUME NEW c \in Carts, NEW n \in PointAmounts, NEW o \in Orders, PlaceOrder(o, c, n)
      PROVE  IntakeInv'
  <2>1. OrderRequest(c, n).quoted = carts[OrderRequest(c, n).cart].items
    BY DEF OrderRequest
  <2> QED BY <1>1, <1>2, <1>3, <1>5, <2>1, CreateInv DEF PlaceOrder
<1>6. ASSUME NEW r \in open, OrderRefused(r) PROVE IntakeInv'
  BY <1>1, <1>2, <1>6, IdleInv DEF OrderRefused
<1>7. ASSUME NEW r \in open, NEW o \in Orders, OrderResumes(o, r) PROVE IntakeInv'
  BY <1>1, <1>2, <1>7, CreateInv DEF OrderResumes
<1> QED BY <1>4, <1>5, <1>6, <1>7 DEF PlaceStep

(* A failing order gives its cart back, which leaves the carts of the other *)
(* pending orders alone: they are inactive, and not this one.               *)
LEMMA FailureInv ==
  ASSUME IntakeInv, NEW o \in Orders, SomeFailure(o)
  PROVE  IntakeInv'
<1> DEFINE c == orders[o].cart
<1>1. PICK rows \in Units :
        /\ IsPending(o) /\ FailOrder(o, rows)
        /\ queue' \subseteq Orders /\ faults' \in Nat
        /\ UNCHANGED <<stock, points, open, late>>
  BY DEF SomeFailure
<1>2. c \in Carts /\ carts[c].used
  BY <1>1 DEF IntakeInv, CartsExist, IsPending
<1>3. carts' = RestoreCart(c)
  BY <1>1 DEF FailOrder
<1>4. /\ carts' \in [Carts -> CartRows]
      /\ \A d \in Carts : carts'[d].used = carts[d].used
      /\ \A d \in Carts : d # c /\ carts'[d].active => carts[d].active
      /\ \A d \in Carts : d # c /\ ~carts[d].active =>
           ~carts'[d].active /\ carts'[d].items = carts[d].items
  BY <1>2, <1>3, RestoreCartEffect DEF IntakeInv
<1>5. orders \in [Orders -> OrderRows]
  BY DEF IntakeInv, TypeOK
<1>6. orders' = [orders EXCEPT ![o] = [@ EXCEPT !.status = "failed", !.items = rows]]
  BY <1>1, <1>5 DEF FailOrder
<1>7. /\ orders' \in [Orders -> OrderRows]
      /\ orders'[o].status = "failed" /\ orders'[o].cart = c
      /\ \A q \in Orders : q # o => orders'[q] = orders[q]
  BY <1>5, <1>6 DEF OrderRows, OrderStatuses
<1>8. \A q \in Orders : IsPending(q)' =>
        /\ q # o /\ IsPending(q) /\ orders'[q] = orders[q]
        /\ orders[q].cart \in Carts /\ orders[q].cart # c /\ ~carts[orders[q].cart].active
  BY <1>1, <1>7 DEF IntakeInv, CartOrderedOnce, IsPending
<1>9. TypeOK'
  BY <1>1, <1>4, <1>7 DEF IntakeInv, TypeOK
<1>10. CartsExist'
  BY <1>2, <1>4, <1>7 DEF IntakeInv, CartsExist
<1>11. PendingHoldsNothing'
  BY <1>8 DEF IntakeInv, PendingHoldsNothing, IsPending
<1>12. CartOrderedOnce'
  BY <1>4, <1>8 DEF IntakeInv, CartOrderedOnce, IsPending
<1>13. CartIsAsQuoted'
  BY <1>1, <1>4, <1>8 DEF IntakeInv, CartIsAsQuoted, IsPending
<1>14. QuotedIsOrdered'
  BY <1>1, <1>7 DEF IntakeInv, QuotedIsOrdered, HoldsStock
<1> QED BY <1>9, <1>10, <1>11, <1>12, <1>13, <1>14 DEF IntakeInv

(* A confirmed order takes what its cart holds, which is what was quoted,   *)
(* and empties that cart only.                                              *)
LEMMA ConfirmInv ==
  ASSUME IntakeInv, NEW o \in Orders, ConfirmOrder(o)
  PROVE  IntakeInv'
<1> DEFINE c == orders[o].cart
<1>1. /\ carts \in [Carts -> CartRows] /\ orders \in [Orders -> OrderRows]
      /\ stock \in Units /\ points \in [Customers -> Nat]
      /\ orders[o].pts \in Nat
  BY DEF IntakeInv, TypeOK, OrderRows
<1>2. IsPending(o)
  BY DEF ConfirmOrder
<1>3. /\ c \in Carts /\ carts[c].used /\ ~carts[c].active
      /\ Wanted(o) \in Units /\ Buyer(o) \in Customers
  BY <1>2, PendingCart DEF IntakeInv, CartsExist, CartOrderedOnce, IsPending
<1>4. queue' \subseteq Orders /\ faults' \in Nat
  BY DeliverType DEF ConfirmOrder, IntakeInv
<1>5. stock' \in Units
  <2>1. \A p \in Products : stock[p] - Wanted(o)[p] \in Nat
    BY <1>1, <1>3 DEF ConfirmOrder, Short, Units
  <2> QED BY <2>1 DEF ConfirmOrder, Units
<1>6. points' \in [Customers -> Nat]
  BY <1>1, <1>3 DEF ConfirmOrder
<1>7. orders' = [orders EXCEPT ![o] = [@ EXCEPT !.status = "confirmed", !.items = Wanted(o),
                                               !.spent = orders[o].pts]]
  BY <1>1 DEF ConfirmOrder
<1>8. /\ orders' \in [Orders -> OrderRows]
      /\ orders'[o].status = "confirmed" /\ orders'[o].cart = c
      /\ orders'[o].items = carts[c].items /\ orders'[o].quoted = orders[o].quoted
      /\ \A q \in Orders : q # o => orders'[q] = orders[q]
  BY <1>1, <1>3, <1>7 DEF OrderRows, OrderStatuses, Wanted
<1>9. carts' = [carts EXCEPT ![c] = [@ EXCEPT !.items = Nothing]]
  BY DEF ConfirmOrder
<1>10. /\ carts' \in [Carts -> CartRows]
       /\ \A d \in Carts : /\ carts'[d].used = carts[d].used
                           /\ carts'[d].active = carts[d].active
                           /\ d # c => carts'[d].items = carts[d].items
  BY <1>1, <1>3, <1>9, NothingType DEF CartRows
<1>11. \A q \in Orders : IsPending(q)' =>
         /\ q # o /\ IsPending(q) /\ orders'[q] = orders[q]
         /\ orders[q].cart \in Carts /\ orders[q].cart # c /\ ~carts[orders[q].cart].active
  BY <1>2, <1>8 DEF IntakeInv, CartOrderedOnce, IsPending
<1>12. UNCHANGED <<open, late>>
  BY DEF ConfirmOrder
<1>13. TypeOK'
  BY <1>4, <1>5, <1>6, <1>8, <1>10, <1>12 DEF IntakeInv, TypeOK
<1>14. CartsExist'
  BY <1>3, <1>8, <1>10 DEF IntakeInv, CartsExist
<1>15. PendingHoldsNothing'
  BY <1>11 DEF IntakeInv, PendingHoldsNothing, IsPending
<1>16. CartOrderedOnce'
  BY <1>10, <1>11 DEF IntakeInv, CartOrderedOnce, IsPending
<1>17. CartIsAsQuoted'
  BY <1>10, <1>11, <1>12 DEF IntakeInv, CartIsAsQuoted, IsPending
<1>18. QuotedIsOrdered'
  BY <1>2, <1>8, <1>12 DEF IntakeInv, CartIsAsQuoted, QuotedIsOrdered, HoldsStock
<1> QED BY <1>13, <1>14, <1>15, <1>16, <1>17, <1>18 DEF IntakeInv

(* An order leaves its row behind when it is paid or closed; no cart        *)
(* becomes active, and none changes its items.                              *)
LEMMA OrderEndsInv ==
  ASSUME IntakeInv, NEW o \in Orders, NEW status \in OrderStatuses \ {"none", "pending"},
         orders[o].status # "none",
         status = "paid" => orders[o].status = "confirmed",
         status # "confirmed",
         orders' = [orders EXCEPT ![o].status = status],
         stock' \in Units, points' \in [Customers -> Nat],
         carts' \in [Carts -> CartRows],
         \A c \in Carts : /\ carts'[c].used = carts[c].used
                          /\ carts'[c].items = carts[c].items
                          /\ carts'[c].active => carts[c].active,
         UNCHANGED <<queue, open, faults, late>>
  PROVE  IntakeInv'
<1>1. orders \in [Orders -> OrderRows]
  BY DEF IntakeInv, TypeOK
<1>2. /\ orders' \in [Orders -> OrderRows]
      /\ orders'[o].status = status /\ orders'[o].cart = orders[o].cart
      /\ orders'[o].items = orders[o].items /\ orders'[o].quoted = orders[o].quoted
      /\ \A q \in Orders : q # o => orders'[q] = orders[q]
  <2>1. orders' = [orders EXCEPT ![o] = [@ EXCEPT !.status = status]]
    OBVIOUS
  <2> QED BY <1>1, <2>1 DEF OrderRows
<1>3. \A q \in Orders : IsPending(q)' => IsPending(q) /\ orders'[q] = orders[q]
  BY <1>2 DEF IsPending
<1>4. TypeOK'
  BY <1>2 DEF IntakeInv, TypeOK
<1>5. CartsExist'
  BY <1>2 DEF IntakeInv, CartsExist
<1>6. PendingHoldsNothing'
  BY <1>3 DEF IntakeInv, PendingHoldsNothing
<1>7. CartOrderedOnce'
  BY <1>3 DEF IntakeInv, CartOrderedOnce
<1>8. CartIsAsQuoted'
  BY <1>3 DEF IntakeInv, CartIsAsQuoted, CartOrderedOnce
<1>9. QuotedIsOrdered'
  BY <1>2 DEF IntakeInv, QuotedIsOrdered, HoldsStock
<1> QED BY <1>4, <1>5, <1>6, <1>7, <1>8, <1>9 DEF IntakeInv

(* A closed order adds what it holds to the stock and to the balance. *)
LEMMA CloseInv ==
  ASSUME IntakeInv, NEW o \in Orders, SomeClose(o)
  PROVE  IntakeInv'
<1>1. PICK status \in {"canceled", "payment_failed"} :
        orders[o].status \in {"pending", "confirmed", "paid"} /\ CloseOrder(o, status)
  BY DEF SomeClose
<1>2. /\ stock \in Units /\ points \in [Customers -> Nat] /\ carts \in [Carts -> CartRows]
      /\ orders[o].items \in Units /\ orders[o].spent \in Nat
  BY DEF IntakeInv, TypeOK, OrderRows
<1>3. Buyer(o) \in Customers
  BY <1>1, PendingCart DEF IntakeInv
<1>4. stock' \in Units
  BY <1>1, <1>2 DEF CloseOrder, Units
<1>5. points' \in [Customers -> Nat]
  BY <1>1, <1>2, <1>3 DEF CloseOrder
<1>6. status \in OrderStatuses \ {"none", "pending"}
  BY DEF OrderStatuses
<1> QED BY <1>1, <1>2, <1>4, <1>5, <1>6, OrderEndsInv DEF CloseOrder

(* Paying takes the customer's active cart away. *)
LEMMA PayInv ==
  ASSUME IntakeInv, NEW o \in Orders, PayOrder(o)
  PROVE  IntakeInv'
<1>1. /\ stock \in Units /\ points \in [Customers -> Nat] /\ carts \in [Carts -> CartRows]
  BY DEF IntakeInv, TypeOK
<1>2. carts' \in [Carts -> CartRows]
  BY <1>1 DEF PayOrder, CartRows
<1>3. \A c \in Carts : /\ carts'[c].used = carts[c].used
                       /\ carts'[c].items = carts[c].items
                       /\ carts'[c].active => carts[c].active
  BY <1>1 DEF PayOrder, CartRows
<1>4. "paid" \in OrderStatuses \ {"none", "pending"}
  BY DEF OrderStatuses
<1> QED BY <1>1, <1>2, <1>3, <1>4, OrderEndsInv DEF PayOrder

(* Every step keeps the invariant. *)
LEMMA NextInv == IntakeInv /\ [Next]_vars => IntakeInv'
<1> SUFFICES ASSUME IntakeInv, [Next]_vars PROVE IntakeInv'
  OBVIOUS
<1>1. TypeOK /\ CartsExist /\ queue \subseteq Orders /\ faults \in Nat
      /\ open \subseteq Requests /\ (late = {} => open = {})
  BY DEF IntakeInv, TypeOK, CartIsAsQuoted
<1>2. CASE CartStep
  BY <1>1, <1>2, CartSteps, EditInv
<1>3. CASE PlaceStep
  BY <1>3, PlaceInv
<1>4. ASSUME NEW o \in Orders, TaskStep(o) PROVE IntakeInv'
  <2>1. CASE SomeMessage
    BY <1>1, <2>1, IdleInv DEF SomeMessage
  <2> QED BY <1>1, <1>4, <2>1, TaskSteps, FailureInv, ConfirmInv
<1>5. ASSUME NEW o \in Orders, EndStep(o) PROVE IntakeInv'
  BY <1>5, EndSteps, CloseInv, PayInv
<1>6. CASE UNCHANGED vars
  BY <1>1, <1>6, IdleInv DEF vars
<1> QED BY <1>2, <1>3, <1>4, <1>5, <1>6 DEF Next

(* The conjunction above holds in every reachable state. *)
THEOREM IntakeInvariant == Spec => []IntakeInv
  BY InitInv, NextInv, PTL DEF Spec

-----------------------------------------------------------------------------

(* Stock and balances never go negative, however many orders, workers and   *)
(* overtaken requests there are (PositiveIntegerField).                     *)
THEOREM IntakeTypes == Spec => []TypeOK
<1>1. IntakeInv => TypeOK
  BY DEF IntakeInv
<1> QED BY <1>1, IntakeInvariant, PTL

(* Two clicks or a republished message never make two orders out of a cart: *)
(* the check under the cart lock in create_order_hybrid is enough.          *)
THEOREM OrderedOnceTheorem == Spec => []CartOrderedOnce
<1>1. IntakeInv => CartOrderedOnce
  BY DEF IntakeInv
<1> QED BY <1>1, IntakeInvariant, PTL

(* The task reserves what create_order_hybrid computed the amount for, if   *)
(* no cart request is overtaken by an order.                                *)
THEOREM QuotedTheorem == Spec => []QuotedIsOrdered
<1>1. IntakeInv => QuotedIsOrdered
  BY DEF IntakeInv
<1> QED BY <1>1, IntakeInvariant, PTL

(* What _restore_cart does for the customer: all the cart held is in the    *)
(* active cart, unless the customer has chosen another quantity since.      *)
LEMMA RestoreCartGivesBack ==
  ASSUME TypeOK, NEW c \in Carts
  PROVE  \E d \in Carts :
           /\ Owner[d] = Owner[c] /\ RestoreCart(c)[d].active
           /\ \A p \in Products : carts[c].items[p] > 0 =>
                RestoreCart(c)[d].items[p] =
                  (IF carts[d].items[p] > 0 THEN carts[d].items[p] ELSE carts[c].items[p])
<1> DEFINE newer == ActiveCarts(Owner[c]) \ {c}
           n == CHOOSE d \in newer : TRUE
           moved == [p \in Products |-> IF carts[n].items[p] = 0 THEN carts[c].items[p]
                                        ELSE carts[n].items[p]]
           kept == [p \in Products |-> IF carts[n].items[p] = 0 THEN 0 ELSE carts[c].items[p]]
<1>1. carts \in [Carts -> CartRows]
  BY DEF TypeOK
<1>2. CASE newer = {}
  <2>1. RestoreCart(c) = [carts EXCEPT ![c] = [@ EXCEPT !.active = TRUE]]
    BY <1>2 DEF RestoreCart
  <2>2. RestoreCart(c)[c].active /\ RestoreCart(c)[c].items = carts[c].items
    BY <1>1, <2>1 DEF CartRows
  <2> QED BY <2>2
<1>3. CASE newer # {}
  <2>1. n \in Carts /\ n # c /\ carts[n].active /\ Owner[n] = Owner[c]
    BY <1>3 DEF ActiveCarts
  <2>2. RestoreCart(c) = [[carts EXCEPT ![n] = [@ EXCEPT !.items = moved]]
                            EXCEPT ![c] = [@ EXCEPT !.items = kept]]
    BY <1>1, <1>3, <2>1 DEF RestoreCart
  <2>3. RestoreCart(c)[n].active /\ RestoreCart(c)[n].items = moved
    <3> HIDE DEF moved, kept, n
    <3> QED BY <1>1, <2>1, <2>2 DEF CartRows
  <2>4. \A p \in Products : carts[n].items[p] \in Nat
    BY <1>1, <2>1 DEF CartRows, Units
  <2>5. \A p \in Products : moved[p] =
          (IF carts[n].items[p] > 0 THEN carts[n].items[p] ELSE carts[c].items[p])
    BY <2>4
  <2> QED BY <2>1, <2>3, <2>5
<1> QED BY <1>2, <1>3

(* process_order_heavy_tasks and republish_stalled_orders give the cart of  *)
(* every order they fail back to the customer.                              *)
THEOREM GivenBackTheorem == Spec => FailedGivesCartBack
<1> DEFINE Fails(o) == IsPending(o) /\ orders'[o].status = "failed"
           GivenBack(o) == \E c \in Carts :
             /\ Owner[c] = Buyer(o) /\ carts'[c].active
             /\ \A p \in Products : Wanted(o)[p] > 0 =>
                  carts'[c].items[p] =
                    (IF carts[c].items[p] > 0 THEN carts[c].items[p] ELSE Wanted(o)[p])
<1>1. ASSUME IntakeInv, Next, NEW o \in Orders, Fails(o) PROVE GivenBack(o)
  <2>1. TypeOK /\ CartsExist /\ orders \in [Orders -> OrderRows] /\ orders[o].status = "pending"
    BY <1>1 DEF IntakeInv, TypeOK, IsPending
  <2>2. orders' # orders
    BY <1>1, <2>1
  <2>3. ~CartStep
    BY <2>1, <2>2, CartSteps DEF SomeEdit, EditStalls, Edit
  <2>4. ~PlaceStep
    <3>1. ASSUME NEW q \in Orders, NEW r, CreateOrder(q, r) PROVE FALSE
      BY <1>1, <2>1, <3>1 DEF CreateOrder
    <3> QED BY <2>2, <3>1 DEF PlaceStep, PlaceOrder, OrderStalls, OrderResumes, OrderRefused
  <2>5. ASSUME NEW q \in Orders, EndStep(q) PROVE FALSE
    <3>1. CASE PayOrder(q)
      BY <1>1, <2>1, <3>1 DEF PayOrder, OrderRows
    <3>2. CASE SomeClose(q)
      BY <1>1, <2>1, <3>2 DEF SomeClose, CloseOrder, OrderRows
    <3> QED BY <2>5, <3>1, <3>2, EndSteps
  <2>6. PICK q \in Orders : TaskStep(q)
    BY <1>1, <2>3, <2>4, <2>5 DEF Next
  <2>7. SomeFailure(q)
    <3>1. ~SomeMessage
      BY <2>2 DEF SomeMessage
    <3>2. ~ConfirmOrder(q)
      BY <1>1, <2>1 DEF ConfirmOrder, OrderRows
    <3> QED BY <2>1, <2>6, <3>1, <3>2, TaskSteps
  <2>8. q = o /\ carts' = RestoreCart(orders[q].cart)
    BY <1>1, <2>1, <2>7 DEF SomeFailure, FailOrder
  <2>9. orders[o].cart \in Carts
    BY <2>1, PendingCart
  <2> QED BY <2>1, <2>8, <2>9, RestoreCartGivesBack DEF Buyer, Wanted
<1>2. ASSUME IntakeInv, [Next]_vars
      PROVE  [\A o \in Orders : Fails(o) => GivenBack(o)]_vars
  BY <1>1, <1>2
<1> QED BY <1>2, IntakeInvariant, PTL DEF Spec, FailedGivesCartBack

-----------------------------------------------------------------------------
(* Units and points are conserved. *)

Conserved == StockConserved /\ PointsConserved

(* What an order holds is a whole number of units and of points. *)
LEMMA HeldAreCounts ==
  ASSUME TypeOK
  PROVE  /\ \A p \in Products : Counts(UnitsHeld(p), Orders)
         /\ \A u \in Customers : Counts(PointsHeld(u), Orders)
<1>1. ASSUME NEW o \in Orders
      PROVE  orders[o].items \in Units /\ orders[o].spent \in Nat
  BY DEF TypeOK, OrderRows
<1>2. ASSUME NEW p \in Products PROVE Counts(UnitsHeld(p), Orders)
  BY <1>1 DEF Counts, UnitsHeld, Units
<1>3. ASSUME NEW u \in Customers PROVE Counts(PointsHeld(u), Orders)
  BY <1>1 DEF Counts, PointsHeld
<1> QED BY <1>2, <1>3

(* One order takes units and points, or gives them back: what leaves or     *)
(* enters the shelf and the balance is what it holds more or less.          *)
LEMMA OneOrderMoves ==
  ASSUME TypeOK, TypeOK', Conserved, NEW o \in Orders,
         \A q \in Orders \ {o} : orders'[q] = orders[q],
         \A p \in Products : stock'[p] = stock[p] + UnitsHeld(p)[o] - UnitsHeld(p)'[o],
         \A u \in Customers : points'[u] = points[u] + PointsHeld(u)[o] - PointsHeld(u)'[o]
  PROVE  Conserved'
<1>1. IsFiniteSet(Orders)
  BY IntakeAssumption
<1>2. ASSUME NEW p \in Products
      PROVE  stock'[p] + SumOver(UnitsHeld(p)', Orders) = InitialStock[p]
  <2>1. Counts(UnitsHeld(p), Orders) /\ UnitsHeld(p)[o] \in Nat
    BY HeldAreCounts DEF Counts
  <2>2. UnitsHeld(p)'[o] \in Nat
    BY DEF UnitsHeld, TypeOK, OrderRows, Units
  <2>3. \A q \in Orders \ {o} : UnitsHeld(p)'[q] = UnitsHeld(p)[q]
    BY DEF UnitsHeld, HoldsStock
  <2>4. SumOver(UnitsHeld(p)', Orders) =
          SumOver(UnitsHeld(p), Orders) - UnitsHeld(p)[o] + UnitsHeld(p)'[o]
    BY <1>1, <2>1, <2>2, <2>3, SumUpdate
  <2>5. SumOver(UnitsHeld(p), Orders) \in Nat /\ stock[p] \in Nat
    BY <1>1, <2>1, SumIsNat DEF TypeOK, Units
  <2>6. stock[p] + SumOver(UnitsHeld(p), Orders) = InitialStock[p]
    BY DEF Conserved, StockConserved
  <2>7. stock'[p] = stock[p] + UnitsHeld(p)[o] - UnitsHeld(p)'[o]
    OBVIOUS
  <2> QED BY <2>1, <2>2, <2>4, <2>5, <2>6, <2>7
<1>3. ASSUME NEW u \in Customers
      PROVE  points'[u] + SumOver(PointsHeld(u)', Orders) = InitialPoints[u]
  <2>1. Counts(PointsHeld(u), Orders) /\ PointsHeld(u)[o] \in Nat
    BY HeldAreCounts DEF Counts
  <2>2. PointsHeld(u)'[o] \in Nat
    BY DEF PointsHeld, TypeOK, OrderRows
  <2>3. \A q \in Orders \ {o} : PointsHeld(u)'[q] = PointsHeld(u)[q]
    BY DEF PointsHeld, HoldsStock, Buyer
  <2>4. SumOver(PointsHeld(u)', Orders) =
          SumOver(PointsHeld(u), Orders) - PointsHeld(u)[o] + PointsHeld(u)'[o]
    BY <1>1, <2>1, <2>2, <2>3, SumUpdate
  <2>5. SumOver(PointsHeld(u), Orders) \in Nat /\ points[u] \in Nat
    BY <1>1, <2>1, SumIsNat DEF TypeOK
  <2>6. points[u] + SumOver(PointsHeld(u), Orders) = InitialPoints[u]
    BY DEF Conserved, PointsConserved
  <2>7. points'[u] = points[u] + PointsHeld(u)[o] - PointsHeld(u)'[o]
    OBVIOUS
  <2> QED BY <2>1, <2>2, <2>4, <2>5, <2>6, <2>7
<1> QED BY <1>2, <1>3 DEF Conserved, StockConserved, PointsConserved

(* Nothing moves on the shelf, in a balance or between orders. *)
LEMMA NothingMoves ==
  ASSUME Conserved, UNCHANGED <<stock, points, orders>>
  PROVE  Conserved'
  BY DEF Conserved, StockConserved, PointsConserved, UnitsHeld, PointsHeld, HoldsStock, Buyer

(* An order that holds nothing before a step and after it moves nothing. *)
LEMMA HoldsNothingStill ==
  ASSUME TypeOK, TypeOK', Conserved, NEW o \in Orders, UNCHANGED <<stock, points>>,
         \A q \in Orders \ {o} : orders'[q] = orders[q],
         ~HoldsStock(o), orders'[o].status \notin {"confirmed", "paid"}
  PROVE  Conserved'
<1>1. ~HoldsStock(o)'
  BY DEF HoldsStock
<1>2. \A p \in Products : UnitsHeld(p)[o] = 0 /\ UnitsHeld(p)'[o] = 0
  BY <1>1 DEF UnitsHeld
<1>3. \A u \in Customers : PointsHeld(u)[o] = 0 /\ PointsHeld(u)'[o] = 0
  BY <1>1 DEF PointsHeld
<1>4. /\ \A p \in Products : stock[p] \in Nat /\ stock'[p] = stock[p]
      /\ \A u \in Customers : points[u] \in Nat /\ points'[u] = points[u]
  BY DEF TypeOK, Units
<1> QED BY <1>2, <1>3, <1>4, OneOrderMoves

LEMMA InitConserves == Init => Conserved
<1> SUFFICES ASSUME Init PROVE Conserved
  OBVIOUS
<1>1. \A o \in Orders : ~HoldsStock(o)
  BY DEF Init, NoOrder, HoldsStock
<1>2. \A p \in Products : SumOver(UnitsHeld(p), Orders) = 0
  BY <1>1, SumOfZeros DEF UnitsHeld
<1>3. \A u \in Customers : SumOver(PointsHeld(u), Orders) = 0
  BY <1>1, SumOfZeros DEF PointsHeld
<1> QED BY <1>2, <1>3, IntakeAssumption
        DEF Init, Conserved, StockConserved, PointsConserved

LEMMA CreateConserves ==
  ASSUME IntakeInv, IntakeInv', Conserved, NEW o \in Orders, NEW r, CreateOrder(o, r)
  PROVE  Conserved'
<1>1. TypeOK /\ TypeOK' /\ orders \in [Orders -> OrderRows]
  BY DEF IntakeInv, TypeOK
<1>2. /\ orders[o].status = "none" /\ orders'[o].status = "pending"
      /\ \A q \in Orders \ {o} : orders'[q] = orders[q]
      /\ UNCHANGED <<stock, points>>
  BY <1>1 DEF CreateOrder
<1> QED BY <1>1, <1>2, HoldsNothingStill DEF HoldsStock

(* A failing order took units and gave them back in the same transaction. *)
LEMMA FailureConserves ==
  ASSUME IntakeInv, IntakeInv', Conserved, NEW o \in Orders, SomeFailure(o)
  PROVE  Conserved'
<1>1. TypeOK /\ TypeOK' /\ orders \in [Orders -> OrderRows]
  BY DEF IntakeInv, TypeOK
<1>2. /\ orders[o].status = "pending" /\ orders'[o].status = "failed"
      /\ \A q \in Orders \ {o} : orders'[q] = orders[q]
      /\ UNCHANGED <<stock, points>>
  BY <1>1 DEF SomeFailure, FailOrder, IsPending
<1> QED BY <1>1, <1>2, HoldsNothingStill DEF HoldsStock

LEMMA ConfirmConserves ==
  ASSUME IntakeInv, IntakeInv', Conserved, NEW o \in Orders, ConfirmOrder(o)
  PROVE  Conserved'
<1>1. /\ TypeOK /\ TypeOK' /\ orders \in [Orders -> OrderRows] /\ stock \in Units
      /\ points \in [Customers -> Nat] /\ orders[o].status = "pending"
  BY DEF IntakeInv, TypeOK, ConfirmOrder, IsPending
<1>2. Wanted(o) \in Units /\ Buyer(o) \in Customers /\ orders[o].pts \in Nat
  BY <1>1, PendingCart DEF IntakeInv, OrderRows
<1>3. /\ orders'[o].status = "confirmed" /\ orders'[o].items = Wanted(o)
      /\ orders'[o].spent = orders[o].pts /\ orders'[o].cart = orders[o].cart
      /\ \A q \in Orders \ {o} : orders'[q] = orders[q]
      /\ stock' = [p \in Products |-> stock[p] - Wanted(o)[p]]
      /\ points' = [points EXCEPT ![Buyer(o)] = @ - orders[o].pts]
  BY <1>1 DEF ConfirmOrder, OrderRows
<1>4. ~HoldsStock(o) /\ HoldsStock(o)' /\ Buyer(o)' = Buyer(o)
  BY <1>1, <1>3 DEF HoldsStock, Buyer
<1>5. ASSUME NEW p \in Products
      PROVE  stock'[p] = stock[p] + UnitsHeld(p)[o] - UnitsHeld(p)'[o]
  <2>1. UnitsHeld(p)[o] = 0 /\ UnitsHeld(p)'[o] = Wanted(o)[p]
    BY <1>3, <1>4 DEF UnitsHeld
  <2> QED BY <1>1, <1>2, <1>3, <2>1 DEF Units
<1>6. ASSUME NEW u \in Customers
      PROVE  points'[u] = points[u] + PointsHeld(u)[o] - PointsHeld(u)'[o]
  <2>1. PointsHeld(u)[o] = 0 /\ PointsHeld(u)'[o] = IF Buyer(o) = u THEN orders[o].pts ELSE 0
    BY <1>3, <1>4 DEF PointsHeld
  <2> QED BY <1>1, <1>2, <1>3, <2>1
<1> QED BY <1>1, <1>3, <1>5, <1>6, OneOrderMoves

(* Whoever closes an order gives back what it holds, and no more: a pending *)
(* one holds nothing.                                                       *)
LEMMA CloseConserves ==
  ASSUME IntakeInv, IntakeInv', Conserved, NEW o \in Orders, SomeClose(o)
  PROVE  Conserved'
<1>1. PICK status \in {"canceled", "payment_failed"} :
        orders[o].status \in {"pending", "confirmed", "paid"} /\ CloseOrder(o, status)
  BY DEF SomeClose
<1>2. /\ TypeOK /\ TypeOK' /\ orders \in [Orders -> OrderRows] /\ stock \in Units
      /\ points \in [Customers -> Nat]
  BY DEF IntakeInv, TypeOK
<1>3. /\ orders'[o].status = status
      /\ \A q \in Orders \ {o} : orders'[q] = orders[q]
      /\ stock' = [p \in Products |-> stock[p] + orders[o].items[p]]
      /\ points' = [points EXCEPT ![Buyer(o)] = @ + orders[o].spent]
  BY <1>1, <1>2 DEF CloseOrder, OrderRows
<1>4. ~HoldsStock(o)'
  BY <1>3 DEF HoldsStock
<1>5. HoldsStock(o) \/ (orders[o].items = Nothing /\ orders[o].spent = 0)
  BY <1>1 DEF HoldsStock, IntakeInv, PendingHoldsNothing, IsPending
<1>6. orders[o].items \in Units /\ orders[o].spent \in Nat
  BY <1>2 DEF OrderRows
<1>7. ASSUME NEW p \in Products
      PROVE  stock'[p] = stock[p] + UnitsHeld(p)[o] - UnitsHeld(p)'[o]
  <2>1. UnitsHeld(p)[o] = orders[o].items[p] /\ UnitsHeld(p)'[o] = 0
    BY <1>4, <1>5 DEF UnitsHeld, Nothing
  <2> QED BY <1>2, <1>3, <1>6, <2>1 DEF Units
<1>8. ASSUME NEW u \in Customers
      PROVE  points'[u] = points[u] + PointsHeld(u)[o] - PointsHeld(u)'[o]
  <2>1. /\ PointsHeld(u)[o] = IF Buyer(o) = u THEN orders[o].spent ELSE 0
        /\ PointsHeld(u)'[o] = 0
    BY <1>4, <1>5 DEF PointsHeld
  <2> QED BY <1>2, <1>3, <1>6, <2>1
<1> QED BY <1>2, <1>3, <1>7, <1>8, OneOrderMoves

LEMMA PayConserves ==
  ASSUME IntakeInv, IntakeInv', Conserved, NEW o \in Orders, PayOrder(o)
  PROVE  Conserved'
<1>1. /\ TypeOK /\ TypeOK' /\ orders \in [Orders -> OrderRows] /\ stock \in Units
      /\ points \in [Customers -> Nat]
  BY DEF IntakeInv, TypeOK
<1>2. /\ orders[o].status = "confirmed" /\ orders'[o].status = "paid"
      /\ orders'[o].items = orders[o].items /\ orders'[o].spent = orders[o].spent
      /\ orders'[o].cart = orders[o].cart
      /\ \A q \in Orders \ {o} : orders'[q] = orders[q]
      /\ stock' = stock /\ points' = points
  BY <1>1 DEF PayOrder, OrderRows
<1>3. HoldsStock(o) /\ HoldsStock(o)' /\ Buyer(o)' = Buyer(o)
  BY <1>2 DEF HoldsStock, Buyer
<1>4. ASSUME NEW p \in Products
      PROVE  stock'[p] = stock[p] + UnitsHeld(p)[o] - UnitsHeld(p)'[o]
  <2>1. UnitsHeld(p)[o] = UnitsHeld(p)'[o] /\ UnitsHeld(p)[o] \in Nat
    BY <1>1, <1>2, <1>3 DEF UnitsHeld, OrderRows, Units
  <2> QED BY <1>1, <1>2, <2>1 DEF Units
<1>5. ASSUME NEW u \in Customers
      PROVE  points'[u] = points[u] + PointsHeld(u)[o] - PointsHeld(u)'[o]
  <2>1. PointsHeld(u)[o] = PointsHeld(u)'[o] /\ PointsHeld(u)[o] \in Nat
    BY <1>1, <1>2, <1>3 DEF PointsHeld, OrderRows
  <2> QED BY <1>1, <1>2, <2>1
<1> QED BY <1>1, <1>2, <1>4, <1>5, OneOrderMoves

LEMMA NextConserves == IntakeInv /\ IntakeInv' /\ Conserved /\ [Next]_vars => Conserved'
<1> SUFFICES ASSUME IntakeInv, IntakeInv', Conserved, [Next]_vars PROVE Conserved'
  OBVIOUS
<1>1. TypeOK /\ CartsExist
  BY DEF IntakeInv
<1>2. CASE CartStep
  <2>1. SomeEdit
    BY <1>1, <1>2, CartSteps
  <2> QED BY <2>1, NothingMoves DEF SomeEdit, EditStalls, Edit
<1>3. CASE PlaceStep
  BY <1>3, NothingMoves, CreateConserves
     DEF PlaceStep, PlaceOrder, OrderStalls, OrderResumes, OrderRefused
<1>4. ASSUME NEW o \in Orders, TaskStep(o) PROVE Conserved'
  <2>1. CASE SomeMessage
    BY <2>1, NothingMoves DEF SomeMessage
  <2> QED BY <1>1, <1>4, <2>1, TaskSteps, FailureConserves, ConfirmConserves
<1>5. ASSUME NEW o \in Orders, EndStep(o) PROVE Conserved'
  BY <1>5, EndSteps, CloseConserves, PayConserves
<1>6. CASE UNCHANGED vars
  BY <1>6, NothingMoves DEF vars
<1> QED BY <1>2, <1>3, <1>4, <1>5, <1>6 DEF Next

(* No unit is lost or sold twice, for any number of orders: failing, late   *)
(* canceled and expired orders give back exactly what they took.            *)
THEOREM StockTheorem == Spec => []StockConserved
<1>1. Conserved => StockConserved
  BY DEF Conserved
<1> QED BY <1>1, InitConserves, NextConserves, IntakeInvariant, PTL DEF Spec

(* No point is lost or given back twice, for any number of orders.          *)
THEOREM PointsTheorem == Spec => []PointsConserved
<1>1. Conserved => PointsConserved
  BY DEF Conserved
<1> QED BY <1>1, InitConserves, NextConserves, IntakeInvariant, PTL DEF Spec

-----------------------------------------------------------------------------
(* OrderIntake implements StockReservation. *)

Held(o) == IF HoldsStock(o) THEN orders[o].items ELSE Nothing

Phase(o) == IF HoldsStock(o) THEN "held"
            ELSE IF orders[o].status \in {"none", "pending"} THEN "open" ELSE "closed"

(* A step that leaves the shelf alone and moves no order between phases. *)
LEMMA ReservationStutters ==
  ASSUME stock' = stock, \A o \in Orders : Held(o)' = Held(o) /\ Phase(o)' = Phase(o)
  PROVE  UNCHANGED Reservation!vars
  BY DEF Reservation!vars, Held, Phase

(* A step that closes one order and gives back what it held. *)
LEMMA ReservationReleases ==
  ASSUME NEW o \in Orders, Phase(o) # "closed", Phase(o)' = "closed", Held(o)' = Nothing,
         stock' = [p \in Products |-> stock[p] + Held(o)[p]],
         \A q \in Orders : q # o => Held(q)' = Held(q) /\ Phase(q)' = Phase(q)
  PROVE  Reservation!Release(o)
  BY DEF Reservation!Release, Reservation!Nothing, Nothing, Held, Phase

(* A step in which one order takes units that are on the shelf. *)
LEMMA ReservationReserves ==
  ASSUME NEW o \in Orders, Phase(o) = "open", Phase(o)' = "held", stock' \in Units,
         \A p \in Products : stock'[p] <= stock[p],
         Held(o)' = [p \in Products |-> stock[p] - stock'[p]],
         \A q \in Orders : q # o => Held(q)' = Held(q) /\ Phase(q)' = Phase(q)
  PROVE  Reservation!Reserve(o)
  BY DEF Reservation!Reserve, Held, Phase, Units

(* An order that nothing happens to holds what it held. *)
LEMMA OtherOrders ==
  ASSUME NEW q \in Orders, orders'[q] = orders[q]
  PROVE  Held(q)' = Held(q) /\ Phase(q)' = Phase(q)
  BY DEF Held, Phase, HoldsStock

(* The initial database has all units on the shelf. *)
LEMMA InitReserves == Init => Reservation!Init
  BY DEF Init, NoOrder, Reservation!Init, Reservation!Nothing, Nothing, HoldsStock

(* A new order, which is pending, holds nothing. *)
LEMMA CreateReserves ==
  ASSUME IntakeInv, NEW o \in Orders, NEW r \in Requests, CreateOrder(o, r)
  PROVE  UNCHANGED Reservation!vars
<1>1. orders \in [Orders -> OrderRows]
  BY DEF IntakeInv, TypeOK
<1>2. /\ orders[o].status = "none" /\ orders'[o].status = "pending"
      /\ \A q \in Orders : q # o => orders'[q] = orders[q]
      /\ stock' = stock
  BY <1>1 DEF CreateOrder
<1>3. Held(o)' = Held(o) /\ Phase(o)' = Phase(o)
  BY <1>2 DEF Held, Phase, HoldsStock, Nothing
<1> QED BY <1>2, <1>3, OtherOrders, ReservationStutters

(* A failing order is closed without having held anything. *)
LEMMA FailureReserves ==
  ASSUME IntakeInv, NEW o \in Orders, SomeFailure(o)
  PROVE  Reservation!Release(o)
<1>1. orders \in [Orders -> OrderRows] /\ stock \in Units
  BY DEF IntakeInv, TypeOK
<1>2. PICK rows \in Units : IsPending(o) /\ FailOrder(o, rows) /\ UNCHANGED stock
  BY DEF SomeFailure
<1>3. /\ orders[o].status = "pending" /\ orders'[o].status = "failed"
      /\ \A q \in Orders : q # o => orders'[q] = orders[q]
  BY <1>1, <1>2 DEF FailOrder, IsPending
<1>4. /\ Held(o) = Nothing /\ Held(o)' = Nothing
      /\ Phase(o) # "closed" /\ Phase(o)' = "closed"
  BY <1>3 DEF Held, Phase, HoldsStock, Nothing
<1>5. stock' = [p \in Products |-> stock[p] + Held(o)[p]]
  BY <1>1, <1>2, <1>4 DEF Nothing, Units
<1> QED BY <1>3, <1>4, <1>5, OtherOrders, ReservationReleases

(* A confirmed order takes all its lines at once. *)
LEMMA ConfirmReserves ==
  ASSUME IntakeInv, IntakeInv', NEW o \in Orders, ConfirmOrder(o)
  PROVE  Reservation!Reserve(o)
<1>1. /\ orders \in [Orders -> OrderRows] /\ stock \in Units /\ stock' \in Units
  BY DEF IntakeInv, TypeOK
<1>2. orders[o].status = "pending"
  BY DEF ConfirmOrder, IsPending
<1>3. Wanted(o) \in Units
  BY <1>2, PendingCart DEF IntakeInv
<1>4. /\ orders'[o].status = "confirmed" /\ orders'[o].items = Wanted(o)
      /\ \A q \in Orders : q # o => orders'[q] = orders[q]
      /\ stock' = [p \in Products |-> stock[p] - Wanted(o)[p]]
  BY <1>1 DEF ConfirmOrder, OrderRows
<1>5. Phase(o) = "open" /\ Phase(o)' = "held" /\ Held(o)' = Wanted(o)
  BY <1>2, <1>4 DEF Held, Phase, HoldsStock
<1>6. Wanted(o) = [p \in Products |-> stock[p] - stock'[p]]
  BY <1>1, <1>3, <1>4 DEF Units
<1>7. \A p \in Products : stock'[p] <= stock[p]
  BY <1>1, <1>3, <1>4 DEF Units
<1> QED BY <1>1, <1>4, <1>5, <1>6, <1>7, OtherOrders, ReservationReserves

(* A canceled, expired, failed or refunded order gives back what it holds. *)
LEMMA CloseReserves ==
  ASSUME IntakeInv, NEW o \in Orders, SomeClose(o)
  PROVE  Reservation!Release(o)
<1>1. orders \in [Orders -> OrderRows] /\ stock \in Units
  BY DEF IntakeInv, TypeOK
<1>2. PICK status \in {"canceled", "payment_failed"} :
        orders[o].status \in {"pending", "confirmed", "paid"} /\ CloseOrder(o, status)
  BY DEF SomeClose
<1>3. /\ orders'[o].status = status
      /\ \A q \in Orders : q # o => orders'[q] = orders[q]
      /\ stock' = [p \in Products |-> stock[p] + orders[o].items[p]]
  BY <1>1, <1>2 DEF CloseOrder, OrderRows
<1>4. Held(o) = orders[o].items
  BY <1>2 DEF Held, HoldsStock, IntakeInv, PendingHoldsNothing, IsPending
<1>5. Held(o)' = Nothing /\ Phase(o) # "closed" /\ Phase(o)' = "closed"
  BY <1>2, <1>3 DEF Held, Phase, HoldsStock, Nothing
<1> QED BY <1>3, <1>4, <1>5, OtherOrders, ReservationReleases

(* Every step of OrderIntake is a step of StockReservation or a stutter. *)
LEMMA NextReserves ==
  IntakeInv /\ IntakeInv' /\ [Next]_vars => [Reservation!Next]_(Reservation!vars)
<1> SUFFICES ASSUME IntakeInv, IntakeInv', [Next]_vars
             PROVE  [Reservation!Next]_(Reservation!vars)
  OBVIOUS
<1>1. TypeOK /\ CartsExist /\ carts \in [Carts -> CartRows] /\ open \subseteq Requests
  BY DEF IntakeInv, TypeOK
<1>2. ASSUME stock' = stock, orders' = orders PROVE UNCHANGED Reservation!vars
  BY <1>2, OtherOrders, ReservationStutters
<1>3. CASE CartStep
  <2>1. SomeEdit
    BY <1>1, <1>3, CartSteps
  <2> QED BY <1>2, <2>1 DEF SomeEdit, EditStalls, Edit
<1>4. CASE PlaceStep
  <2>1. ASSUME NEW c \in Carts, NEW n \in PointAmounts
        PROVE  /\ OrderRequest(c, n) \in Requests
               /\ OrderStalls(c, n) => UNCHANGED Reservation!vars
    BY <1>1, <1>2, IntakeAssumption DEF OrderRequest, Requests, CartRows, OrderStalls
  <2>2. ASSUME NEW r \in open, OrderRefused(r) PROVE UNCHANGED Reservation!vars
    BY <1>2, <2>2 DEF OrderRefused
  <2> QED BY <1>1, <1>4, <2>1, <2>2, CreateReserves DEF PlaceStep, PlaceOrder, OrderResumes
<1>5. ASSUME NEW o \in Orders, TaskStep(o) PROVE Reservation!Next \/ UNCHANGED Reservation!vars
  <2>1. CASE SomeMessage
    BY <1>2, <2>1 DEF SomeMessage
  <2> QED BY <1>1, <1>5, <2>1, TaskSteps, FailureReserves, ConfirmReserves DEF Reservation!Next
<1>6. ASSUME NEW o \in Orders, EndStep(o) PROVE Reservation!Next \/ UNCHANGED Reservation!vars
  <2>1. CASE PayOrder(o)
    <3>1. orders \in [Orders -> OrderRows]
      BY DEF IntakeInv, TypeOK
    <3>2. /\ orders[o].status = "confirmed" /\ orders'[o].status = "paid"
          /\ orders'[o].items = orders[o].items
          /\ \A q \in Orders : q # o => orders'[q] = orders[q]
          /\ stock' = stock
      BY <2>1, <3>1 DEF PayOrder, OrderRows
    <3>3. Held(o)' = Held(o) /\ Phase(o)' = Phase(o)
      BY <3>2 DEF Held, Phase, HoldsStock
    <3> QED BY <3>2, <3>3, OtherOrders, ReservationStutters
  <2> QED BY <1>6, <2>1, EndSteps, CloseReserves DEF Reservation!Next
<1>7. CASE UNCHANGED vars
  BY <1>2, <1>7 DEF vars
<1> QED BY <1>3, <1>4, <1>5, <1>6, <1>7 DEF Next

(* For every number of customers, carts, orders and products: stock is      *)
(* taken for a whole order at once, and given back at most once, whoever    *)
(* ends the order and however often its message is delivered.               *)
THEOREM ReservationTheorem == Spec => ImplementsReservation
  BY InitReserves, NextReserves, IntakeInvariant, PTL
     DEF Spec, ImplementsReservation, Reservation!Spec

=============================================================================
