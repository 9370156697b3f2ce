# A verification project for the shopping back end

The repository is a Django / Celery shop (`shopping/`, about 33 000 lines
without tests) that takes orders, reserves stock and points in a background
task, lets customers pay through Toss Payments, and repairs what was lost with
periodic sweeps. Its hard part is not any single function but the number of
actors that may touch one order at the same time. This directory models that
part in TLA+, checks it with TLC on small instances and proves its main
properties with TLAPS for every size.

`PROJECT.json` holds the exact correspondence between definitions and source
lines (`map`), the runs, the mutants that show that each property can fail, the
findings, and the list of hazards the properties are aimed at. Paths below are
relative to `src/shopping/` unless they begin with `src/`.

## 1. The system

| Part | State | Operations | Hard because |
|---|---|---|---|
| Cart (`services/cart_service.py`, `models/cart.py`) | `Cart.is_active`, `CartItem.quantity`; unique constraint: one active cart per customer | add, update, remove, clear, bulk add, clean up, merge at login | a request looks the cart up in one transaction and edits it in another |
| Order intake (`services/order_service.py`, `serializers/order_serializers.py`, `tasks/order_tasks.py`) | `Order`, `OrderItem`, `Product.stock`, `User.points`, broker queue `order_processing` | `create_order_hybrid`, `process_order_heavy_tasks`, `_restore_cart`, `republish_stalled_orders` | the row is committed before the message is published; messages are lost or come twice; failing branches commit |
| Payment (`services/payment_service.py`, `tasks/payment_tasks.py`, `views/payment_views.py`) | `Payment.status`, `Order.status`, queue of the confirm chain | request, confirm (chain or synchronous page), fail page, points-only payment, rollback, cancellation | an external call that cannot be rolled back, retries that run out, unlocked reads |
| Toss webhooks (`webhooks/`, `services/toss_webhook_service.py`) | Redis de-duplication keys, `Payment`, `Order` | lookup and dispatch; DONE, CANCELED, WAITING_FOR_DEPOSIT, ABORTED / EXPIRED | late, repeated, out of order, racing with everything above |
| Beat sweeps (`src/myproject/celery.py` 145-185) | none of their own | expire unpaid orders, detect orphans, reconcile stalled payments, republish stalled orders | they act on rows that a slow actor still believes to own |
| Points (`services/point_service.py`, `models/point.py`) | `User.points`, earn rows of `PointHistory` with used amount and expiry | use FIFO, refund LIFO, earn, reclaim, expire, send notices | two ledgers that must agree; two writers without locks |
| Returns (`services/return_service.py`, `serializers/return_serializers.py`) | `Return`, `ReturnItem`, `Payment.canceled_amount` | ask, withdraw, ship, approve, reject, receive, refund, exchange | checks before the write, cumulative rounding, a refund at Toss that cannot be rolled back |
| Accounts, catalogue, mail, admin, chaos switches, recovery prototype | single rows | CRUD, I/O | not part of the order's life |

Components talk through rows of one database (row locks, `select_for_update`),
through Celery messages (at least once, `acks_late`), and with Toss through
HTTP calls and webhooks.

What makes each of them correct: a cart is ordered once; stock and points leave
once and come back at most once; an order that is paid was charged; a charge
that ends on no paid order is given back or reported to a person; a failed
order gives the cart back; no order keeps stock, or stays undecided, for ever;
the balance of points covers the earn rows, and a canceled order does not turn
points that expire into points that do not; partial refunds add up to the order
and Toss and the books agree; no two transactions wait for each other.

## 2. Modules

| Module | What it is |
|---|---|
| `OrderRow` | the database row of one order from `confirmed` on, and every locked transaction on it as a function from row to row |
| `OrderLifecycle` | abstract: what the shop promises about an order's status, stock, points and sales count |
| `PaymentFlow` | the payment part: requests, confirm chain, rollback, webhooks, sweeps, Toss |
| `PaymentInvariant` | the two inductive invariants of `PaymentFlow` |
| `StockReservation` | abstract: stock is taken whole and given back at most once |
| `OrderIntake` | carts, order creation, processing, the republish sweep, and the ends of an order as far as they touch stock, points and carts |
| `Sums` | sums over rows, as sizes of sets, so that they can be proved about |
| `PointLedger` | one customer's balance and earn rows, and everyone who writes them |
| `ReturnFlow` | the returns of one delivered order |
| `RowLocks` | the transactions of the modules above at the grain of their row locks |
| `MCPayment`, `MCIntake`, `MCPoints`, `MCReturns`, `MCLocks` | instances for TLC |
| `OrderRowTheorems`, `PaymentFlowAlways`, `PaymentFlowProofs`, `OrderIntakeProofs`, `SumTheorems`, `PointLedgerProofs`, `ReturnFlowProofs`, `RowLocksProofs` | the proofs |

### PaymentFlow

`db[o]` is the order's row (status, the Payment row's status and id, how often
stock and points are held, how often it is counted as sold, points earned).
`toss[o]` is the payment as Toss holds it; `DEPOSITED` is a virtual account that
was paid into, which Toss reports as `DONE`. `tasks[o]` are Celery messages,
`hooks[o]` notifications Toss has yet to deliver, `dedup[o]` live Redis keys,
`alerts[o]` the `PaymentLog` / `notify_payment_failure` records a person is to
act on, and `open[o]` requests that have read something without a lock and have
not yet written. One locked transaction is one action; a handler that reads
first and locks later is two actions (`RequestStalls` / `RequestResumes`,
`FailViewReads` / `FailViewWrites`, `HandleFailedReads` / `HandleFailedWrites`,
`PointsOnlyStalls` / `PointsOnlyResumes`, `WebhookArrives` and its handler).
Confirm replies (`ConfirmReplies`) include approval whose answer is lost.

The external world is modelled from how the code uses it: Toss deposits,
expires, cancels on its dashboard, reverts a deposit. Messages are lost
(`LoseTask`) up to `MaxFaults` per order.

`Environments` is a set of option sets, one of which is chosen in `Init` and
never changes. An option switches on a behaviour that really exists but that
breaks the stronger properties: the synchronous success page, a confirm call
never answered, a stalled request, a stalled points-only payment, a second
payment window, a reverted deposit, a webhook whose status is stale, a queue
slower than the reconcile sweep, redelivery. Saying explicitly which properties
survive which option is the point of the project. *Calm* environments offer at
most the first two. `slow_queue` and `redeliver` are options because the sweep's
age limit (10 minutes, `src/myproject/settings/base.py` 241) is normally far beyond a chain's
duration.

### OrderIntake

`stock`, `points`, `carts`, `orders` are the rows; a cart or order holds a
function from products to quantities. `queue` holds the orders with a
`process_order_heavy_tasks` message. The task's transaction is one action with
four outcomes: already processed, out of stock (the rows before the first short
product are created, in ascending product id, and their units given back by
hand, because this branch commits), not enough points, confirmed.
`RestoreCart` is `_restore_cart` including the move to a newer active cart, and
`ConstraintHolds` the unique constraint, whose violation rolls the failure back
and leaves the order pending. `quoted` is what the amount was computed for;
`spent` is whether the ledger has a "use" entry.

Options are `edit` (a cart request is overtaken between its lookup and its
transaction) and `order` (an order request between validation and the cart
lock). The ends of an order are one action each here; their own protocol is
`PaymentFlow`. The two modules meet at `confirmed`: `OrderIntake` produces what
`PaymentFlow`'s `Init` starts from.

### PointLedger

`acct` is the customer's balance with the earn rows; the rows are in slots in
the order of their expiry, which is the order of creation because every row
lives 365 days. `TakeFifo` and `GiveBackLifo` are closed forms of the loops in
`_consume_points_fifo` and `refund_used_points`: each row gives what the rows
before it have left open. `MCPoints` writes the loops as the code runs them and
TLC compares the two (`LoopsAgree`). `orders[o].owed[i]` is what an order may
still get back from row `i` (`used_details` less `restored_details`).

`cancel_payment` and `complete_refund` are two actions, `CheckUnwind` up to the
call of Toss and `FinishUnwind` after it; between them the customer's row is
locked (`HoldsUser`) when the code has locked it, and the clock may pass an
expiry date. `ListExpired` and `ExpireOne` are the unlocked list and the locked
work of a batch; several runs (`Batches`) may overlap. The two unlocked writers,
the expiry notice and the full-row save of a profile or password request, read
in one action and write in another; `lapses` records that one of them wrote
back something older than what it overwrote, and the properties say what holds
until then.

`Unbacked` is what no expiry date applies to: the part of the balance that no
earn row backs, and what orders have spent of it and may get back. `GivenTwice`
is what orders were given back beyond what they had used; `used_points` stays on
an order that fails, so a failed order that is paid after all and canceled is
refunded a second time. `ExpiryIsLostInTwoWays` says that `Unbacked` grows with
`GivenTwice`, by a webhook's failed reclaim (by less than the order earned), and
by nothing else.

### ReturnFlow

`row[r]` is a return, `booked[r]` what its refund has written under the return's
id, `toss[r]` what Toss has paid under the return's idempotency key, `calling`
the refund between Toss's answer and its commit. The seller's operations lock the row and
are one action each; the customer's POST, PATCH and DELETE check first and write
later. `RefundRollsBack` is every failure of the database half. `lapses` records
which unlocked request wrote over something newer, and whether the fee was
changed after Toss had refunded.

### RowLocks

A transaction is the sequence of rows it locks, with the strength PostgreSQL
gives the lock. Three transactions of any kind on any order run lock by lock; a
set of transactions that all wait for one another is a ring. The order's status
is left out, so more pairs of transactions meet than in the code: what is shown
free of deadlock is free of it, and a ring is only a possibility. `InItemOrder`
is the sort of the cart's lines by product id, stated by its result; a cart has
one line per product (`models/cart.py` 248), so there is exactly one. The kind
`notice` is one `save()` of the expiry notice, the only writer of earn rows that
takes no lock on the customer's row. Section 6 names the locks left out.

## 3. Runs

| Run | Question |
|---|---|
| `payment` | Calm environment with both options, one retry, two faults, under fairness: do stock, points, sales count and charges follow the order, is `NoCrossPurpose` an invariant, does the flow implement `OrderLifecycle`, is every charge settled or reported, every aborted payment rolled back, does every order end? |
| `payment_options` | Which properties survive each of the nine options? Five are tried one by one; the other four, under which a charge never meets a given-up order (`ChargeStands`), together; and none at all. |
| `silent_charge`, `refund_not_applied` | two statements of the repository's README that the payment code does not keep (below) |
| `intake_safety` | Two orders compete for the last unit of two products, requests overtaken, a message lost or repeated: types, `CartOrderedOnce`, `QuotedIsOrdered`, `FailedGivesCartBack`, `StockReservation` |
| `intake_progress` | With points in play: are units and points conserved, is every pending order decided? |
| `points` | Two orders, a row that expires and two overlapping batches: do balance and rows stay together, is what a refund gives back what was used, does the check before the Toss refund suffice, and how can points lose their expiry date? |
| `points_progress` | Under fairness, with both unlocked writers: does every overdue row expire? |
| `points_expire_twice` | a comment that the expiry notice makes untrue |
| `returns` | Two returns of three pieces, a fee, two browser windows, rollbacks after Toss: shares, books, Toss, stock moved once, and (under fairness) every refund gets booked |
| `returned_twice` | a check of returns that two requests pass at once |
| `locks` | Which of the twenty-one kinds of transactions can deadlock, and who contends for earn rows? |

`CHECK_DEADLOCK FALSE` everywhere: a shop with no requests and no messages is at
rest.

**Bounds.** Actions of `PaymentFlow` change one order only and no action reads
another order, so one order shows all interleavings of its actors, and the
proofs hold for any number. Two faults let a chain message and the rollback that
replaces it both be lost; one retry separates "first", "again" and "exhausted"
(the code's numbers are larger and only repeat "again"). Two Payment rows are
needed only for the stalled request. In `OrderIntake`, stock 1 makes every
second order compete; two carts are the ordered and the newer one; two products
make "part of the stock taken" possible; one product and quantities up to two in
`intake_progress` leave room for points and for carts above the stock. In
`points`, one row of 3 points expires on day 2 of 2, uses and credits are of 2
points, and one point of the balance has no row: a use empties part of the old
row and needs the new one, a refund comes before or after the expiry, and a
reclaim may find too little. `MaxRefunded = 2` lets every failed order be revived
once and refunded a second time. `Goods = 1` there and 2 in `points_progress` (with
one order), where partial returns happen. In `returns`, points of 4 over three
pieces at 2 do not divide evenly, and the fee of 1 is below the price; three
pieces in two returns leave 1 + 2 and 2 + 1. In `locks`, three transactions and
two orders whose carts hold the two products in opposite order show every ring
of two and the shortest ones of three. `BeforeLapse` (in `points`,
`points_progress`) and `OnlyPatchLapses` (in `returns`) stop TLC from exploring
what follows a lapse the properties say nothing about; the only lapse that a
property of `returns` speaks about, the stale PATCH, is explored. `Earlier`, `MaxRows`,
`MaxTime` and `MaxRefunded` bound rows, days and how often a failed order is
revived. Each run finishes within four minutes.

**Fairness.** Weak fairness is put only on what something really starts again:
Celery workers take every queued message; Beat starts the sweeps every two or
five minutes (`src/myproject/celery.py` 145-185); Toss redelivers a webhook that
was not answered with 200; Beat starts the expiry of points every day
(`src/myproject/celery.py` 129-136), and a row whose transaction fails is tried
again the next day, so its expiry is strongly fair: not every try fails. A
started transaction ends (`FinishUnwind`). Customers and Toss's decisions have
none: nobody has to pay, click or deposit. One assumption is about a person:
`TossRefundIsBooked` assumes that the seller presses "complete" again while a
return is received and that not every try fails, because nothing in the code
repeats a refund whose database half failed.

## 4. Findings

Each is a statement of the repository that a violation run refutes;
`PROJECT.json` quotes the lines.

1. `silent_charge`: after the confirm retries ran out without an answer the
   customer cancels, and the later DONE webhook is ignored, although
   `src/README.md` 144 promises an alert.
2. `refund_not_applied`: the CANCELED webhook does not catch up with a refund
   whose database half failed if a late confirm retry marked the payment
   aborted (`src/README.md` 143).
3. `points_expire_twice`: the expiry notice saves the metadata it read before it
   sent the mails; a use in between is undone and the expiry batch takes the
   same points off the balance a second time, which `toss_webhook_service.py` 81
   names as what must not happen.
4. `returned_twice`: two return requests pass the checks of
   `validate_order_for_return` and `validate_return_items` before either is
   written, and more pieces are refunded than were ordered.

Further behaviours can be reproduced by choosing other `Environments`; they
contradict no document and are listed as hazards with notes: a deposit reverted
and paid again is never recorded; a points task that runs after a cancellation
leaves the points; with an overtaken cart request an order reserves something
other than what was charged; paying drops a newer cart; a late clear-cart request
empties a pending order's cart, and the order is confirmed without items and
never expires; `finalize_payment_confirm` makes a `payment_failed` order paid and
a stalled points-only payment revives a canceled one (`FailedStaysFailed` and
`CanceledIsFinal` are theorems in calm environments and have counterexamples
outside of them); an exchange set back by a stale PATCH moves stock twice, and a
refund does when the fee is as large as the price; the seven days a customer has
to return something are counted from the order, not from its delivery
(`return_service.py` 57).

**Points that lose their expiry date** (`points`). `refund_used_points` is written
so that an order and its cancellation do not turn points about to expire into
points without a date (`point_service.py` 552-554). Two sequences still do. The
rollback of a failed payment gives an order its used points back; when the
payment turns out to be done, `finalize_payment_confirm` revives the order
(`payment_tasks.py` 365) without using them again and without clearing
`used_points`; `cancel_payment` (`payment_service.py` 663) or the CANCELED webhook
(`toss_webhook_service.py` 413) then gives them back once more, and as no row has
anything left to restore they become balance without a row
(`point_service.py` 618-624). And a webhook's reclaim that finds too little
(`toss_webhook_service.py` 79) leaves rows used whose balance it has not taken.
`ExpiryIsLostInTwoWays` bounds both exactly, and both happen in the run.

**Deadlocks** (`locks`). Orders, cancellations, rollbacks, points-only payments
and point tasks never deadlock among themselves, nor do the transactions that
start from the payment, because products are locked by id and points after
them. What can: for one order, one of the first with one of the second; and
`cancel_payment` and `complete_refund`, which lock the customer before the
products (after Toss has paid: the victim's refund is then caught up with by the
CANCELED webhook or by the seller's retry), returns that list products in any
order, a failing order that wants the active cart, and items being added to it.
Use, refund and expiry go through a customer's earn rows in opposite orders and
never meet there, because each locks the customer's row first. The expiry notice
does not: it waits for earn rows and is waited for, but with one row per
transaction it closes no ring (`EarnRowsMeetOnlyTheNotice`).

## 5. Proofs

All theorems hold for every value of the constants allowed by
`PaymentAssumption`, `IntakeAssumption`, `PointConstants`, `ReturnConstants` and
`LockConstants`. Every safety property that a passing run checks is a theorem.

**Types.** `PaymentFlowAlways!TypesAreKept`, `OrderIntakeProofs!IntakeTypes`
(stock and balances stay natural numbers, which needs the order's cart to
exist).

**Payment, calm environments** (`PaymentFlowProofs`, assumption `Calm`: every
environment is a subset of `CalmOptions`). `StockFollowsOrder` and the others
are not inductive: whether a finalize message may make an order paid depends on
what else is in flight. `NoCrossPurpose` is the strengthening: at most one
confirm chain per order, working on the order's only Payment row; while a
finalize message is queued, Toss approved and no rollback is queued; a confirm
message may coexist with a rollback only if Toss will refuse it; what a webhook
has looked up is still so; the Payment row and the order agree. It is proved
action by action, and from it `StockTheorem`, `SoldTheorem`, `ChargedTheorem`,
`RefinementTheorem` (`ImplementsLifecycle`) and `FinalityTheorem` (canceled and
failed orders are final) follow. The assumption is needed: outside of it TLC
revives canceled and failed orders.

**Payment, every environment** (`PaymentFlowAlways`). Points are credited at
most once (the unique earn row and `earned_points` are the invariant), a
charge on a canceled order was reported, an order that costs money is paid only
after an approval.

**Payment, environments without a premature end** (`PaymentFlowProofs`).
`ChargeStandsTheorem`: unless two confirmations run at once, an answer never
comes, a message is redelivered or a payment is made in a second or stalled
window (`PrematureOptions`), a charge Toss holds belongs to an order that is
confirmed or paid, however slow queues and webhooks are and whatever is lost.
These environments are not the calm ones (a deposit may be reverted, a queue may
be slower than the sweeps), so `NoCrossPurpose` is not available. The invariant
is `ChargeInv`: a payment Toss approved has not been given up, nor one that the
single confirm message may still get approved (`ApprovedStands`); a payment no
confirmation touched belongs to an open order (`ReadyIsOpen`); and whoever is
about to record a failure, a rollback message, a fail page, a webhook handler
between its read and its write, read something Toss does not take back
(`FailureIsFinal`). The five options are needed: each alone has a behaviour in
which the charge meets an order that was given up (`silent_charge` is one).

**Intake, every environment** (`OrderIntakeProofs`). The invariant `IntakeInv`
adds to the properties that carts exist before they are active or ordered from,
that a pending order has taken nothing, and, when no request is overtaken, that
a pending order's cart is still as quoted. The kinds of step are first reduced
to a few shapes (`SomeEdit`, `SomeFailure`, `SomeClose`, `SomeMessage`), then
each keeps the invariant. Theorems: `IntakeTypes`, `OrderedOnceTheorem`,
`QuotedTheorem`, `GivenBackTheorem` (an action property), `ReservationTheorem`
(refinement of `StockReservation`), and `StockTheorem` and `PointsTheorem`: a
step changes what one order holds and the shelf or the balance by as much.

**Sums** (`SumTheorems`). A sum is the number of units in a set, so the laws of
addition follow from the library's theorems on cardinality without induction
over the rows. `SumFirst` and `SumLast` say what the closed forms of the two
loops add up to.

**Points, any number of orders, rows and batches** (`PointLedgerProofs`). The
balance covering the rows is not inductive: a refund takes used amounts back, so
the rows must have been used at least as much as all orders together may get
back, no row beyond its points, and no row may be expired before it is overdue
(`Books`). `PointInv` adds that slots beyond the last row are empty, that batches
list overdue rows, the shape of orders, and that the rows a passed check counts
on are still there (`ChecksCovered`), which is where the lock on the customer's
row is needed. The transactions are treated first as operators on an account
(`Spend`, `Reclaim`, `RefundUsed`, `ExpireRow`, `AddPoints`), each keeping
`Books`. For the expiry dates the steps are first shown to leave `Net` alone, the
unbacked points with every order's use less its refunds counted without a bound;
`OrdersWithin` (an order that may still get something from a row was not given
back more than it used) then gives `Unbacked - GivenTwice = Net` (`NetOfTwice`).
Theorems: `LedgerTypes`, `BalanceCoversRows`, `RefundsWereUsed`, `CheckSuffices`,
`ExpiryLossIsBounded` (an action property).

**Returns, any quantity, price, points, fees and number of requests**
(`ReturnFlowProofs`). `ReturnInv` is `TypeOK`, what even a lapse leaves true
(`Kept`), and until a lapse `Proper`: one open return that fits into what is left
(`OneOpen`), books that are the cumulative shares (`BooksAdd`), and Toss having
paid exactly what the retry will compute again (`TossAgrees`). That the payment
suffices needs `canceled <= Due(AlreadyReturned)`: the cash of everything
returned is at most its price less its share of the points. Theorems:
`ReturnTypes`, `ReturnsFit`, `SharesSum`, `TossAndBooks`, `PaymentSuffices`,
`StockMovesOnce`.

**Row locks, any number of transactions, orders and products**
(`RowLocksProofs`). `LockInv` says that running transactions hold a prefix of
their script and that no two hold locks that conflict; everything else is about
the scripts.
`EarnRowsTheorem`: in every script but the notice's the customer's row is locked
for update before the earn rows (`UserFirst`), so of two that contend for one, if
neither were the notice, both would hold the customer's row
(`EarnRowsAreGuarded`); and the notice, which has one lock to take, has none
while it waits and wants none once it has it (`NoticeHasOneLock`).
`RingsTheorem` ranks the rows: products by id, then the cart, the customer and
the earn rows; an order's own rows have no rank. The scripts of the three
families climb in it (`Segment`, put together part by part with `Join`), and
each family opens with the same lock on the order or on the payment, so that one
who wants an own row of an order somebody of its family works on has not taken
any lock yet (`OwnRowsAreGuarded`). In a ring without an inversion, whoever is
waited for therefore wants a later row (`WantedClimbs`); nobody waits for the one
who wants the lowest, who can be left out (`RingShrinks`), and a smallest ring
cannot be made smaller. `FamiliesTheorem` follows. That the items can be sorted
at all (`CanBeSorted`) is proved by counting: the number of products up to a
product's id is a place no other product has. The finiteness of `Txs` is what
the last step needs: a database has finitely many connections.

**Only model-checked.** Everything under fairness (`ChargeIsSettled`,
`OrderEnds`, `AbortedIsRolledBack`, `PendingIsDecided`, `OverdueExpires`,
`TossRefundIsBooked`), which is out of the prover's reach;
the agreement of the loops with their closed forms, which needs induction over
data.

## 6. Not modelled

- **Prices and amounts.** Only whether an order costs money (`free`) and which
  items its amount was computed for. `update_item_prices` and the price-change
  check of the serializer only touch prices.
- **Inactive products and seller edits** (`ProductSerializer.update` saves the
  whole row): hazard with a note.
- **`create_order_from_cart`**, the synchronous variant: no view calls it.
- **Lock waits** outside of `RowLocks`: everywhere else a locked transaction is
  one step.
- **Locks on cart lines** and on other rows than `RowLocks` lists.
  `process_order_heavy_tasks`, adding items and the merge at login take cart lines
  behind their cart's lock. The requests that change, remove, clear, reprice or
  clean up lines (`cart_service.py` 248-357, 551-576, 640-715) take no other lock:
  they cannot close a ring through the rows of `RowLocks` alone, but cleaning up
  or repricing goes line by line without the cart's lock and may meet a DELETE of
  all lines (`clear_cart`, `order_tasks.py` 155) in the opposite order, which is
  not checked. Requests that only add a row referring to a customer and another
  row (a return request, a question, a review, a wish) take shared key locks on
  both at their end and are left out. An UPDATE of one row outside a transaction
  holds nothing while it waits and waits for nothing while it holds the row.
- **Points of several customers**: no transaction touches two customers' rows.
  `PointService.use_points` (not FIFO) has no caller but tests.
- **Returns of several items** and exchanges for another product; the
  administrator's form of a return except its fee, and the bulk actions of the
  order list (`admin/order_admin.py` 125-140), which set a status whatever it was
  and would break every property here.
- **Shipping states** after `paid`, the recovery prototype (nothing calls it),
  chaos switches (their failures are nondeterministic choices here), catalogue
  and admin: single-row edits, I/O or library calls.
- **The load tests** (`src/load_tests/`, about 125 000 of the repository's
  256 000 lines of Python): scripts that drive the shop from outside and
  measure it. They have no state of the shop's own, and no property of the shop
  can be violated in them. For this reason the share of the repository's lines
  the map covers stays small: it covers the part of `shopping/` in which orders,
  payments, points and returns change.
- **Accounts, password reset, social login, wishlist, product Q&A,
  notifications**: single rows changed by single requests, around library calls;
  nothing the modelled parts read depends on them.
- **The verification mail** (`tasks/email_tasks.py`): no order, stock, points or
  money hang on it, but it has hazards of its own that a model would be about.
  `send_verification_email` publishes the task inside the transaction that
  creates the token, so a quick worker finds no token and sends nothing; a worker
  that dies between `send_mail` and `mark_as_sent` sends twice on redelivery; and
  a log that `retry_failed_emails_task` has claimed stays `pending` when the
  publish after the claim fails.

## 7. Order of work

`OrderRow`, `OrderLifecycle`, `PaymentFlow` and their proofs came first;
`StockReservation` and `OrderIntake` second; then `PointLedger`, `ReturnFlow`
with their proofs, and `RowLocks`. What would come next: seller edits of
products (a full-row save that includes the stock) as an action of
`OrderIntake`, prices of cart items, returns of several items, and the
verification mail (tokens, mail logs, the sending task and its sweep).
