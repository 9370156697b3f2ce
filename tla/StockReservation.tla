-------------------------- MODULE StockReservation --------------------------
(***************************************************************************)
(* What the shop promises about its stock: an order takes everything it    *)
(* ordered in one step, or nothing; it gives it back at most once; and an  *)
(* order that has given its units back, or was closed without any, never   *)
(* takes units again.  OrderIntake implements this specification.          *)
(***************************************************************************)
EXTENDS Integers

CONSTANTS Products, Orders, InitialStock

VARIABLES stock, held, phase

vars == <<stock, held, phase>>

Nothing == [p \in Products |-> 0]

Init ==
  /\ stock = InitialStock
  /\ held = [o \in Orders |-> Nothing]
  /\ phase = [o \in Orders |-> "open"]

(* All lines of the order are available and are taken together: the order   *)
(* holds what leaves the shelf.                                             *)
Reserve(o) ==
  /\ phase[o] = "open"
  /\ stock' \in [Products -> Nat]
  /\ \A p \in Products : stock'[p] <= stock[p]
  /\ held' = [held EXCEPT ![o] = [p \in Products |-> stock[p] - stock'[p]]]
  /\ phase' = [phase EXCEPT ![o] = "held"]

(* The order ends; what it holds, if anything, goes back on the shelf. *)
Release(o) ==
  /\ phase[o] # "closed"
  /\ stock' = [p \in Products |-> stock[p] + held[o][p]]
  /\ held' = [held EXCEPT ![o] = Nothing]
  /\ phase' = [phase EXCEPT ![o] = "closed"]

Next == \E o \in Orders : Reserve(o) \/ Release(o)

Spec == Init /\ [][Next]_vars

=============================================================================
