--------------------------- MODULE OrderLifecycle ---------------------------
(***************************************************************************)
(* What the shop promises about an order, whoever acts on it and in which  *)
(* order: it is paid at most once, it fails or is canceled at most once,   *)
(* and its stock, points and sales count move together with its status.    *)
(* PaymentFlow implements this specification.                              *)
(***************************************************************************)
EXTENDS Integers

CONSTANT Orders

VARIABLES status, held, spent, sold

vars == <<status, held, spent, sold>>

Init ==
  /\ status = [o \in Orders |-> "confirmed"]
  /\ held = [o \in Orders |-> 1]
  /\ spent = [o \in Orders |-> 1]
  /\ sold = [o \in Orders |-> 0]

(* The order is charged, or its points cover it: the sale is counted. *)
Pay(o) ==
  /\ status[o] = "confirmed"
  /\ status' = [status EXCEPT ![o] = "paid"]
  /\ sold' = [sold EXCEPT ![o] = 1]
  /\ UNCHANGED <<held, spent>>

(* The order ends without a sale: stock and points go back, once. *)
Close(o, end) ==
  /\ status[o] \in {"confirmed", "paid"}
  /\ end = "payment_failed" => status[o] = "confirmed"
  /\ status' = [status EXCEPT ![o] = end]
  /\ held' = [held EXCEPT ![o] = 0]
  /\ spent' = [spent EXCEPT ![o] = 0]
  /\ sold' = [sold EXCEPT ![o] = 0]

(* A failed order may be recorded as canceled; nothing is left to give back. *)
CancelFailed(o) ==
  /\ status[o] = "payment_failed"
  /\ status' = [status EXCEPT ![o] = "canceled"]
  /\ UNCHANGED <<held, spent, sold>>

Next == \E o \in Orders :
  \/ Pay(o)
  \/ Close(o, "canceled") \/ Close(o, "payment_failed")
  \/ CancelFailed(o)

Spec == Init /\ [][Next]_vars

=============================================================================
