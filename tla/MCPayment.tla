---- MODULE MCPayment ----
EXTENDS PaymentInvariant
====
