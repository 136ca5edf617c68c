----------------------------- MODULE MCPayments -----------------------------
(* The payment of an order on small instances.                             *)
EXTENDS Payments
=============================================================================
