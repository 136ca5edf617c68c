----------------------------- MODULE MCCheckout -----------------------------
(* One order, one cancellation, one attempt at paying.                     *)
EXTENDS Checkout
=============================================================================
