------------------------------ MODULE MCOrders ------------------------------
(* The order service with retried calls: creations with one key, and       *)
(* cancellations with one key, any of which may be the first.              *)
EXTENDS Orders, TLC

CONSTANTS k1, k2

SameCreateKey == [r \in Creates |-> k1]
SameCancelKey == [c \in Cancels |-> k2]

AnyCall == Permutations(Creates) \cup Permutations(Cancels)
=============================================================================
