--------------------------- MODULE MCProductStock ---------------------------
(* Stock on a small instance.                                              *)
EXTENDS ProductStock

CONSTANTS a, b

TwoEach == [p \in Products |-> 2]

One(p) == [product |-> p, quantity |-> 1]
Two(p) == [product |-> p, quantity |-> 2]

\* Opposite orders, and an order that lists a product twice.
SmallCarts == {<<One(a), One(b)>>, <<Two(b), One(a)>>, <<One(a), One(a)>>}
=============================================================================
