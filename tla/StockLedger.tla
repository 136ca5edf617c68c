----------------------------- MODULE StockLedger -----------------------------
(***************************************************************************)
(* What the product service promises about stock: a reservation takes all  *)
(* the units of its order in one step, and only if they are there, or it   *)
(* takes nothing; a refund puts back, line by line, units that an order    *)
(* has taken.  Nothing else moves stock.                                   *)
(***************************************************************************)
EXTENDS Integers

CONSTANTS Products, Requests, Initial,
          Orders    \* an order: how many units it has of each product

VARIABLES stock,     \* units of each product
          taken      \* taken[r]: the order of r, for requests that took it

Init == /\ stock = Initial
        /\ taken = [r \in {} |-> Initial]

Reserve(r, order) ==
    /\ r \notin DOMAIN taken
    /\ \A p \in Products : order[p] <= stock[p]
    /\ stock' = [p \in Products |-> stock[p] - order[p]]
    /\ taken' = [q \in DOMAIN taken \cup {r} |-> IF q = r THEN order ELSE taken[q]]

Refund(r, p, n) ==
    /\ n \in 1 .. taken[r][p]
    /\ stock' = [stock EXCEPT ![p] = @ + n]
    /\ UNCHANGED taken

Next ==
    \/ \E r \in Requests, order \in Orders : Reserve(r, order)
    \/ \E r \in DOMAIN taken, p \in Products :
           \E n \in 1 .. taken[r][p] : Refund(r, p, n)

Spec == Init /\ [][Next]_<<stock, taken>>
==============================================================================
