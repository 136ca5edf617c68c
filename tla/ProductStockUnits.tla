--------------------------- MODULE ProductStockUnits ---------------------------
(***************************************************************************)
(* Proofs about ProductStock that count units, for every set of products,  *)
(* requests and carts, every initial stock and every number of faults:     *)
(* units are conserved, a refund is made in full and once per delivery,    *)
(* and the reservations implement the atomic ledger.                       *)
(***************************************************************************)
EXTENDS ProductStockProofs, StockSums

USE CartsAssumption, InitialAssumption, FaultsAssumption

-----------------------------------------------------------------------------
(* The units of an order, line by line.                                    *)

(* What one line has of a product. *)
OfLine(l, p) == IF l.product = p THEN l.quantity ELSE 0

(* The first lines of an order have no units when there are none of them,  *)
(* and each line adds its own.                                             *)
LEMMA UnitsAddUp ==
    ASSUME NEW lines \in Seq(Line), NEW p
    PROVE  /\ UnitsOfFirst(0, lines, p) = 0
           /\ \A n \in 0 .. Len(lines) - 1 :
                  UnitsOfFirst(n + 1, lines, p)
                    = OfLine(lines[n + 1], p) + UnitsOfFirst(n, lines, p)
           /\ \A n \in 1 .. Len(lines) : OfLine(lines[n], p) \in Nat
<1> DEFINE f == UnitsPerLine(lines, p)
<1>0. Len(lines) \in Nat
  OBVIOUS
<1>1. \A n \in 1 .. Len(lines) : lines[n] \in Line
  OBVIOUS
<1>2. \A n \in 1 .. Len(lines) : f[n] = OfLine(lines[n], p) /\ OfLine(lines[n], p) \in Nat
  BY <1>1 DEF UnitsPerLine, OfLine, Line
<1>3. \A n : UnitsOfFirst(n, lines, p) = SumFunctionOnSet(f, 1 .. n)
  BY DEF UnitsOfFirst
<1> HIDE DEF f
<1>4. 1 .. 0 = {}
  OBVIOUS
<1>5. UnitsOfFirst(0, lines, p) = 0
  BY <1>3, <1>4, SumStep, FS_EmptySet
<1>6. ASSUME NEW n \in 0 .. Len(lines) - 1
      PROVE  UnitsOfFirst(n + 1, lines, p)
               = OfLine(lines[n + 1], p) + UnitsOfFirst(n, lines, p)
  <2>1. /\ n \in Nat
        /\ n + 1 \in 1 .. n + 1
        /\ 1 .. n + 1 \subseteq 1 .. Len(lines)
        /\ (1 .. n + 1) \ {n + 1} = 1 .. n
    BY <1>0
  <2>2. IsFiniteSet(1 .. n + 1)
    BY <2>1, FS_Interval
  <2>3. \A i \in 1 .. n + 1 : f[i] \in Int
    BY <1>2, <2>1
  <2>4. SumFunctionOnSet(f, 1 .. n + 1)
          = f[n + 1] + SumFunctionOnSet(f, (1 .. n + 1) \ {n + 1})
    BY <2>1, <2>2, <2>3, SumRemove
  <2>5. f[n + 1] = OfLine(lines[n + 1], p)
    BY <1>2, <2>1
  <2> QED
    BY <1>3, <2>1, <2>4, <2>5
<1> QED
  BY <1>2, <1>5, <1>6

(* More lines never have fewer units. *)
LEMMA UnitsGrow ==
    ASSUME NEW lines \in Seq(Line), NEW p
    PROVE  \A m \in 0 .. Len(lines) : \A n \in 0 .. m :
               /\ UnitsOfFirst(n, lines, p) \in Nat
               /\ UnitsOfFirst(n, lines, p) <= UnitsOfFirst(m, lines, p)
<1> DEFINE U(n) == UnitsOfFirst(n, lines, p)
<1> DEFINE Good == {m \in Nat : m <= Len(lines) =>
                        \A n \in 0 .. m : U(n) \in Nat /\ U(n) <= U(m)}
<1>0. Len(lines) \in Nat
  OBVIOUS
<1>1. 0 \in Good
  <2>1. U(0) = 0
    BY UnitsAddUp
  <2>2. \A n \in 0 .. 0 : n = 0
    OBVIOUS
  <2> HIDE DEF U
  <2>3. U(0) \in Nat /\ U(0) <= U(0)
    BY <2>1
  <2> QED
    BY <2>2, <2>3
<1>2. ASSUME NEW m \in Nat, m \in Good PROVE m + 1 \in Good
  <2> SUFFICES ASSUME m + 1 <= Len(lines), NEW n \in 0 .. m + 1
               PROVE  U(n) \in Nat /\ U(n) <= U(m + 1)
    OBVIOUS
  <2>1. m \in 0 .. Len(lines) - 1 /\ m + 1 \in 1 .. Len(lines) /\ m <= Len(lines)
    BY <1>0
  <2>2. U(m + 1) = OfLine(lines[m + 1], p) + U(m) /\ OfLine(lines[m + 1], p) \in Nat
    BY <2>1, UnitsAddUp
  <2>3. U(m) \in Nat /\ (n \in 0 .. m => U(n) \in Nat /\ U(n) <= U(m))
    BY <1>2, <2>1
  <2>4. n \in 0 .. m \/ n = m + 1
    OBVIOUS
  <2> HIDE DEF U
  <2> QED
    BY <2>2, <2>3, <2>4
<1> HIDE DEF Good
<1>3. \A m \in Nat : m \in Good
  BY <1>1, <1>2, Induction
<1> QED
  BY <1>0, <1>3 DEF Good

LEMMA UnitsType ==
    /\ <<>> \in Seq(Line)
    /\ \A lines \in Seq(Line) : \A p : Len(lines) \in Nat /\ Units(lines, p) \in Nat
    /\ \A p : Units(<<>>, p) = 0
<1>1. <<>> \in Seq(Line) /\ Len(<<>>) = 0
  OBVIOUS
<1>2. ASSUME NEW lines \in Seq(Line), NEW p
      PROVE  Len(lines) \in Nat /\ Units(lines, p) \in Nat
  <2>1. Len(lines) \in 0 .. Len(lines)
    OBVIOUS
  <2> QED
    BY <2>1, UnitsGrow DEF Units
<1>3. \A p : Units(<<>>, p) = 0
  BY <1>1, UnitsAddUp DEF Units
<1> QED
  BY <1>1, <1>2, <1>3

(* The orders of the state have lines, and so units. *)
LEMMA OrdersType ==
    ASSUME TypeOK, NEW r \in Requests
    PROVE  /\ items[r] \in Seq(Line)
           /\ RefundLines(r) \in Seq(Line)
           /\ Len(items[r]) \in Nat /\ Len(RefundLines(r)) \in Nat
           /\ \A p : Units(items[r], p) \in Nat /\ Units(RefundLines(r), p) \in Nat
<1>1. items[r] \in Seq(Line) /\ RefundLines(r) \in Seq(Line)
  BY ItemsType, UnitsType DEF RefundLines
<1> QED
  BY <1>1, UnitsType

-----------------------------------------------------------------------------
(* Reservations.                                                           *)

(* What the transaction of r has taken of p so far. *)
Gone(r, p) == UnitsOfFirst(pos[r], items[r], p)

(* An open transaction sees the committed stock less what it took itself,   *)
(* unless somebody has changed the document since its snapshot.             *)
SessionUnits ==
    \A r \in Open : \A p \in Products :
        /\ p \notin stale[r] => view[r][p] + Gone(r, p) = inStock[p]
        /\ p \notin wrote[r] => Gone(r, p) = 0

LEMMA GoneType ==
    ASSUME TypeOK, NEW r \in Requests, NEW p
    PROVE  Gone(r, p) \in Nat
<1>1. items[r] \in Seq(Line) /\ pos[r] \in 0 .. Len(items[r]) /\ Len(items[r]) \in 0 .. Len(items[r])
  BY OrdersType DEF TypeOK
<1> QED
  BY <1>1, UnitsGrow DEF Gone

LEMMA BeginUnits ==
    ASSUME IInv, SessionUnits, NEW r \in Requests, Begin(r)
    PROVE  SessionUnits'
<1> USE DEF IInv
<1>0. PICK cart \in Carts : items' = [items EXCEPT ![r] = cart]
  BY DEF Begin
<1>1. /\ view' = [view EXCEPT ![r] = inStock]
      /\ stage' = [stage EXCEPT ![r] = "open"]
      /\ UNCHANGED <<inStock, pos, wrote, stale>>
      /\ r \in Requests \ Open
  BY DEF Begin, Open
<1>2. Open' = Open \cup {r}
  BY <1>1 DEF Open, TypeOK
<1>3. ASSUME NEW p \in Products
      PROVE  view'[r][p] = inStock[p] /\ Gone(r, p)' = 0
  <2>1. pos'[r] = 0 /\ items'[r] = cart
    BY <1>0, <1>1 DEF SessionInv, TypeOK
  <2>2. UnitsOfFirst(0, cart, p) = 0
    BY UnitsAddUp
  <2> QED
    BY <1>1, <2>1, <2>2 DEF Gone, TypeOK
<1>4. ASSUME NEW q \in Open, NEW p
      PROVE  view'[q] = view[q] /\ Gone(q, p)' = Gone(q, p)
  <2>1. q # r /\ q \in Requests
    BY <1>1 DEF Open
  <2>2. items'[q] = items[q] /\ pos'[q] = pos[q] /\ view'[q] = view[q]
    BY <1>0, <1>1, <2>1 DEF TypeOK
  <2> QED
    BY <2>2 DEF Gone
<1>5. ASSUME NEW p \in Products PROVE inStock[p] + 0 = inStock[p]
  BY DEF TypeOK
<1> QED
  BY <1>1, <1>2, <1>3, <1>4, <1>5 DEF SessionUnits

LEMMA DecrementUnits ==
    ASSUME IInv, SessionUnits, NEW r \in Requests, Decrement(r)
    PROVE  SessionUnits'
<1> USE DEF IInv
<1> DEFINE l == NextLine(r)
<1>1. /\ l.product \in Products /\ l.quantity \in Nat \ {0}
      /\ pos[r] + 1 \in 1 .. Len(items[r])
      /\ r \in Open
  BY NextLineType DEF HasLine, Open, Decrement
<1>2. /\ l.product \notin stale[r]
      /\ view' = [view EXCEPT ![r][l.product] = @ - l.quantity]
      /\ wrote' = [wrote EXCEPT ![r] = @ \cup {l.product}]
      /\ pos' = [pos EXCEPT ![r] = @ + 1]
      /\ UNCHANGED <<inStock, items, stale>>
      /\ Open' = Open
  BY DEF Decrement, WriteConflict, Open
<1>3. ASSUME NEW p PROVE Gone(r, p)' = OfLine(l, p) + Gone(r, p)
  <2>1. items[r] \in Seq(Line) /\ Len(items[r]) \in Nat
    BY OrdersType
  <2>2. pos[r] \in 0 .. Len(items[r]) - 1 /\ pos'[r] = pos[r] + 1
    BY <1>1, <1>2, <2>1 DEF TypeOK
  <2> QED
    BY <1>2, <2>1, <2>2, UnitsAddUp DEF Gone, NextLine
<1> HIDE DEF l
<1>4. ASSUME NEW p \in Products
      PROVE  /\ p \notin stale'[r] => view'[r][p] + Gone(r, p)' = inStock'[p]
             /\ p \notin wrote'[r] => Gone(r, p)' = 0
  <2>1. view'[r][p] = view[r][p] - OfLine(l, p) /\ OfLine(l, p) \in Nat
    BY <1>1, <1>2 DEF TypeOK, OfLine
  <2>2. view[r][p] \in Int /\ Gone(r, p) \in Nat
    BY GoneType DEF TypeOK
  <2>3. p \notin stale[r] => view[r][p] + Gone(r, p) = inStock[p]
    BY <1>1 DEF SessionUnits
  <2>4. view'[r][p] + Gone(r, p)' = view[r][p] + Gone(r, p)
    <3> DEFINE u == OfLine(l, p)
    <3> DEFINE v == view[r][p]
    <3> DEFINE g == Gone(r, p)
    <3>1. v \in Int /\ g \in Nat /\ u \in Nat
      BY <2>1, <2>2
    <3>2. view'[r][p] = v - u /\ Gone(r, p)' = u + g
      BY <1>3, <2>1
    <3> HIDE DEF u, v, g
    <3>3. (v - u) + (u + g) = v + g
      BY <3>1
    <3> QED
      BY <3>2, <3>3 DEF v, g
  <2>5. p \notin wrote'[r] => Gone(r, p)' = 0
    <3> SUFFICES ASSUME p \notin wrote'[r] PROVE Gone(r, p)' = 0
      OBVIOUS
    <3>1. p \notin wrote[r] /\ p # l.product
      BY <1>2 DEF TypeOK
    <3>2. Gone(r, p) = 0 /\ OfLine(l, p) = 0
      BY <1>1, <3>1 DEF SessionUnits, OfLine
    <3> QED
      BY <1>3, <3>2
  <2> QED
    BY <1>2, <2>3, <2>4, <2>5
<1>5. ASSUME NEW q \in Open \ {r}, NEW p
      PROVE  view'[q] = view[q] /\ wrote'[q] = wrote[q] /\ Gone(q, p)' = Gone(q, p)
  BY <1>2 DEF TypeOK, Open, Gone
<1> QED
  BY <1>2, <1>4, <1>5 DEF SessionUnits

(* A session that ends, committed or not, leaves the others as they were. *)
LEMMA OthersStay ==
    ASSUME IInv, NEW r \in Open, NEW outcome \in Stages \ {"open"},
           stage' = [stage EXCEPT ![r] = outcome], EndSession(r), UNCHANGED items
    PROVE  /\ Open' = Open \ {r}
           /\ \A q \in Open \ {r} : \A p :
                  view'[q] = view[q] /\ wrote'[q] = wrote[q] /\ Gone(q, p)' = Gone(q, p)
<1> USE DEF IInv
<1>1. Open' = Open \ {r}
  BY DEF Open, TypeOK, Stages
<1>2. ASSUME NEW q \in Open \ {r}
      PROVE  view'[q] = view[q] /\ wrote'[q] = wrote[q] /\ pos'[q] = pos[q]
  BY DEF EndSession, Open, TypeOK
<1> QED
  BY <1>1, <1>2 DEF Gone

LEMMA RollbackUnits ==
    ASSUME IInv, SessionUnits, NEW r \in Open, Rollback(r)
    PROVE  SessionUnits'
<1>1. /\ stage' = [stage EXCEPT ![r] = "rejected"]
      /\ EndSession(r)
      /\ UNCHANGED <<inStock, items>>
      /\ "rejected" \in Stages \ {"open"}
  BY DEF Rollback, Stages
<1>2. \A q \in Open \ {r} : stale'[q] = stale[q]
  BY DEF Rollback, IInv, TypeOK, Open
<1>3. /\ Open' = Open \ {r}
      /\ \A q \in Open \ {r} : \A p :
             view'[q] = view[q] /\ wrote'[q] = wrote[q] /\ Gone(q, p)' = Gone(q, p)
  BY <1>1, OthersStay
<1> QED
  BY <1>1, <1>2, <1>3 DEF SessionUnits

(* A commit takes the units of the order, whichever documents it wrote. *)
LEMMA ApplyTakes ==
    ASSUME IInv, SessionUnits, NEW r \in Requests, Apply(r)
    PROVE  /\ r \in Open
           /\ inStock' = [p \in Products |-> inStock[p] - Units(items[r], p)]
           /\ \A p \in Products : Units(items[r], p) <= inStock[p]
<1> USE DEF IInv
<1>1. r \in Open /\ pos[r] = Len(items[r])
  BY DEF Apply, Open
<1>2. inStock' = [p \in Products |-> IF p \in wrote[r] THEN view[r][p] ELSE inStock[p]]
  BY DEF Apply, Result
<1>3. \A p : Gone(r, p) = Units(items[r], p)
  BY <1>1 DEF Gone, Units
<1>4. ASSUME NEW p \in Products
      PROVE  /\ inStock'[p] = inStock[p] - Units(items[r], p)
             /\ Units(items[r], p) <= inStock[p]
  <2> DEFINE u == Units(items[r], p)
  <2>0. TypeOK /\ r \in Requests
    BY <1>1 DEF Open
  <2>1. u \in Nat /\ view[r][p] \in Int /\ inStock[p] \in Nat /\ view[r][p] >= 0
    <3>1. u \in Nat
      BY <2>0, OrdersType
    <3>2. view[r][p] \in Int /\ inStock[p] \in Int
      BY <2>0 DEF TypeOK
    <3>3. view[r][p] >= 0 /\ inStock[p] >= 0
      BY <1>1 DEF NeverOversold, SnapshotInv
    <3> QED
      BY <3>1, <3>2, <3>3
  <2>2. p \notin stale[r] => view[r][p] + u = inStock[p]
    BY <1>1, <1>3 DEF SessionUnits
  <2>3. p \notin wrote[r] => u = 0
    BY <1>1, <1>3 DEF SessionUnits
  <2>4. p \in wrote[r] => p \notin stale[r]
    BY <1>1 DEF WritersExclude
  <2>5. inStock'[p] = IF p \in wrote[r] THEN view[r][p] ELSE inStock[p]
    BY <1>2
  <2> HIDE DEF u
  <2>6. inStock'[p] = inStock[p] - u /\ u <= inStock[p]
    <3>1. CASE p \in wrote[r]
      BY <2>1, <2>2, <2>4, <2>5, <3>1
    <3>2. CASE p \notin wrote[r]
      BY <2>1, <2>3, <2>5, <3>2
    <3> QED
      BY <3>1, <3>2
  <2> QED
    BY <2>6 DEF u
<1> QED
  BY <1>1, <1>2, <1>4

LEMMA ApplyUnits ==
    ASSUME IInv, SessionUnits, NEW r \in Requests, Apply(r),
           NEW outcome \in {"reserved", "lost"}, stage' = [stage EXCEPT ![r] = outcome]
    PROVE  SessionUnits'
<1>1. /\ r \in Open
      /\ EndSession(r)
      /\ UNCHANGED items
      /\ outcome \in Stages \ {"open"}
  BY DEF Apply, Open, Stages
<1>2. /\ Open' = Open \ {r}
      /\ \A q \in Open \ {r} : \A p :
             view'[q] = view[q] /\ wrote'[q] = wrote[q] /\ Gone(q, p)' = Gone(q, p)
  BY <1>1, OthersStay
<1>3. \A q \in Open \ {r} : stale'[q] = stale[q] \cup wrote[r]
  BY DEF Apply, Open
<1>4. \A p \in Products : p \notin wrote[r] => inStock'[p] = inStock[p]
  BY DEF Apply, Result
<1> QED
  BY <1>2, <1>3, <1>4 DEF SessionUnits

(* What a refund does, line by line. *)
LEMMA IncrementReturns ==
    ASSUME IInv, NEW c \in consumer, Increment(c)
    PROVE  /\ c.req \in Requests /\ c.done \in Nat /\ stage[c.req] = "reserved"
           /\ c.done + 1 \in 1 .. Len(items[c.req])
           /\ LET l == items[c.req][c.done + 1]
              IN  /\ l.product \in Products
                  /\ l.quantity \in 1 .. Units(items[c.req], l.product)
                  /\ inStock' = [inStock EXCEPT ![l.product] = @ + l.quantity]
                  /\ refunded' = [refunded EXCEPT ![c.req][l.product] = @ + l.quantity]
<1> USE DEF IInv
<1> DEFINE r == c.req
<1>1. r \in Requests /\ c.done \in Nat
  BY DEF TypeOK
<1>2. items[r] \in Seq(Line) /\ Len(items[r]) \in Nat
  BY <1>1, OrdersType
<1>3. c.done < Len(RefundLines(r)) /\ RefundLines(r) \in {items[r], <<>>}
  BY DEF Increment, RefundLines
<1>4. Len(<<>>) = 0
  OBVIOUS
<1>5. stage[r] = "reserved" /\ RefundLines(r) = items[r]
  BY <1>1, <1>3, <1>4 DEF RefundLines
<1>6. c.done + 1 \in 1 .. Len(items[r]) /\ c.done \in 0 .. Len(items[r]) - 1
  BY <1>1, <1>2, <1>3, <1>5
<1> DEFINE l == items[r][c.done + 1]
<1>7. l.product \in Products /\ l.quantity \in Nat \ {0}
  BY <1>1, <1>6, LineType
<1>8. l.quantity <= Units(items[r], l.product) /\ Units(items[r], l.product) \in Nat
  <2> DEFINE p == l.product
  <2> DEFINE U(n) == UnitsOfFirst(n, items[r], p)
  <2>1. /\ U(c.done + 1) = OfLine(l, p) + U(c.done)
        /\ U(c.done) \in Nat
        /\ U(c.done + 1) <= U(Len(items[r]))
        /\ U(Len(items[r])) \in Nat
    <3>1. c.done + 1 \in 0 .. Len(items[r]) /\ c.done \in 0 .. Len(items[r])
          /\ Len(items[r]) \in 0 .. Len(items[r])
      BY <1>1, <1>2, <1>6
    <3> QED
      BY <1>2, <1>6, <3>1, UnitsAddUp, UnitsGrow
  <2>2. OfLine(l, p) = l.quantity
    BY DEF OfLine
  <2>3. Units(items[r], p) = U(Len(items[r]))
    BY DEF Units
  <2> HIDE DEF U, l, p
  <2>4. l.quantity <= U(Len(items[r]))
    BY <1>7, <2>1, <2>2
  <2> QED
    BY <2>1, <2>3, <2>4 DEF p
<1> HIDE DEF r
<1>9. /\ inStock' = [inStock EXCEPT ![l.product] = @ + l.quantity]
      /\ refunded' = [refunded EXCEPT ![r][l.product] = @ + l.quantity]
  BY <1>5 DEF Increment, r
<1>10. l.quantity \in 1 .. Units(items[r], l.product)
  BY <1>7, <1>8
<1> QED
  BY <1>1, <1>5, <1>6, <1>7, <1>9, <1>10 DEF r

LEMMA IncrementUnits ==
    ASSUME IInv, SessionUnits, NEW c \in consumer, Increment(c)
    PROVE  SessionUnits'
<1> USE DEF IInv
<1> DEFINE l == items[c.req][c.done + 1]
<1>1. l.product \in Products /\ inStock' = [inStock EXCEPT ![l.product] = @ + l.quantity]
      /\ RefundLines(c.req) = items[c.req]
  BY IncrementReturns DEF RefundLines
<1>2. /\ UNCHANGED <<items, pos, view, wrote>>
      /\ Open' = Open
      /\ \A q \in Open : stale'[q] = stale[q] \cup {l.product}
  BY <1>1 DEF Increment, Open
<1>3. \A p \in Products \ {l.product} : inStock'[p] = inStock[p]
  BY <1>1 DEF TypeOK
<1>4. \A q, p : Gone(q, p)' = Gone(q, p)
  BY <1>2 DEF Gone
<1> HIDE DEF l
<1> QED
  BY <1>2, <1>3, <1>4 DEF SessionUnits

(* The steps of the order service and the consumer that move no stock. *)
QuietStep ==
    \/ \E r \in Requests : RequestRefund(r) \/ Duplicate(r) \/ Consume(r)
    \/ \E c \in consumer : Acknowledge(c) \/ Redeliver(c)
    \/ UNCHANGED vars

LEMMA SessionStep ==
    ASSUME IInv, SessionUnits, [Next]_vars
    PROVE  SessionUnits'
<1>1. ASSUME NEW r \in Requests, Reject(r) \/ Fail(r) PROVE SessionUnits'
  <2>1. r \in Open /\ Rollback(r)
    BY <1>1 DEF Reject, Fail, HasLine, Open
  <2> QED
    BY <2>1, RollbackUnits
<1>2. ASSUME NEW r \in Requests, Commit(r) \/ CommitLost(r) PROVE SessionUnits'
  <2>1. Apply(r)
    BY <1>2 DEF Commit, CommitLost
  <2>2. PICK outcome \in {"reserved", "lost"} : stage' = [stage EXCEPT ![r] = outcome]
    BY <1>2 DEF Commit, CommitLost
  <2> QED
    BY <2>1, <2>2, ApplyUnits
<1>3. CASE QuietStep
  <2>1. UNCHANGED <<inStock, stage, items, pos, view, wrote, stale>>
    BY <1>3 DEF QuietStep, RequestRefund, Duplicate, Consume, Acknowledge, Redeliver,
                vars, txns
  <2>2. Open' = Open /\ \A q, p : Gone(q, p)' = Gone(q, p)
    BY <2>1 DEF Open, Gone
  <2> QED
    BY <2>1, <2>2 DEF SessionUnits
<1>4. CASE UNCHANGED vars
  BY <1>3, <1>4 DEF QuietStep
<1>5. CASE Next
  BY <1>1, <1>2, <1>3, <1>5, BeginUnits, DecrementUnits, IncrementUnits DEF Next, QuietStep
<1> QED
  BY <1>4, <1>5

-----------------------------------------------------------------------------
(* Moves of stock.                                                         *)

LEMMA ChargedType == ASSUME TypeOK PROVE Charged \subseteq Requests
BY DEF Charged

(* A commit, its answer lost or not, charges an order that was not charged. *)
LEMMA CommitMoves ==
    ASSUME IInv, SessionUnits, NEW r \in Requests, Commit(r) \/ CommitLost(r)
    PROVE  /\ r \in Open /\ r \notin Charged /\ Charged' = Charged \cup {r}
           /\ inStock' = [p \in Products |-> inStock[p] - Units(items[r], p)]
           /\ \A p \in Products : Units(items[r], p) <= inStock[p]
           /\ UNCHANGED <<items, refunded>>
<1>1. Apply(r)
  BY DEF Commit, CommitLost
<1>2. PICK outcome \in {"reserved", "lost"} : stage' = [stage EXCEPT ![r] = outcome]
  BY DEF Commit, CommitLost
<1>3. r \in Open
  BY <1>1, ApplyTakes
<1>4. r \notin Charged /\ Charged' = Charged \cup {r}
  BY <1>2, <1>3 DEF Charged, Open, IInv, TypeOK
<1> QED
  BY <1>1, <1>3, <1>4, ApplyTakes DEF Apply, refunds

(* A refund puts a line of a charged order back. *)
LEMMA IncrementMoves ==
    ASSUME IInv, NEW c \in consumer, Increment(c)
    PROVE  /\ c.req \in Charged /\ Charged' = Charged
           /\ UNCHANGED items
           /\ \E p \in Products : \E n \in 1 .. Units(items[c.req], p) :
                  /\ inStock' = [inStock EXCEPT ![p] = @ + n]
                  /\ refunded' = [refunded EXCEPT ![c.req][p] = @ + n]
<1> DEFINE l == items[c.req][c.done + 1]
<1>1. UNCHANGED <<stage, items>>
  BY DEF Increment
<1>2. c.req \in Charged /\ Charged' = Charged
  BY <1>1, IncrementReturns DEF Charged
<1>3. /\ l.product \in Products
      /\ l.quantity \in 1 .. Units(items[c.req], l.product)
      /\ inStock' = [inStock EXCEPT ![l.product] = @ + l.quantity]
      /\ refunded' = [refunded EXCEPT ![c.req][l.product] = @ + l.quantity]
  BY IncrementReturns
<1> HIDE DEF l
<1> QED
  BY <1>1, <1>2, <1>3

(* No other step moves stock, charges an order or changes a charged one. *)
LEMMA OthersMoveNothing ==
    ASSUME IInv, [Next]_vars,
           ~ \E r \in Requests : Commit(r) \/ CommitLost(r),
           ~ \E c \in consumer : Increment(c)
    PROVE  /\ UNCHANGED <<inStock, refunded>> /\ Charged' = Charged
           /\ \A q \in Charged : items'[q] = items[q]
<1> USE DEF IInv
<1>1. ASSUME NEW r \in Requests, Reject(r) \/ Fail(r)
      PROVE  /\ UNCHANGED <<inStock, refunded, items>> /\ Charged' = Charged
  <2>1. r \in Open /\ Rollback(r)
    BY <1>1 DEF Reject, Fail, HasLine, Open
  <2>2. stage' = [stage EXCEPT ![r] = "rejected"] /\ UNCHANGED <<inStock, refunded, items>>
    BY <2>1 DEF Rollback, refunds
  <2> QED
    BY <2>1, <2>2 DEF Charged, Open, TypeOK
<1>2. ASSUME NEW r \in Requests, Begin(r)
      PROVE  /\ UNCHANGED <<inStock, refunded>> /\ Charged' = Charged
             /\ \A q \in Charged : items'[q] = items[q]
  <2>1. /\ stage' = [stage EXCEPT ![r] = "open"] /\ stage[r] = "idle"
        /\ \E cart \in Carts : items' = [items EXCEPT ![r] = cart]
        /\ UNCHANGED <<inStock, refunded>>
    BY <1>2 DEF Begin, refunds
  <2> QED
    BY <2>1 DEF Charged, TypeOK
<1>3. ASSUME NEW r \in Requests, Decrement(r)
      PROVE  UNCHANGED <<inStock, refunded, items>> /\ Charged' = Charged
  BY <1>3 DEF Decrement, refunds, Charged
<1>4. CASE QuietStep
  BY <1>4 DEF QuietStep, RequestRefund, Duplicate, Consume, Acknowledge, Redeliver,
              vars, txns, refunds, Charged
<1>5. CASE UNCHANGED vars
  BY <1>4, <1>5 DEF QuietStep
<1>6. CASE Next
  BY <1>1, <1>2, <1>3, <1>4, <1>6 DEF Next, QuietStep
<1> QED
  BY <1>5, <1>6

-----------------------------------------------------------------------------
(* Refunds.                                                                *)

(* A refund is asked for when its reservation has ended, and only then is   *)
(* there an event of it.                                                    *)
AskedInv ==
    \A r \in Requests :
        /\ asked[r] > 0 => stage[r] \in {"reserved", "rejected", "lost"}
        /\ asked[r] = 0 => topic[r] = 0

(* How often an event of r may have been delivered and done with. *)
Deliveries(r) == asked[r] + faults - topic[r]

(* What the delivery c has put back of p. *)
Back(c, p) == UnitsOfFirst(c.done, RefundLines(c.req), p)

Waiting(r) == \A c \in consumer : c.req # r

(* n units have been put back, b of them by a delivery under way: no more   *)
(* than d deliveries have, and no less than those of the a events that have *)
(* left the topic, which still holds t.                                     *)
Within(n, d, a, t, u, b) ==
    /\ n <= d * u + b
    /\ a * u + b <= n + t * u

RefundInv ==
    /\ \A r \in Requests : Deliveries(r) \in Nat
    /\ \A c \in consumer : c.done <= Len(RefundLines(c.req))
    /\ \A r \in Requests : Waiting(r) =>
           \A p \in Products :
               Within(refunded[r][p], Deliveries(r), asked[r], topic[r],
                      Units(RefundLines(r), p), 0)
    /\ \A c \in consumer : \A p \in Products :
           Within(refunded[c.req][p], Deliveries(c.req), asked[c.req], topic[c.req],
                  Units(RefundLines(c.req), p), Back(c, p))

LEMMA Times ==
    /\ \A d, e, u \in Nat : d <= e => d * u <= e * u
    /\ \A d, u \in Nat : d * u \in Nat /\ (d + 1) * u = d * u + u
    /\ \A d, e, u \in Nat : (d + e) * u = d * u + e * u
    /\ \A d \in Nat : d * 0 = 0 /\ 0 * d = 0
<1>1. \A d, e, u \in Nat : d <= e => d * u <= e * u
  OBVIOUS
<1>2. \A d, u \in Nat : d * u \in Nat /\ (d + 1) * u = d * u + u
  OBVIOUS
<1>3. \A d, e, u \in Nat : (d + e) * u = d * u + e * u
  OBVIOUS
<1> QED
  BY <1>1, <1>2, <1>3

(* More deliveries, and events that are written or published once more. *)
LEMMA WithinGrows ==
    ASSUME NEW n \in Nat, NEW d \in Nat, NEW a \in Nat, NEW t \in Nat, NEW u \in Nat, NEW b \in Nat,
           NEW e \in Nat, NEW j \in Nat, NEW k \in Nat,
           Within(n, d, a, t, u, b), d <= e, j <= k
    PROVE  Within(n, e, a + j, t + k, u, b) /\ Within(n, e, a, t, u, b)
<1>1. d * u <= e * u /\ j * u <= k * u
  BY Times
<1>2. (a + j) * u = a * u + j * u /\ (t + k) * u = t * u + k * u
  BY Times
<1>3. \A x \in {d, e, a, t, j, k} : x * u \in Nat
  BY Times
<1> DEFINE du == d * u
<1> DEFINE eu == e * u
<1> DEFINE au == a * u
<1> DEFINE tu == t * u
<1> DEFINE ju == j * u
<1> DEFINE ku == k * u
<1>4. n <= du + b /\ au + b <= n + tu /\ du <= eu /\ ju <= ku
  BY <1>1 DEF Within
<1>5. du \in Nat /\ eu \in Nat /\ au \in Nat /\ tu \in Nat /\ ju \in Nat /\ ku \in Nat
  BY <1>3
<1> HIDE DEF du, eu, au, tu, ju, ku
<1>6. n <= eu + b /\ au + b <= n + tu /\ (au + ju) + b <= n + (tu + ku)
  BY <1>4, <1>5
<1> QED
  BY <1>2, <1>6 DEF Within, du, eu, au, tu, ju, ku

(* The delivery under way puts i units more back. *)
LEMMA WithinLine ==
    ASSUME NEW n \in Nat, NEW d \in Nat, NEW a \in Nat, NEW t \in Nat, NEW u \in Nat, NEW b \in Nat,
           NEW i \in Nat, Within(n, d, a, t, u, b)
    PROVE  Within(n + i, d, a, t, u, i + b)
<1> DEFINE du == d * u
<1> DEFINE au == a * u
<1> DEFINE tu == t * u
<1>1. du \in Nat /\ au \in Nat /\ tu \in Nat
  BY Times
<1>2. n <= du + b /\ au + b <= n + tu
  BY DEF Within
<1> HIDE DEF du, au, tu
<1>3. n + i <= du + (i + b) /\ au + (i + b) <= (n + i) + tu
  BY <1>1, <1>2
<1> QED
  BY <1>3 DEF Within, du, au, tu

(* A delivery ends: broken off, or complete with its event gone. *)
LEMMA WithinEnds ==
    ASSUME NEW n \in Nat, NEW d \in Nat, NEW a \in Nat, NEW t \in Nat, NEW u \in Nat, NEW b \in Nat,
           Within(n, d, a, t, u, b), b <= u
    PROVE  /\ Within(n, d + 1, a, t, u, 0)
           /\ b = u /\ t > 0 => Within(n, d + 1, a, t - 1, u, 0)
<1> DEFINE du == d * u
<1> DEFINE au == a * u
<1> DEFINE tu == t * u
<1> DEFINE lu == (t - 1) * u
<1>1. du \in Nat /\ au \in Nat /\ tu \in Nat /\ (d + 1) * u = du + u
  BY Times
<1>2. t > 0 => lu \in Nat /\ tu = lu + u
  <2> SUFFICES ASSUME t > 0 PROVE lu \in Nat /\ tu = lu + u
    OBVIOUS
  <2>1. t - 1 \in Nat /\ (t - 1) + 1 = t
    OBVIOUS
  <2> QED
    BY <2>1, Times
<1>3. n <= du + b /\ au + b <= n + tu
  BY DEF Within
<1> HIDE DEF du, au, tu, lu
<1>4. n <= (du + u) + 0 /\ au + 0 <= n + tu
  BY <1>1, <1>3
<1>5. b = u /\ t > 0 => n <= (du + u) + 0 /\ au + 0 <= n + lu
  BY <1>1, <1>2, <1>3
<1> QED
  BY <1>1, <1>4, <1>5 DEF Within, du, au, tu, lu

LEMMA CountsType ==
    ASSUME TypeOK, RefundInv, NEW r \in Requests
    PROVE  /\ asked[r] \in Nat /\ topic[r] \in Nat /\ faults \in Nat /\ Deliveries(r) \in Nat
           /\ \A p \in Products : refunded[r][p] \in Nat
           /\ \A p : Units(RefundLines(r), p) \in Nat
BY OrdersType DEF TypeOK, RefundInv

LEMMA ConsumerType ==
    ASSUME TypeOK, RefundInv, NEW c \in consumer
    PROVE  /\ c.req \in Requests /\ c.done \in Nat
           /\ \A p : Back(c, p) \in Nat /\ Back(c, p) <= Units(RefundLines(c.req), p)
<1>1. c.req \in Requests /\ c.done \in Nat
  BY DEF TypeOK
<1>2. /\ RefundLines(c.req) \in Seq(Line)
      /\ c.done \in 0 .. Len(RefundLines(c.req))
      /\ Len(RefundLines(c.req)) \in 0 .. Len(RefundLines(c.req))
  BY <1>1, OrdersType DEF RefundInv
<1> QED
  BY <1>1, <1>2, UnitsGrow DEF Back, Units

LEMMA AskedStep ==
    ASSUME TypeOK, ConsumerInv, AskedInv, [Next]_vars
    PROVE  AskedInv'
<1>1. ASSUME NEW r \in Requests, Begin(r) PROVE AskedInv'
  <2>1. /\ stage' = [stage EXCEPT ![r] = "open"] /\ stage[r] = "idle"
        /\ UNCHANGED <<asked, topic>>
    BY <1>1 DEF Begin, refunds
  <2> QED
    BY <2>1 DEF AskedInv, TypeOK
<1>2. ASSUME NEW r \in Requests, Reject(r) \/ Fail(r) \/ Commit(r) \/ CommitLost(r)
      PROVE  AskedInv'
  <2>1. UNCHANGED <<asked, topic>>
    BY <1>2 DEF Reject, Fail, Commit, CommitLost, Rollback, Apply, refunds
  <2>2. PICK outcome \in {"reserved", "rejected", "lost"} :
            stage' = [stage EXCEPT ![r] = outcome]
    BY <1>2 DEF Reject, Fail, Commit, CommitLost, Rollback
  <2> QED
    BY <2>1, <2>2 DEF AskedInv, TypeOK
<1>3. ASSUME NEW r \in Requests, Decrement(r) PROVE AskedInv'
  BY <1>3 DEF Decrement, refunds, AskedInv
<1>4. ASSUME NEW r \in Requests, RequestRefund(r) PROVE AskedInv'
  BY <1>4 DEF RequestRefund, MayAsk, txns, AskedInv, TypeOK
<1>5. ASSUME NEW r \in Requests, Duplicate(r) \/ Consume(r) PROVE AskedInv'
  BY <1>5 DEF Duplicate, Consume, txns, AskedInv, TypeOK
<1>6. ASSUME NEW c \in consumer, Increment(c) PROVE AskedInv'
  BY <1>6 DEF Increment, AskedInv
<1>7. ASSUME NEW c \in consumer, Acknowledge(c) \/ Redeliver(c) PROVE AskedInv'
  <2>1. c.req \in Requests /\ topic[c.req] > 0
    BY DEF TypeOK, ConsumerInv
  <2>2. asked[c.req] # 0
    BY <2>1 DEF AskedInv
  <2>3. UNCHANGED <<stage, asked>> /\ (topic' = topic \/ topic' = [topic EXCEPT ![c.req] = @ - 1])
    BY <1>7 DEF Acknowledge, Redeliver, txns
  <2> QED
    BY <2>1, <2>2, <2>3 DEF AskedInv, TypeOK
<1>8. CASE UNCHANGED vars
  BY <1>8 DEF vars, txns, refunds, AskedInv
<1>9. CASE Next
  BY <1>1, <1>2, <1>3, <1>4, <1>5, <1>6, <1>7, <1>9 DEF Next
<1> QED
  BY <1>8, <1>9

(* A step that gives nothing back: the order of a request may come to be    *)
(* refundable, as long as its refund has not been asked for.                *)
LEMMA KeepRefunds ==
    ASSUME TypeOK, TypeOK', AskedInv, ConsumerInv, RefundInv,
           UNCHANGED <<refunded, consumer>>,
           \A r \in Requests : Deliveries(r)' \in Nat /\ Deliveries(r) <= Deliveries(r)',
           \A r \in Requests : \E j, k \in 0 .. 1 :
               j <= k /\ asked'[r] = asked[r] + j /\ topic'[r] = topic[r] + k,
           \A r \in Requests : \/ RefundLines(r)' = RefundLines(r)
                               \/ RefundLines(r) = <<>> /\ asked'[r] = 0
    PROVE  RefundInv'
<1>1. \A c \in consumer : asked'[c.req] # 0 /\ c.req \in Requests
  <2> SUFFICES ASSUME NEW c \in consumer PROVE asked'[c.req] # 0 /\ c.req \in Requests
    OBVIOUS
  <2>1. c.req \in Requests /\ topic[c.req] > 0
    BY DEF ConsumerInv, TypeOK
  <2>2. asked[c.req] # 0 /\ asked[c.req] \in Nat
    BY <2>1, CountsType DEF AskedInv
  <2> QED
    BY <2>1, <2>2
<1>2. \A r : RefundLines(r)' = RefundLines(r) =>
          \A p : Units(RefundLines(r), p)' = Units(RefundLines(r), p)
  BY DEF Units
<1>3. ASSUME NEW r \in Requests, NEW p \in Products, NEW b \in Nat,
             RefundLines(r)' = RefundLines(r),
             Within(refunded[r][p], Deliveries(r), asked[r], topic[r],
                    Units(RefundLines(r), p), b)
      PROVE  Within(refunded'[r][p], Deliveries(r)', asked'[r], topic'[r],
                    Units(RefundLines(r), p)', b)
  <2>1. PICK j, k \in 0 .. 1 : j <= k /\ asked'[r] = asked[r] + j /\ topic'[r] = topic[r] + k
    OBVIOUS
  <2>0. j \in Nat /\ k \in Nat
    OBVIOUS
  <2> DEFINE n == refunded[r][p]
  <2> DEFINE u == Units(RefundLines(r), p)
  <2> DEFINE d == Deliveries(r)
  <2> DEFINE e == Deliveries(r)'
  <2>2. n \in Nat /\ u \in Nat /\ d \in Nat /\ asked[r] \in Nat /\ topic[r] \in Nat
    BY CountsType
  <2>3. e \in Nat /\ d <= e /\ Within(n, d, asked[r], topic[r], u, b)
    BY <1>3
  <2>4. refunded'[r][p] = n /\ Units(RefundLines(r), p)' = u
    BY <1>2, <1>3
  <2> HIDE DEF n, u, d, e
  <2>5. Within(n, e, asked[r] + j, topic[r] + k, u, b)
    BY <2>0, <2>1, <2>2, <2>3, WithinGrows
  <2> QED
    BY <2>1, <2>4, <2>5 DEF e
<1>4. ASSUME NEW r \in Requests, NEW p \in Products, Waiting(r),
             RefundLines(r) = <<>>, asked'[r] = 0
      PROVE  Within(refunded'[r][p], Deliveries(r)', asked'[r], topic'[r],
                    Units(RefundLines(r), p)', 0)
  <2> DEFINE n == refunded[r][p]
  <2> DEFINE v == Units(RefundLines(r), p)'
  <2> DEFINE e == Deliveries(r)'
  <2>1. n \in Nat /\ Deliveries(r) \in Nat /\ Deliveries(r) * 0 = 0
    BY CountsType, Times
  <2>2. n <= Deliveries(r) * Units(RefundLines(r), p) + 0
    BY <1>4 DEF RefundInv, Within
  <2>3. Units(RefundLines(r), p) = 0
    BY <1>4, UnitsType
  <2>4. n = 0
    <3>1. n <= 0 + 0
      BY <2>1, <2>2, <2>3
    <3> HIDE DEF n
    <3> QED
      BY <2>1, <3>1
  <2>5. v \in Nat
    <3>1. items'[r] \in Seq(Line)
      BY UnitsType DEF TypeOK
    <3>2. RefundLines(r)' \in Seq(Line)
      BY <3>1, UnitsType DEF RefundLines
    <3> QED
      BY <3>2, UnitsType DEF Units
  <2>6. e \in Nat /\ topic'[r] \in Nat /\ refunded'[r][p] = n
    BY DEF TypeOK
  <2> HIDE DEF n, v, e
  <2>7. e * v \in Nat /\ topic'[r] * v \in Nat /\ 0 * v = 0
    BY <2>5, <2>6, Times
  <2>8. Within(n, e, 0, topic'[r], v, 0)
    BY <2>4, <2>7 DEF Within
  <2> QED
    BY <1>4, <2>6, <2>8 DEF e, v
<1>5. ASSUME NEW r \in Requests, Waiting(r)', NEW p \in Products
      PROVE  Within(refunded'[r][p], Deliveries(r)', asked'[r], topic'[r],
                    Units(RefundLines(r), p)', 0)
  <2>1. Waiting(r)
    BY <1>5 DEF Waiting
  <2>2. Within(refunded[r][p], Deliveries(r), asked[r], topic[r], Units(RefundLines(r), p), 0)
    BY <2>1 DEF RefundInv
  <2> QED
    BY <1>3, <1>4, <2>1, <2>2
<1>6. ASSUME NEW c \in consumer
      PROVE  /\ c.done <= Len(RefundLines(c.req))'
             /\ \A p \in Products :
                    Within(refunded'[c.req][p], Deliveries(c.req)', asked'[c.req], topic'[c.req],
                           Units(RefundLines(c.req), p)', Back(c, p)')
  <2>1. RefundLines(c.req)' = RefundLines(c.req) /\ c.req \in Requests
    BY <1>1
  <2>2. c.done <= Len(RefundLines(c.req))'
    BY <2>1 DEF RefundInv
  <2>3. ASSUME NEW p \in Products
        PROVE  Within(refunded'[c.req][p], Deliveries(c.req)', asked'[c.req], topic'[c.req],
                      Units(RefundLines(c.req), p)', Back(c, p))
    <3>1. Back(c, p) \in Nat
      BY ConsumerType
    <3>2. Within(refunded[c.req][p], Deliveries(c.req), asked[c.req], topic[c.req],
                 Units(RefundLines(c.req), p), Back(c, p))
      BY DEF RefundInv
    <3> QED
      BY <1>3, <2>1, <3>1, <3>2
  <2>4. \A p : Back(c, p)' = Back(c, p)
    BY <2>1 DEF Back
  <2> QED
    BY <2>2, <2>3, <2>4
<1> QED
  BY <1>5, <1>6 DEF RefundInv

LEMMA ReservationRefunds ==
    ASSUME TypeOK, TypeOK', AskedInv, ConsumerInv, RefundInv, NEW r \in Requests,
           \/ Begin(r) \/ Decrement(r) \/ Reject(r) \/ Fail(r) \/ Commit(r) \/ CommitLost(r)
    PROVE  RefundInv'
<1>1. UNCHANGED <<topic, asked, consumer, refunded>>
  BY DEF Begin, Decrement, Reject, Fail, Commit, CommitLost, Rollback, Apply, refunds
<1>2. faults' = faults \/ faults' = faults + 1
  BY DEF Begin, Decrement, Reject, Fail, Commit, CommitLost, Fault
<1>3. ASSUME NEW q \in Requests
      PROVE  /\ Deliveries(q)' \in Nat /\ Deliveries(q) <= Deliveries(q)'
             /\ asked'[q] = asked[q] + 0 /\ topic'[q] = topic[q] + 0
  <2>1. Deliveries(q) \in Nat /\ topic[q] \in Nat /\ asked[q] \in Nat /\ faults \in Nat
    BY CountsType
  <2>2. topic'[q] = topic[q] /\ asked'[q] = asked[q]
    BY <1>1
  <2> QED
    BY <1>2, <2>1, <2>2 DEF Deliveries
<1>4. asked[r] = 0 /\ stage[r] # "reserved"
  <2>1. stage[r] \in {"idle", "open"}
    BY DEF Begin, Decrement, Reject, Fail, Commit, CommitLost, HasLine, Apply
  <2>2. asked[r] \in Nat
    BY CountsType
  <2> QED
    BY <2>1, <2>2 DEF AskedInv
<1>5. \A q \in Requests \ {r} : RefundLines(q)' = RefundLines(q)
  <2>1. PICK s : stage' = [stage EXCEPT ![r] = s]
    <3>1. stage' = [stage EXCEPT ![r] = stage[r]] \/ \E s : stage' = [stage EXCEPT ![r] = s]
      BY DEF Begin, Decrement, Reject, Fail, Commit, CommitLost, Rollback, TypeOK
    <3> QED
      BY <3>1
  <2>2. items' = items \/ \E cart : items' = [items EXCEPT ![r] = cart]
    BY DEF Begin, Decrement, Reject, Fail, Commit, CommitLost, Rollback, Apply
  <2> QED
    BY <2>1, <2>2 DEF RefundLines, TypeOK
<1>6. RefundLines(r) = <<>> /\ asked'[r] = 0
  BY <1>1, <1>4 DEF RefundLines
<1>7. \A q \in Requests : \E j, k \in 0 .. 1 :
          j <= k /\ asked'[q] = asked[q] + j /\ topic'[q] = topic[q] + k
  BY <1>3
<1> QED
  BY <1>1, <1>3, <1>5, <1>6, <1>7, KeepRefunds

LEMMA TopicRefunds ==
    ASSUME TypeOK, TypeOK', AskedInv, ConsumerInv, RefundInv, NEW r \in Requests,
           RequestRefund(r) \/ Duplicate(r)
    PROVE  RefundInv'
<1>1. /\ UNCHANGED <<stage, items, consumer, refunded>>
      /\ topic' = [topic EXCEPT ![r] = @ + 1]
      /\ \/ asked' = [asked EXCEPT ![r] = @ + 1] /\ faults' = faults
         \/ asked' = asked /\ faults' = faults + 1
  BY DEF RequestRefund, MayAsk, Duplicate, Fault, txns
<1>2. ASSUME NEW q \in Requests
      PROVE  /\ Deliveries(q)' \in Nat /\ Deliveries(q) <= Deliveries(q)'
             /\ \E j, k \in 0 .. 1 :
                    j <= k /\ asked'[q] = asked[q] + j /\ topic'[q] = topic[q] + k
  <2>1. Deliveries(q) \in Nat /\ topic[q] \in Nat /\ asked[q] \in Nat /\ faults \in Nat
    BY CountsType
  <2>2. CASE q = r
    <3>1. /\ topic'[q] = topic[q] + 1
          /\ \/ asked'[q] = asked[q] + 1 /\ faults' = faults
             \/ asked'[q] = asked[q] + 0 /\ faults' = faults + 1
      BY <1>1, <2>1, <2>2 DEF TypeOK
    <3> QED
      BY <2>1, <3>1 DEF Deliveries
  <2>3. CASE q # r
    <3>1. topic'[q] = topic[q] + 0 /\ asked'[q] = asked[q] + 0
          /\ (faults' = faults \/ faults' = faults + 1)
      BY <1>1, <2>1, <2>3 DEF TypeOK
    <3> QED
      BY <2>1, <3>1 DEF Deliveries
  <2> QED
    BY <2>2, <2>3
<1>3. \A q : RefundLines(q)' = RefundLines(q)
  BY <1>1 DEF RefundLines
<1> QED
  BY <1>1, <1>2, <1>3, KeepRefunds

(* A delivery begins with nothing put back. *)
LEMMA ConsumeRefunds ==
    ASSUME TypeOK, RefundInv, NEW r \in Requests, Consume(r)
    PROVE  RefundInv'
<1> DEFINE d == [req |-> r, done |-> 0]
<1>1. /\ consumer = {} /\ consumer' = {d}
      /\ UNCHANGED <<stage, items, topic, asked, refunded, faults>>
  BY DEF Consume, txns
<1>2. \A q : /\ RefundLines(q)' = RefundLines(q)
             /\ Deliveries(q)' = Deliveries(q)
             /\ \A p : Units(RefundLines(q), p)' = Units(RefundLines(q), p)
  BY <1>1 DEF RefundLines, Deliveries, Units
<1>3. ASSUME NEW p \in Products PROVE Back(d, p)' = 0
  <2>1. Back(d, p)' = UnitsOfFirst(0, RefundLines(r), p)
    BY <1>2 DEF Back
  <2> QED
    BY <2>1, OrdersType, UnitsAddUp
<1>4. 0 <= Len(RefundLines(r))
  BY OrdersType
<1>5. \A q \in Requests, p \in Products :
          Within(refunded[q][p], Deliveries(q), asked[q], topic[q], Units(RefundLines(q), p), 0)
  BY <1>1 DEF RefundInv, Waiting
<1>6. ASSUME NEW c \in consumer'
      PROVE  /\ c.done <= Len(RefundLines(c.req))'
             /\ \A p \in Products :
                    Within(refunded'[c.req][p], Deliveries(c.req)', asked'[c.req], topic'[c.req],
                           Units(RefundLines(c.req), p)', Back(c, p)')
  <2>1. c = d /\ c.req = r /\ c.done = 0
    BY <1>1
  <2> HIDE DEF d
  <2> QED
    BY <1>1, <1>2, <1>3, <1>4, <1>5, <2>1
<1>7. \A q \in Requests, p \in Products :
          Within(refunded'[q][p], Deliveries(q)', asked'[q], topic'[q],
                 Units(RefundLines(q), p)', 0)
  BY <1>1, <1>2, <1>5
<1>8. \A q \in Requests : Deliveries(q)' \in Nat
  BY <1>2 DEF RefundInv
<1> QED
  BY <1>6, <1>7, <1>8 DEF RefundInv

(* A line of a delivery adds the same to both counts. *)
LEMMA IncrementRefunds ==
    ASSUME IInv, RefundInv, NEW c \in consumer, Increment(c)
    PROVE  RefundInv'
<1> USE DEF IInv
<1> DEFINE r == c.req
<1> DEFINE d == [req |-> c.req, done |-> c.done + 1]
<1> DEFINE l == items[r][c.done + 1]
<1>1. /\ r \in Requests /\ c.done \in Nat /\ stage[r] = "reserved"
      /\ c.done + 1 \in 1 .. Len(items[r])
      /\ l.product \in Products /\ l.quantity \in Nat
      /\ refunded' = [refunded EXCEPT ![r][l.product] = @ + l.quantity]
  <2>1. /\ r \in Requests /\ c.done \in Nat /\ stage[r] = "reserved"
        /\ c.done + 1 \in 1 .. Len(items[r])
    BY IncrementReturns
  <2>2. /\ l.product \in Products
        /\ l.quantity \in 1 .. Units(items[r], l.product)
        /\ refunded' = [refunded EXCEPT ![r][l.product] = @ + l.quantity]
    BY IncrementReturns
  <2> HIDE DEF r, l
  <2> QED
    BY <2>1, <2>2
<1>2. /\ consumer' = {d} /\ consumer = {c}
      /\ UNCHANGED <<stage, items, topic, asked, faults>>
  BY DEF Increment, ConsumerInv
<1>3. RefundLines(r) = items[r] /\ items[r] \in Seq(Line) /\ Len(items[r]) \in Nat
  BY <1>1, OrdersType DEF RefundLines
<1>4. \A q : /\ RefundLines(q)' = RefundLines(q)
             /\ Deliveries(q)' = Deliveries(q)
             /\ \A p : Units(RefundLines(q), p)' = Units(RefundLines(q), p)
  BY <1>2 DEF RefundLines, Deliveries, Units
<1>5. ASSUME NEW p PROVE Back(d, p)' = OfLine(l, p) + Back(c, p) /\ OfLine(l, p) \in Nat
  <2>1. c.done \in 0 .. Len(items[r]) - 1
    BY <1>1, <1>3
  <2>2. /\ UnitsOfFirst(c.done + 1, items[r], p)
             = OfLine(l, p) + UnitsOfFirst(c.done, items[r], p)
        /\ OfLine(l, p) \in Nat
    BY <1>1, <1>3, <2>1, UnitsAddUp
  <2>3. RefundLines(d.req)' = items[r] /\ d.done = c.done + 1
    BY <1>3, <1>4
  <2> QED
    BY <1>3, <2>2, <2>3 DEF Back
<1>6. ASSUME NEW p \in Products PROVE refunded'[r][p] = refunded[r][p] + OfLine(l, p)
  <2> HIDE DEF r, l
  <2>1. refunded[r] \in [Products -> Nat]
    BY <1>1 DEF TypeOK
  <2>2. refunded'[r] = [refunded[r] EXCEPT ![l.product] = @ + l.quantity]
    BY <1>1 DEF TypeOK
  <2> QED
    BY <1>1, <2>1, <2>2 DEF OfLine
<1>7. \A q \in Requests \ {r} : refunded'[q] = refunded[q]
  BY <1>1 DEF TypeOK
<1> HIDE DEF l
<1>8. ASSUME NEW p \in Products
      PROVE  Within(refunded'[r][p], Deliveries(r), asked[r], topic[r],
                    Units(RefundLines(r), p), Back(d, p)')
  <2> DEFINE n == refunded[r][p]
  <2> DEFINE i == OfLine(l, p)
  <2> DEFINE u == Units(RefundLines(r), p)
  <2> DEFINE b == Back(c, p)
  <2> DEFINE k == Deliveries(r)
  <2>1. Within(n, k, asked[r], topic[r], u, b)
    BY DEF RefundInv
  <2>2. n \in Nat /\ u \in Nat /\ k \in Nat /\ asked[r] \in Nat /\ topic[r] \in Nat
    BY <1>1, CountsType
  <2>3. b \in Nat
    BY ConsumerType
  <2>4. i \in Nat /\ Back(d, p)' = i + b /\ refunded'[r][p] = n + i
    BY <1>5, <1>6
  <2> HIDE DEF n, i, u, b, k
  <2>5. Within(n + i, k, asked[r], topic[r], u, i + b)
    BY <2>1, <2>2, <2>3, <2>4, WithinLine
  <2> QED
    BY <2>4, <2>5 DEF k, u
<1>9. ASSUME NEW q \in Requests, Waiting(q)', NEW p \in Products
      PROVE  Within(refunded'[q][p], Deliveries(q)', asked'[q], topic'[q],
                    Units(RefundLines(q), p)', 0)
  <2>1. q # r /\ Waiting(q)
    BY <1>2, <1>9 DEF Waiting
  <2>2. refunded'[q] = refunded[q]
    BY <1>7, <2>1
  <2>3. Within(refunded[q][p], Deliveries(q), asked[q], topic[q], Units(RefundLines(q), p), 0)
    BY <2>1 DEF RefundInv
  <2> QED
    BY <1>2, <1>4, <2>2, <2>3
<1>10. ASSUME NEW e \in consumer'
       PROVE  /\ e.done <= Len(RefundLines(e.req))'
              /\ \A p \in Products :
                    Within(refunded'[e.req][p], Deliveries(e.req)', asked'[e.req], topic'[e.req],
                           Units(RefundLines(e.req), p)', Back(e, p)')
  <2>1. e = d /\ d.req = r /\ d.done = c.done + 1
    BY <1>2
  <2>2. c.done + 1 <= Len(RefundLines(r))
    BY <1>1, <1>3
  <2> HIDE DEF d
  <2> QED
    BY <1>2, <1>4, <1>8, <2>1, <2>2
<1>11. \A q \in Requests : Deliveries(q)' \in Nat
  BY <1>4 DEF RefundInv
<1> QED
  BY <1>9, <1>10, <1>11 DEF RefundInv

(* A delivery ends: acknowledged it has put everything back, and broken off *)
(* it has put back no more than that.                                       *)
LEMMA ReturnRefunds ==
    ASSUME IInv, RefundInv, NEW c \in consumer, Acknowledge(c) \/ Redeliver(c)
    PROVE  RefundInv'
<1> USE DEF IInv
<1>0. PICK r \in Requests : r = c.req
  BY DEF TypeOK
<1>1. r \in Requests /\ topic[r] > 0
  BY <1>0 DEF ConsumerInv
<1>2. consumer' = {} /\ consumer = {c} /\ UNCHANGED <<stage, items, asked, refunded>>
  BY DEF Acknowledge, Redeliver, ConsumerInv, txns
<1>3. \/ /\ c.done = Len(RefundLines(r))
         /\ topic' = [topic EXCEPT ![r] = @ - 1] /\ faults' = faults
      \/ topic' = topic /\ faults' = faults + 1
  BY <1>0 DEF Acknowledge, Redeliver, Fault
<1>4. \A q : /\ RefundLines(q)' = RefundLines(q)
             /\ \A p : Units(RefundLines(q), p)' = Units(RefundLines(q), p)
  BY <1>2 DEF RefundLines, Units
<1>5. Deliveries(r)' = Deliveries(r) + 1
      /\ \/ c.done = Len(RefundLines(r)) /\ topic'[r] = topic[r] - 1
         \/ topic'[r] = topic[r]
  <2>1. topic[r] \in Nat /\ asked[r] \in Nat /\ faults \in Nat /\ asked'[r] = asked[r]
    BY <1>1, <1>2, CountsType
  <2>2. \/ /\ c.done = Len(RefundLines(r))
           /\ topic'[r] = topic[r] - 1 /\ faults' = faults
        \/ topic'[r] = topic[r] /\ faults' = faults + 1
    BY <1>1, <1>3 DEF TypeOK
  <2> QED
    BY <2>1, <2>2 DEF Deliveries
<1>6. ASSUME NEW p \in Products
      PROVE  Within(refunded[r][p], Deliveries(r)', asked[r], topic'[r],
                    Units(RefundLines(r), p), 0)
  <2> DEFINE n == refunded[r][p]
  <2> DEFINE u == Units(RefundLines(r), p)
  <2> DEFINE b == Back(c, p)
  <2> DEFINE d == Deliveries(r)
  <2>1. Within(n, d, asked[r], topic[r], u, b)
    BY <1>0 DEF RefundInv
  <2>2. n \in Nat /\ d \in Nat /\ u \in Nat /\ asked[r] \in Nat /\ topic[r] \in Nat
    BY <1>1, CountsType
  <2>3. b \in Nat /\ b <= u
    BY <1>0, ConsumerType
  <2>4. c.done = Len(RefundLines(r)) => b = u
    BY <1>0 DEF Back, Units
  <2> HIDE DEF n, u, b, d
  <2>5. /\ Within(n, d + 1, asked[r], topic[r], u, 0)
        /\ b = u => Within(n, d + 1, asked[r], topic[r] - 1, u, 0)
    BY <1>1, <2>1, <2>2, <2>3, WithinEnds
  <2>6. Within(n, d + 1, asked[r], topic'[r], u, 0)
    BY <1>5, <2>4, <2>5
  <2>7. Deliveries(r)' = d + 1
    BY <1>5 DEF d
  <2> QED
    BY <2>6, <2>7 DEF n, u
<1>7. ASSUME NEW q \in Requests \ {r}
      PROVE  /\ topic'[q] = topic[q]
             /\ Deliveries(q)' \in Nat /\ Deliveries(q) <= Deliveries(q)'
  <2>1. /\ topic[q] \in Nat /\ asked[q] \in Nat /\ faults \in Nat
        /\ Deliveries(q) \in Nat /\ asked'[q] = asked[q]
    BY <1>2, CountsType
  <2>2. topic'[q] = topic[q] /\ (faults' = faults \/ faults' = faults + 1)
    BY <1>1, <1>3 DEF TypeOK
  <2> QED
    BY <2>1, <2>2 DEF Deliveries
<1>8. ASSUME NEW q \in Requests \ {r}, NEW p \in Products
      PROVE  Within(refunded[q][p], Deliveries(q)', asked[q], topic'[q],
                    Units(RefundLines(q), p), 0)
  <2> DEFINE n == refunded[q][p]
  <2> DEFINE u == Units(RefundLines(q), p)
  <2> DEFINE d == Deliveries(q)
  <2> DEFINE e == Deliveries(q)'
  <2>1. Waiting(q)
    BY <1>0, <1>2 DEF Waiting
  <2>2. Within(n, d, asked[q], topic[q], u, 0)
    BY <2>1 DEF RefundInv
  <2>3. n \in Nat /\ u \in Nat /\ d \in Nat /\ asked[q] \in Nat /\ topic[q] \in Nat
    BY CountsType
  <2>4. e \in Nat /\ d <= e /\ topic'[q] = topic[q]
    BY <1>7
  <2> HIDE DEF n, u, d, e
  <2>5. Within(n, e, asked[q], topic[q], u, 0)
    BY <2>2, <2>3, <2>4, WithinGrows
  <2> QED
    BY <2>4, <2>5 DEF n, e, u
<1>9. ASSUME NEW q \in Requests PROVE Deliveries(q)' \in Nat
  <2>1. Deliveries(q) \in Nat
    BY CountsType
  <2> QED
    BY <1>5, <1>7, <2>1
<1>10. \A q \in Requests : \A p \in Products :
           Within(refunded[q][p], Deliveries(q)', asked[q], topic'[q], Units(RefundLines(q), p), 0)
  BY <1>6, <1>8
<1>11. \A q \in Requests : \A p \in Products :
           Within(refunded'[q][p], Deliveries(q)', asked'[q], topic'[q],
                  Units(RefundLines(q), p)', 0)
  BY <1>2, <1>4, <1>10
<1> QED
  BY <1>2, <1>9, <1>11 DEF RefundInv

LEMMA RefundStep ==
    ASSUME IInv, TypeOK', AskedInv, RefundInv, [Next]_vars
    PROVE  RefundInv'
<1> USE DEF IInv
<1>1. CASE UNCHANGED vars
  <2>1. UNCHANGED <<stage, items, topic, asked, consumer, refunded, faults>>
    BY <1>1 DEF vars, txns, refunds
  <2>2. \A q : RefundLines(q)' = RefundLines(q)
               /\ Deliveries(q)' = Deliveries(q) /\ (Waiting(q)' <=> Waiting(q))
    BY <2>1 DEF RefundLines, Deliveries, Waiting
  <2>3. \A q, p : Units(RefundLines(q), p)' = Units(RefundLines(q), p)
    BY <2>2 DEF Units
  <2>4. \A c, p : Back(c, p)' = Back(c, p)
    BY <2>2 DEF Back
  <2> QED
    BY <2>1, <2>2, <2>3, <2>4 DEF RefundInv
<1>2. CASE Next
  BY <1>2, ReservationRefunds, TopicRefunds, ConsumeRefunds, IncrementRefunds, ReturnRefunds
  DEF Next
<1> QED
  BY <1>1, <1>2

-----------------------------------------------------------------------------
(* Conservation.                                                           *)

(* What r keeps of the units of p. *)
Kept(p) == [r \in Requests |-> Units(items[r], p) - refunded[r][p]]

ConservationInv == IsFiniteSet(Charged) /\ Conservation

LEMMA KeptType == ASSUME TypeOK, NEW p \in Products PROVE \A r \in Requests : Kept(p)[r] \in Int
<1> SUFFICES ASSUME NEW r \in Requests PROVE Units(items[r], p) - refunded[r][p] \in Int
  BY DEF Kept
<1>1. Units(items[r], p) \in Nat /\ refunded[r][p] \in Nat
  BY OrdersType DEF TypeOK
<1> QED
  BY <1>1

LEMMA CommitConserves ==
    ASSUME IInv, IInv', SessionUnits, AskedInv, RefundInv, ConservationInv,
           NEW r \in Requests, Commit(r) \/ CommitLost(r)
    PROVE  ConservationInv'
<1> USE DEF IInv
<1>1. /\ r \notin Charged /\ Charged' = Charged \cup {r} /\ r \in Open
      /\ inStock' = [p \in Products |-> inStock[p] - Units(items[r], p)]
      /\ UNCHANGED <<items, refunded>>
  BY CommitMoves
<1>2. IsFiniteSet(Charged')
  BY <1>1, FS_AddElement DEF ConservationInv
<1>3. ASSUME NEW p \in Products PROVE refunded[r][p] = 0
  <2>1. asked[r] = 0 /\ RefundLines(r) = <<>>
    <3>1. asked[r] \in Nat /\ stage[r] = "open"
      BY <1>1 DEF TypeOK, Open
    <3> QED
      BY <3>1 DEF AskedInv, RefundLines
  <2>2. Waiting(r)
    BY <2>1 DEF Waiting, ConsumerInv, AskedInv
  <2>3. refunded[r][p] <= Deliveries(r) * Units(RefundLines(r), p) + 0
    BY <2>2 DEF RefundInv, Within
  <2>4. Deliveries(r) * Units(RefundLines(r), p) = 0
    BY <2>1, UnitsType, Times DEF RefundInv
  <2>5. refunded[r][p] \in Nat
    BY DEF TypeOK
  <2> QED
    BY <2>3, <2>4, <2>5
<1>4. ASSUME NEW p \in Products
      PROVE  inStock'[p] = Initial[p] - SumFunctionOnSet(Kept(p)', Charged')
  <2> DEFINE f == Kept(p)
  <2>1. Kept(p)' = f
    BY <1>1 DEF Kept
  <2>2. \A q \in Requests : f[q] \in Int
    BY KeptType
  <2>3. f[r] = Units(items[r], p)
    <3>1. Units(items[r], p) \in Nat
      BY OrdersType
    <3> QED
      BY <1>3, <3>1 DEF Kept
  <2> HIDE DEF f
  <2>4. Charged \subseteq Requests /\ Charged' \subseteq Requests
        /\ r \in Charged' /\ Charged' \ {r} = Charged
    BY <1>1, ChargedType
  <2>5. SumFunctionOnSet(f, Charged') = f[r] + SumFunctionOnSet(f, Charged)
    BY <1>2, <2>2, <2>4, SumRemove
  <2>6. SumFunctionOnSet(f, Charged) \in Int
    BY <2>2, <2>4, SumType DEF ConservationInv
  <2>7. inStock[p] = Initial[p] - SumFunctionOnSet(f, Charged)
    BY DEF ConservationInv, Conservation, Kept, f
  <2>8. inStock'[p] = inStock[p] - f[r] /\ Initial[p] \in Int /\ f[r] \in Int
    BY <1>1, <2>2, <2>3
  <2> HIDE DEF f
  <2>9. inStock'[p] = Initial[p] - SumFunctionOnSet(f, Charged')
    BY <2>5, <2>6, <2>7, <2>8
  <2> QED
    BY <2>1, <2>9
<1> QED
  BY <1>2, <1>4 DEF ConservationInv, Conservation, Kept

LEMMA IncrementConserves ==
    ASSUME IInv, IInv', ConservationInv, NEW c \in consumer, Increment(c)
    PROVE  ConservationInv'
<1> USE DEF IInv
<1> DEFINE r == c.req
<1>1. PICK s \in Products : \E n \in 1 .. Units(items[r], s) :
         /\ inStock' = [inStock EXCEPT ![s] = @ + n]
         /\ refunded' = [refunded EXCEPT ![r][s] = @ + n]
  BY IncrementMoves
<1>2. r \in Charged /\ Charged' = Charged /\ Charged \subseteq Requests /\ items' = items
  BY IncrementMoves, ChargedType
<1> HIDE DEF r
<1>3. Units(items[r], s) \in Nat
  BY <1>2, OrdersType
<1>4. PICK n \in Nat : /\ inStock' = [inStock EXCEPT ![s] = @ + n]
                       /\ refunded' = [refunded EXCEPT ![r][s] = @ + n]
  <2>1. \A u \in Nat : \A n \in 1 .. u : n \in Nat
    OBVIOUS
  <2>2. 1 .. Units(items[r], s) \subseteq Nat
    BY <1>3, <2>1
  <2> QED
    BY <1>1, <2>2
<1>5. ASSUME NEW p \in Products
      PROVE  inStock'[p] = Initial[p] - SumFunctionOnSet(Kept(p)', Charged)
  <2> DEFINE m == IF p = s THEN n ELSE 0
  <2> DEFINE f == Kept(p)
  <2> DEFINE g == Kept(p)'
  <2>1. inStock'[p] = inStock[p] + m /\ inStock[p] \in Int /\ m \in Int /\ Initial[p] \in Int
    <3>1. inStock \in [Products -> Int] /\ Initial[p] \in Int
      BY DEF TypeOK
    <3>2. inStock' = [inStock EXCEPT ![s] = @ + n]
      BY <1>4
    <3> QED
      BY <3>1, <3>2
  <2>2. \A q \in Charged \ {r} : g[q] = f[q]
    <3>1. \A q \in Requests \ {r} : refunded'[q] = refunded[q]
      BY <1>4 DEF TypeOK
    <3> QED
      BY <1>2, <3>1 DEF Kept
  <2>3. g[r] = f[r] - m
    <3>1. refunded'[r] = [refunded[r] EXCEPT ![s] = @ + n] /\ refunded[r] \in [Products -> Nat]
      BY <1>2, <1>4 DEF TypeOK
    <3>2. refunded'[r][p] = refunded[r][p] + m /\ refunded[r][p] \in Nat
      BY <3>1
    <3>3. /\ f[r] = Units(items[r], p) - refunded[r][p]
          /\ g[r] = Units(items[r], p) - refunded'[r][p]
          /\ Units(items[r], p) \in Nat
      BY <1>2, OrdersType DEF Kept
    <3> HIDE DEF m, f, g
    <3> QED
      BY <2>1, <3>2, <3>3
  <2>4. \A q \in Charged : f[q] \in Int /\ g[q] \in Int
    <3>1. \A q \in Charged : f[q] \in Int
      BY <1>2, KeptType
    <3>2. \A q \in Charged \ {r} : g[q] \in Int
      BY <2>2, <3>1
    <3> HIDE DEF f, g, m
    <3>3. g[r] \in Int
      BY <1>2, <2>1, <2>3, <3>1
    <3> QED
      BY <3>1, <3>2, <3>3
  <2>5. inStock[p] = Initial[p] - SumFunctionOnSet(f, Charged)
    BY DEF ConservationInv, Conservation, Kept
  <2> HIDE DEF m, f, g
  <2>6. IsFiniteSet(Charged) /\ IsFiniteSet(Charged \ {r})
    BY FS_RemoveElement DEF ConservationInv
  <2>7. /\ SumFunctionOnSet(f, Charged) = f[r] + SumFunctionOnSet(f, Charged \ {r})
        /\ SumFunctionOnSet(g, Charged) = g[r] + SumFunctionOnSet(g, Charged \ {r})
    BY <1>2, <2>4, <2>6, SumRemove
  <2>8. SumFunctionOnSet(f, Charged \ {r}) = SumFunctionOnSet(g, Charged \ {r})
    BY <2>2, <2>6, SumSame
  <2>9. SumFunctionOnSet(f, Charged \ {r}) \in Int
    BY <2>4, <2>6, SumType
  <2>10. f[r] \in Int /\ g[r] \in Int
    BY <1>2, <2>4
  <2>11. inStock'[p] = Initial[p] - SumFunctionOnSet(g, Charged)
    BY <2>1, <2>3, <2>5, <2>7, <2>8, <2>9, <2>10
  <2> QED
    BY <2>11 DEF g
<1> QED
  BY <1>2, <1>5 DEF ConservationInv, Conservation, Kept

LEMMA ConservationStep ==
    ASSUME IInv, IInv', SessionUnits, AskedInv, RefundInv, ConservationInv, [Next]_vars
    PROVE  ConservationInv'
<1>1. ASSUME ~ \E r \in Requests : Commit(r) \/ CommitLost(r),
             ~ \E c \in consumer : Increment(c)
      PROVE  ConservationInv'
  <2>1. /\ UNCHANGED <<inStock, refunded>> /\ Charged' = Charged
        /\ \A q \in Charged : items'[q] = items[q]
    BY <1>1, OthersMoveNothing
  <2>2. Charged \subseteq Requests
    BY ChargedType DEF IInv
  <2>3. ASSUME NEW p \in Products
        PROVE  SumFunctionOnSet(Kept(p)', Charged) = SumFunctionOnSet(Kept(p), Charged)
    <3>1. \A q \in Charged : Kept(p)'[q] = Kept(p)[q]
      BY <2>1, <2>2 DEF Kept, Units
    <3> QED
      BY <3>1, SumSame DEF ConservationInv
  <2> QED
    BY <2>1, <2>3 DEF ConservationInv, Conservation, Kept
<1> QED
  BY <1>1, CommitConserves, IncrementConserves

-----------------------------------------------------------------------------
(* The invariant.                                                          *)

(* A reservation that has begun has the order it was called with. *)
BegunInv == \A r \in Requests : stage[r] # "idle" => items[r] \in Carts

LEMMA BegunStep == ASSUME TypeOK, BegunInv, [Next]_vars PROVE BegunInv'
<1>1. ASSUME NEW r \in Requests, Begin(r) PROVE BegunInv'
  <2>1. /\ stage' = [stage EXCEPT ![r] = "open"]
        /\ \E cart \in Carts : items' = [items EXCEPT ![r] = cart]
    BY <1>1 DEF Begin
  <2> QED
    BY <2>1 DEF BegunInv, TypeOK
<1>2. ASSUME NEW r \in Requests, Reject(r) \/ Fail(r) \/ Commit(r) \/ CommitLost(r)
      PROVE  BegunInv'
  <2>1. stage[r] = "open" /\ UNCHANGED items
    BY <1>2 DEF Reject, Fail, Commit, CommitLost, HasLine, Rollback, Apply
  <2>2. PICK s : stage' = [stage EXCEPT ![r] = s]
    BY <1>2 DEF Reject, Fail, Commit, CommitLost, Rollback
  <2> QED
    BY <2>1, <2>2 DEF BegunInv, TypeOK
<1>3. ASSUME NEW r \in Requests, Decrement(r) PROVE BegunInv'
  BY <1>3 DEF Decrement, BegunInv
<1>4. ASSUME NEW c \in consumer, Increment(c) PROVE BegunInv'
  BY <1>4 DEF Increment, BegunInv
<1>5. CASE QuietStep
  BY <1>5 DEF QuietStep, RequestRefund, Duplicate, Consume, Acknowledge, Redeliver,
              vars, txns, BegunInv
<1>6. CASE UNCHANGED vars
  BY <1>5, <1>6 DEF QuietStep
<1>7. CASE Next
  BY <1>1, <1>2, <1>3, <1>4, <1>5, <1>7 DEF Next, QuietStep
<1> QED
  BY <1>6, <1>7

UnitsInv ==
    /\ IInv
    /\ BegunInv
    /\ SessionUnits
    /\ AskedInv
    /\ RefundInv
    /\ ConservationInv

LEMMA InitUnits == Init => UnitsInv
<1> SUFFICES ASSUME Init PROVE UnitsInv
  OBVIOUS
<1>1. IInv
  BY InitIInv
<1>2. Open = {} /\ Charged = {}
  BY DEF Init, Open, Charged
<1>3. BegunInv /\ SessionUnits /\ AskedInv
  BY <1>2 DEF BegunInv, SessionUnits, AskedInv, Init
<1>4. RefundInv
  <2>1. /\ consumer = {} /\ faults = 0 /\ refunded = [q \in Requests |-> Nothing]
        /\ topic = [q \in Requests |-> 0] /\ asked = [q \in Requests |-> 0]
    BY DEF Init
  <2>2. ASSUME NEW r \in Requests PROVE Deliveries(r) = 0 /\ RefundLines(r) = <<>>
    BY <2>1 DEF Deliveries, RefundLines, Init
  <2>3. ASSUME NEW r \in Requests, NEW p \in Products
        PROVE  Within(refunded[r][p], Deliveries(r), asked[r], topic[r],
                      Units(RefundLines(r), p), 0)
    <3>1. refunded[r][p] = 0 /\ Units(RefundLines(r), p) = 0
      BY <2>1, <2>2, UnitsType DEF Nothing
    <3> QED
      BY <2>1, <2>2, <3>1 DEF Within
  <2> QED
    BY <2>1, <2>2, <2>3 DEF RefundInv
<1>5. ConservationInv
  <2>1. \A f : SumFunctionOnSet(f, Charged) = 0
    BY <1>2, FS_EmptySet, SumStep
  <2>2. \A p \in Products : inStock[p] = Initial[p] - 0
    BY DEF Init
  <2> QED
    BY <1>2, <2>1, <2>2, FS_EmptySet DEF ConservationInv, Conservation
<1> QED
  BY <1>1, <1>3, <1>4, <1>5 DEF UnitsInv

LEMMA UnitsInvariance == Spec => []UnitsInv
<1>1. UnitsInv /\ IInv' /\ [Next]_vars => UnitsInv'
  <2> SUFFICES ASSUME UnitsInv, IInv', [Next]_vars PROVE UnitsInv'
    OBVIOUS
  <2>1. BegunInv' /\ SessionUnits'
    BY BegunStep, SessionStep DEF UnitsInv, IInv
  <2>2. AskedInv'
    BY AskedStep DEF UnitsInv, IInv
  <2>3. RefundInv'
    BY RefundStep DEF UnitsInv, IInv
  <2>4. ConservationInv'
    BY ConservationStep DEF UnitsInv
  <2> QED
    BY <2>1, <2>2, <2>3, <2>4 DEF UnitsInv
<1> QED
  BY InitUnits, <1>1, Invariance, PTL DEF Spec

-----------------------------------------------------------------------------
(* The theorems.                                                           *)

(* Units are conserved through every interleaving of reservations, aborts,  *)
(* commits whose answer is lost and refunds delivered twice: what left      *)
(* in_stock is what the committed orders list, less what was put back       *)
(* (lines 129-169).                                                         *)
THEOREM StockConserved == Spec => []Conservation
BY UnitsInvariance, PTL DEF UnitsInv, ConservationInv

(* refundStock puts an order's units back at most once for every event that *)
(* order.service.ts wrote of it, however many cancellations passed its      *)
(* check, and once more per fault (lines 154-169).                          *)
THEOREM RefundsBounded == Spec => []RefundBounded
<1>1. UnitsInv => RefundBounded
  <2> SUFFICES ASSUME UnitsInv, NEW r \in Requests, NEW p \in Products
               PROVE  refunded[r][p] <= (asked[r] + faults) * Units(RefundLines(r), p)
    BY DEF RefundBounded
  <2>0. TypeOK /\ ConsumerInv /\ RefundInv
    BY DEF UnitsInv, IInv
  <2> DEFINE n == refunded[r][p]
  <2> DEFINE u == Units(RefundLines(r), p)
  <2> DEFINE d == Deliveries(r)
  <2> DEFINE m == asked[r] + faults
  <2>1. n \in Nat /\ u \in Nat /\ d \in Nat /\ m \in Nat /\ topic[r] \in Nat /\ d = m - topic[r]
    <3>1. /\ n \in Nat /\ u \in Nat /\ d \in Nat
          /\ asked[r] \in Nat /\ faults \in Nat /\ topic[r] \in Nat
      BY <2>0, CountsType
    <3>2. m \in Nat
      BY <3>1
    <3> QED
      BY <3>1, <3>2 DEF Deliveries
  <2>2. m * u \in Nat
    BY <2>1, Times
  <2>3. CASE Waiting(r)
    <3>1. n <= d * u + 0
      BY <2>0, <2>3 DEF RefundInv, Within
    <3> HIDE DEF n, u, d, m
    <3>2. d * u <= m * u /\ d * u \in Nat
      BY <2>1, Times
    <3> QED
      BY <2>1, <2>2, <3>1, <3>2 DEF n, u, m
  <2>4. CASE ~Waiting(r)
    <3>1. PICK c \in consumer : c.req = r
      BY <2>4 DEF Waiting
    <3>2. n <= d * u + Back(c, p) /\ Back(c, p) \in Nat /\ Back(c, p) <= u
      BY <2>0, <3>1, ConsumerType DEF RefundInv, Within
    <3>3. topic[r] > 0
      BY <2>0, <3>1 DEF ConsumerInv
    <3> HIDE DEF n, u, d, m
    <3>4. d + 1 <= m
      BY <2>1, <3>3
    <3> DEFINE x == d * u
    <3> DEFINE z == m * u
    <3>5. x \in Nat /\ x + u <= z
      <4>1. d + 1 \in Nat /\ (d + 1) * u = d * u + u /\ d * u \in Nat
        BY <2>1, Times
      <4>2. (d + 1) * u <= m * u
        BY <2>1, <3>4, <4>1, Times
      <4> QED
        BY <4>1, <4>2
    <3>6. n <= x + Back(c, p) /\ z \in Nat
      BY <2>2, <3>2
    <3> HIDE DEF x, z
    <3>7. n <= z
      BY <2>1, <3>2, <3>5, <3>6
    <3>8. n <= m * u
      BY <3>7 DEF z
    <3> QED
      BY <3>8 DEF n, u, m
  <2> QED
    BY <2>3, <2>4
<1> QED
  BY <1>1, UnitsInvariance, PTL

(* A refund event leaves the topic only after all its lines were put back,  *)
(* whatever deliveries of it were broken off before.                        *)
THEOREM RefundsMade == Spec => []RefundMade
<1>1. UnitsInv => RefundMade
  <2> SUFFICES ASSUME UnitsInv, NEW r \in Requests, topic[r] = 0, NEW p \in Products
               PROVE  refunded[r][p] >= asked[r] * Units(RefundLines(r), p)
    BY DEF RefundMade
  <2>1. TypeOK /\ ConsumerInv /\ RefundInv
    BY DEF UnitsInv, IInv
  <2>2. Waiting(r)
    BY <2>1 DEF Waiting, ConsumerInv
  <2> DEFINE n == refunded[r][p]
  <2> DEFINE u == Units(RefundLines(r), p)
  <2>3. asked[r] * u + 0 <= n + topic[r] * u
    BY <2>1, <2>2 DEF RefundInv, Within
  <2>4. n \in Nat /\ u \in Nat /\ asked[r] \in Nat
    BY <2>1, CountsType
  <2> HIDE DEF n, u
  <2>5. asked[r] * u \in Nat /\ 0 * u = 0
    BY <2>4, Times
  <2>6. asked[r] * u <= n
    BY <2>3, <2>4, <2>5
  <2> QED
    BY <2>4, <2>5, <2>6 DEF n, u
<1> QED
  BY <1>1, UnitsInvariance, PTL

(* A reservation of many lines, its answer lost or not, is one atomic step  *)
(* of the ledger, which takes the whole order and only if all of it is      *)
(* there (lines 129-152), and every other move of stock puts back units     *)
(* that an order has taken (lines 154-169).                                 *)
THEOREM ImplementsLedger == Spec => LedgerSpec
<1> DEFINE Taken == [r \in Charged |-> OrderOf(items[r])]
<1>1. Init => Ledger!Init
  <2> SUFFICES ASSUME Init PROVE Ledger!Init
    OBVIOUS
  <2>1. Charged = {} /\ inStock = Initial
    BY DEF Init, Charged
  <2>2. Taken = [r \in {} |-> Initial]
    BY <2>1
  <2> QED
    BY <2>1, <2>2 DEF Ledger!Init
<1>2. ASSUME UnitsInv, [Next]_vars PROVE [Ledger!Next]_<<inStock, Taken>>
  <2> USE <1>2 DEF UnitsInv, IInv
  <2>1. ASSUME NEW r \in Requests, Commit(r) \/ CommitLost(r)
        PROVE  Ledger!Next
    <3> DEFINE order == OrderOf(items[r])
    <3>1. /\ r \notin Charged /\ Charged' = Charged \cup {r} /\ r \in Open
          /\ inStock' = [p \in Products |-> inStock[p] - Units(items[r], p)]
          /\ \A p \in Products : Units(items[r], p) <= inStock[p]
          /\ items' = items
      BY <2>1, CommitMoves
    <3>2. items[r] \in Carts
      BY <3>1 DEF BegunInv, Open
    <3>3. order \in Orders
      BY <3>2 DEF Orders
    <3>4. \A p \in Products : order[p] = Units(items[r], p)
      BY DEF OrderOf
    <3>5. DOMAIN Taken = Charged
      OBVIOUS
    <3>6. Taken' = [q \in DOMAIN Taken \cup {r} |-> IF q = r THEN order ELSE Taken[q]]
      BY <3>1 DEF OrderOf
    <3>7. inStock' = [p \in Products |-> inStock[p] - order[p]]
      BY <3>1, <3>4
    <3>8. Ledger!Reserve(r, order)
      BY <3>1, <3>4, <3>5, <3>6, <3>7 DEF Ledger!Reserve
    <3> QED
      BY <3>3, <3>8 DEF Ledger!Next
  <2>2. ASSUME NEW c \in consumer, Increment(c) PROVE Ledger!Next
    <3>1. PICK p \in Products : \E n \in 1 .. Units(items[c.req], p) :
             inStock' = [inStock EXCEPT ![p] = @ + n]
      BY <2>2, IncrementMoves
    <3>2. c.req \in Charged /\ Charged' = Charged /\ items' = items
      BY <2>2, IncrementMoves
    <3>3. c.req \in DOMAIN Taken /\ Taken[c.req][p] = Units(items[c.req], p)
      <4>1. c.req \in DOMAIN Taken /\ Taken[c.req] = OrderOf(items[c.req])
        BY <3>2
      <4>2. OrderOf(items[c.req])[p] = Units(items[c.req], p)
        BY DEF OrderOf
      <4> QED
        BY <4>1, <4>2
    <3>4. Taken' = Taken
      BY <3>2 DEF OrderOf
    <3>5. PICK n \in 1 .. Taken[c.req][p] : inStock' = [inStock EXCEPT ![p] = @ + n]
      BY <3>1, <3>3
    <3>6. Ledger!Refund(c.req, p, n)
      BY <3>4, <3>5 DEF Ledger!Refund
    <3> QED
      BY <3>3, <3>5, <3>6 DEF Ledger!Next
  <2>3. ASSUME ~ \E r \in Requests : Commit(r) \/ CommitLost(r),
               ~ \E c \in consumer : Increment(c)
        PROVE  UNCHANGED <<inStock, Taken>>
    BY <2>3, OthersMoveNothing DEF OrderOf, Units
  <2> QED
    BY <2>1, <2>2, <2>3
<1> QED
  BY UnitsInvariance, <1>1, <1>2, PTL DEF Spec, LedgerSpec, Ledger!Spec
=============================================================================
