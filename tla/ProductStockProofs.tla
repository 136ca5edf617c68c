------------------------- MODULE ProductStockProofs -------------------------
(***************************************************************************)
(* Proofs about ProductStock, for every set of products, requests and      *)
(* carts, every initial stock and every number of faults.  SnapshotInv     *)
(* carries the argument: what an open transaction sees of a document is    *)
(* what is committed, minus what it took itself.                           *)
(***************************************************************************)
EXTENDS ProductStock, TLAPS

USE CartsAssumption, InitialAssumption, FaultsAssumption

(* Two open transactions never hold the same document, and what one holds   *)
(* nobody has changed since its snapshot.                                   *)
WritersExclude ==
    \A r \in Open : /\ wrote[r] \cap stale[r] = {}
                    /\ \A q \in Open \ {r} : wrote[r] \cap wrote[q] = {}

SnapshotInv ==
    \A r \in Open : \A p \in Products :
        /\ view[r][p] >= 0
        /\ p \in wrote[r] => view[r][p] <= inStock[p]
        /\ p \notin stale[r] \cup wrote[r] => view[r][p] = inStock[p]

(* A request without an open session has no trace of one. *)
SessionInv ==
    \A r \in Requests \ Open : wrote[r] = {} /\ stale[r] = {} /\ pos[r] = 0

(* The event being processed is still on the topic. *)
ConsumerInv ==
    /\ \A c \in consumer : topic[c.req] > 0
    /\ \A c, d \in consumer : c = d

IInv ==
    /\ TypeOK
    /\ NeverOversold
    /\ WritersExclude
    /\ SnapshotInv
    /\ SessionInv
    /\ ConsumerInv

-----------------------------------------------------------------------------
LEMMA ItemsType ==
    ASSUME TypeOK, NEW r \in Requests
    PROVE  items[r] \in Seq(Line) /\ Len(items[r]) \in Nat
<1>1. <<>> \in Seq(Line)
  OBVIOUS
<1>2. items[r] \in Carts \cup {<<>>}
  BY DEF TypeOK
<1>3. items[r] \in Seq(Line)
  BY <1>1, <1>2
<1> QED
  BY <1>3

LEMMA LineType ==
    ASSUME TypeOK, NEW r \in Requests, NEW i \in 1 .. Len(items[r])
    PROVE  /\ items[r][i] \in Line
           /\ items[r][i].product \in Products
           /\ items[r][i].quantity \in Nat \ {0}
<1>1. items[r] \in Seq(Line)
  BY ItemsType
<1>2. items[r][i] \in Line
  BY <1>1
<1> QED
  BY <1>2 DEF Line

LEMMA NextLineType ==
    ASSUME TypeOK, NEW r \in Requests, HasLine(r)
    PROVE  /\ NextLine(r).product \in Products
           /\ NextLine(r).quantity \in Nat \ {0}
           /\ pos[r] + 1 \in 1 .. Len(items[r])
<1>1. pos[r] \in Nat /\ Len(items[r]) \in Nat
  BY ItemsType DEF TypeOK
<1>2. pos[r] + 1 \in 1 .. Len(items[r])
  <2>1. pos[r] < Len(items[r])
    BY DEF HasLine
  <2>2. \A n, m \in Nat : n < m => n + 1 \in 1 .. m
    OBVIOUS
  <2> QED
    BY <1>1, <2>1, <2>2
<1>3. \A i \in 1 .. Len(items[r]) :
         items[r][i].product \in Products /\ items[r][i].quantity \in Nat \ {0}
  BY LineType
<1> QED
  BY <1>2, <1>3 DEF NextLine

LEMMA InitIInv == Init => IInv
<1> SUFFICES ASSUME Init PROVE IInv
  OBVIOUS
<1> USE DEF Init
<1>1. TypeOK
  <2>1. 0 \in 0 .. MaxFaults /\ asked \in [Requests -> 0 .. MaxAsks]
    BY AsksAssumption
  <2>2. \A r \in Requests : pos[r] <= Len(items[r])
    OBVIOUS
  <2>3. view \in [Requests -> [Products -> Int]] /\ refunded \in [Requests -> [Products -> Nat]]
    BY DEF Nothing
  <2>4. items \in [Requests -> Carts \cup {<<>>}]
    OBVIOUS
  <2>5. inStock \in [Products -> Int] /\ stage \in [Requests -> Stages]
    BY DEF Stages
  <2> QED
    BY <2>1, <2>2, <2>3, <2>4, <2>5 DEF TypeOK
<1>2. Open = {}
  BY DEF Open
<1>3. NeverOversold
  BY DEF NeverOversold
<1> QED
  BY <1>1, <1>2, <1>3 DEF IInv, WritersExclude, SnapshotInv, SessionInv, ConsumerInv

LEMMA BeginIInv == ASSUME IInv, NEW r \in Requests, Begin(r) PROVE IInv'
<1> USE DEF IInv, Begin, refunds
<1>0. PICK cart \in Carts : items' = [items EXCEPT ![r] = cart]
  OBVIOUS
<1>1. Open' = Open \cup {r} /\ r \notin Open
  BY DEF Open, TypeOK, Stages
<1>2. TypeOK'
  <2>1. Len(cart) \in Nat /\ pos[r] = 0
    BY <1>1 DEF SessionInv
  <2>2. \A q \in Requests : pos'[q] <= Len(items'[q])
    BY <1>0, <2>1 DEF TypeOK
  <2> QED
    BY <1>0, <2>2 DEF TypeOK, Stages
<1>3. wrote[r] = {} /\ stale[r] = {}
  BY <1>1 DEF SessionInv
<1>4. WritersExclude'
  BY <1>1, <1>3 DEF WritersExclude
<1>5. SnapshotInv'
  <2>1. ASSUME NEW q \in Open', NEW p \in Products
        PROVE  /\ view'[q][p] >= 0
               /\ p \in wrote'[q] => view'[q][p] <= inStock'[p]
               /\ p \notin stale'[q] \cup wrote'[q] => view'[q][p] = inStock'[p]
    <3>1. CASE q = r
      BY <1>3, <3>1 DEF TypeOK, NeverOversold
    <3>2. CASE q # r
      BY <1>1, <3>2 DEF TypeOK, SnapshotInv, Open
    <3> QED
      BY <3>1, <3>2
  <2> QED
    BY <2>1 DEF SnapshotInv
<1>6. NeverOversold' /\ SessionInv' /\ ConsumerInv'
  BY <1>1 DEF NeverOversold, SessionInv, ConsumerInv
<1> QED
  BY <1>2, <1>4, <1>5, <1>6

LEMMA DecrementIInv == ASSUME IInv, NEW r \in Requests, Decrement(r) PROVE IInv'
<1> DEFINE l == NextLine(r)
<1> USE DEF IInv, Decrement, refunds
<1>1. /\ l.product \in Products /\ l.quantity \in Nat \ {0}
      /\ pos[r] + 1 \in 1 .. Len(items[r])
      /\ r \in Open
  BY NextLineType DEF HasLine, Open
<1> HIDE DEF l
<1>2. /\ view[r][l.product] >= l.quantity
      /\ l.product \notin stale[r]
      /\ \A q \in Open \ {r} : l.product \notin wrote[q]
      /\ view' = [view EXCEPT ![r][l.product] = @ - l.quantity]
      /\ wrote' = [wrote EXCEPT ![r] = @ \cup {l.product}]
      /\ pos' = [pos EXCEPT ![r] = @ + 1]
  BY DEF l, Enough, WriteConflict
<1>3. Open' = Open
  BY DEF Open
<1>4. TypeOK'
  <2>1. view' \in [Requests -> [Products -> Int]]
    <3>1. view \in [Requests -> [Products -> Int]]
      BY DEF TypeOK
    <3>2. view[r][l.product] - l.quantity \in Int
      BY <1>1, <3>1
    <3> QED
      BY <1>1, <1>2, <3>1, <3>2
  <2>2. wrote' \in [Requests -> SUBSET Products]
    BY <1>1, <1>2 DEF TypeOK
  <2>3. pos' \in [Requests -> Nat] /\ \A q \in Requests : pos'[q] <= Len(items[q])
    BY <1>1, <1>2 DEF TypeOK
  <2> QED
    BY <2>1, <2>2, <2>3 DEF TypeOK
<1>5. WritersExclude'
  <2>1. \A q \in Open \ {r} : wrote'[q] = wrote[q]
    BY <1>2 DEF TypeOK, Open
  <2>2. wrote'[r] = wrote[r] \cup {l.product}
    BY <1>2 DEF TypeOK
  <2> QED
    BY <1>1, <1>2, <1>3, <2>1, <2>2 DEF WritersExclude
<1>6. SnapshotInv'
  <2>1. ASSUME NEW q \in Open, NEW p \in Products
        PROVE  /\ view'[q][p] >= 0
               /\ p \in wrote'[q] => view'[q][p] <= inStock'[p]
               /\ p \notin stale'[q] \cup wrote'[q] => view'[q][p] = inStock'[p]
    <3>1. CASE q = r /\ p = l.product
      <4>1. view'[q][p] = view[q][p] - l.quantity
        BY <1>1, <1>2, <3>1 DEF TypeOK
      <4>2. view[q][p] <= inStock[p]
        BY <1>1, <1>2, <3>1 DEF SnapshotInv, TypeOK
      <4> QED
        BY <1>1, <1>2, <3>1, <4>1, <4>2 DEF TypeOK
    <3>2. CASE ~(q = r /\ p = l.product)
      <4>1. q \in Requests /\ view[q] \in [Products -> Int]
        BY DEF TypeOK, Open
      <4>2. view'[q][p] = view[q][p]
        <5>1. view'[q] = IF q = r THEN [view[r] EXCEPT ![l.product] = @ - l.quantity]
                                  ELSE view[q]
          BY <1>2, <4>1 DEF TypeOK
        <5> QED
          BY <3>2, <4>1, <5>1
      <4>3. p \in wrote'[q] <=> p \in wrote[q]
        <5>1. wrote'[q] = IF q = r THEN wrote[r] \cup {l.product} ELSE wrote[q]
          BY <1>2, <4>1 DEF TypeOK
        <5> QED
          BY <3>2, <5>1
      <4> QED
        BY <4>2, <4>3 DEF SnapshotInv
    <3> QED
      BY <3>1, <3>2
  <2> QED
    BY <2>1, <1>3 DEF SnapshotInv
<1>7. NeverOversold' /\ ConsumerInv'
  BY DEF NeverOversold, ConsumerInv
<1>8. SessionInv'
  BY <1>1, <1>2, <1>3 DEF SessionInv, TypeOK
<1> QED
  BY <1>4, <1>5, <1>6, <1>7, <1>8

(* reserveStock ends without applying anything. *)
LEMMA RollbackIInv ==
    ASSUME IInv, NEW r \in Open, Rollback(r), faults' \in 0 .. MaxFaults
    PROVE  IInv'
<1> USE DEF IInv
<1>1. /\ stage' = [stage EXCEPT ![r] = "rejected"]
      /\ pos' = [pos EXCEPT ![r] = 0]
      /\ view' = [view EXCEPT ![r] = Nothing]
      /\ wrote' = [wrote EXCEPT ![r] = {}]
      /\ stale' = [stale EXCEPT ![r] = {}]
      /\ UNCHANGED <<inStock, items, topic, asked, consumer, refunded>>
  BY DEF Rollback, EndSession, refunds
<1>2. r \in Requests /\ Open' = Open \ {r}
  BY <1>1 DEF Open, TypeOK
<1>3. TypeOK'
  <2>1. view' \in [Requests -> [Products -> Int]]
    <3>1. Nothing \in [Products -> Int] /\ view \in [Requests -> [Products -> Int]]
      BY DEF TypeOK, Nothing
    <3> QED
      BY <1>1, <3>1
  <2>2. /\ stage' \in [Requests -> Stages]
        /\ pos' \in [Requests -> Nat]
        /\ wrote' \in [Requests -> SUBSET Products]
        /\ stale' \in [Requests -> SUBSET Products]
    <3>1. stage' \in [Requests -> Stages]
      BY <1>1 DEF TypeOK, Stages
    <3>2. wrote' \in [Requests -> SUBSET Products] /\ stale' \in [Requests -> SUBSET Products]
      BY <1>1 DEF TypeOK
    <3>3. pos' \in [Requests -> Nat]
      BY <1>1 DEF TypeOK
    <3> QED
      BY <3>1, <3>2, <3>3
  <2>3. \A q \in Requests : pos'[q] <= Len(items'[q])
    <3>1. \A q \in Requests : Len(items[q]) \in Nat
      BY ItemsType
    <3>2. \A q \in Requests : pos'[q] = pos[q] \/ pos'[q] = 0
      BY <1>1 DEF TypeOK
    <3> QED
      BY <1>1, <3>1, <3>2 DEF TypeOK
  <2> QED
    BY <1>1, <2>1, <2>2, <2>3 DEF TypeOK
<1>4. \A q \in Open' : view'[q] = view[q] /\ wrote'[q] = wrote[q] /\ stale'[q] = stale[q]
  BY <1>1, <1>2 DEF TypeOK, Open
<1>5. WritersExclude' /\ SnapshotInv'
  BY <1>1, <1>2, <1>4 DEF WritersExclude, SnapshotInv
<1>6. SessionInv'
  BY <1>1, <1>2 DEF SessionInv, TypeOK
<1>7. NeverOversold' /\ ConsumerInv'
  BY <1>1 DEF NeverOversold, ConsumerInv
<1> QED
  BY <1>3, <1>5, <1>6, <1>7

(* reserveStock commits: the others' snapshots stay right because nobody    *)
(* else has written what it writes, and the rest of it becomes stale.       *)
LEMMA ApplyIInv ==
    ASSUME IInv, NEW r \in Requests, Apply(r), NEW outcome \in {"reserved", "lost"},
           stage' = [stage EXCEPT ![r] = outcome], faults' \in 0 .. MaxFaults
    PROVE  IInv'
<1> USE DEF IInv
<1>1. /\ r \in Open
      /\ inStock' = [p \in Products |-> IF p \in wrote[r] THEN view[r][p] ELSE inStock[p]]
      /\ stale' = [q \in Requests |->
                      IF q \in Open \ {r} THEN stale[q] \cup wrote[r] ELSE {}]
      /\ pos' = [pos EXCEPT ![r] = 0]
      /\ view' = [view EXCEPT ![r] = Nothing]
      /\ wrote' = [wrote EXCEPT ![r] = {}]
      /\ UNCHANGED <<items, topic, asked, consumer, refunded>>
  BY DEF Apply, Result, EndSession, refunds, Open
<1>2. Open' = Open \ {r}
  BY DEF Open, TypeOK
<1>3. inStock' \in [Products -> Int] /\ NeverOversold'
  BY <1>1 DEF TypeOK, NeverOversold, SnapshotInv
<1>4. TypeOK'
  <2>1. view' \in [Requests -> [Products -> Int]]
    <3>1. Nothing \in [Products -> Int] /\ view \in [Requests -> [Products -> Int]]
      BY DEF TypeOK, Nothing
    <3> QED
      BY <1>1, <3>1
  <2>2. stage' \in [Requests -> Stages] /\ pos' \in [Requests -> Nat]
        /\ wrote' \in [Requests -> SUBSET Products]
        /\ stale' \in [Requests -> SUBSET Products]
    BY <1>1 DEF TypeOK, Stages
  <2>3. \A q \in Requests : pos'[q] <= Len(items'[q])
    <3>1. \A q \in Requests : Len(items[q]) \in Nat
      BY ItemsType
    <3>2. \A q \in Requests : pos'[q] = pos[q] \/ pos'[q] = 0
      BY <1>1 DEF TypeOK
    <3> QED
      BY <1>1, <3>1, <3>2 DEF TypeOK
  <2> QED
    BY <1>1, <1>3, <2>1, <2>2, <2>3 DEF TypeOK
<1>5. \A q \in Open' : /\ view'[q] = view[q]
                       /\ wrote'[q] = wrote[q]
                       /\ stale'[q] = stale[q] \cup wrote[r]
  BY <1>1, <1>2 DEF TypeOK, Open
<1>6. \A q \in Open' : wrote[q] \cap wrote[r] = {}
  BY <1>1, <1>2 DEF WritersExclude
<1>7. WritersExclude'
  BY <1>2, <1>5, <1>6 DEF WritersExclude
<1>8. SnapshotInv'
  <2> SUFFICES ASSUME NEW q \in Open', NEW p \in Products
               PROVE  /\ view[q][p] >= 0
                      /\ p \in wrote[q] => view[q][p] <= inStock'[p]
                      /\ p \notin stale[q] \cup wrote[r] \cup wrote[q]
                           => view[q][p] = inStock'[p]
    BY <1>5 DEF SnapshotInv
  <2>1. p \notin wrote[r] => inStock'[p] = inStock[p]
    BY <1>1
  <2> QED
    BY <1>2, <1>6, <2>1 DEF SnapshotInv
<1>9. SessionInv'
  BY <1>1, <1>2 DEF SessionInv, TypeOK
<1>10. ConsumerInv'
  BY <1>1 DEF ConsumerInv
<1> QED
  BY <1>3, <1>4, <1>7, <1>8, <1>9, <1>10

(* The steps of the order service and the consumer that move no stock. *)
LEMMA TopicIInv ==
    ASSUME IInv, NEW r \in Requests, RequestRefund(r) \/ Duplicate(r) \/ Consume(r)
    PROVE  IInv'
<1> USE DEF IInv
<1>1. UNCHANGED <<inStock, stage, items, pos, view, wrote, stale, refunded>>
  BY DEF RequestRefund, Duplicate, Consume, txns
<1>2. /\ topic' \in [Requests -> Nat]
      /\ \A q \in Requests : topic'[q] >= topic[q]
      /\ asked' \in [Requests -> 0 .. MaxAsks]
      /\ faults' \in 0 .. MaxFaults
      /\ consumer' = consumer \/ (consumer' = {[req |-> r, done |-> 0]} /\ topic[r] > 0)
  <2>1. CASE RequestRefund(r)
    <3>1. asked[r] \in 0 .. MaxAsks /\ asked[r] < MaxAsks
      BY <2>1 DEF RequestRefund, MayAsk, TypeOK
    <3>2. asked[r] + 1 \in 0 .. MaxAsks
      BY <3>1, AsksAssumption
    <3> QED
      BY <2>1, <3>2 DEF RequestRefund, TypeOK
  <2>2. CASE Duplicate(r)
    BY <2>2 DEF Duplicate, Fault, TypeOK
  <2>3. CASE Consume(r)
    BY <2>3 DEF Consume, TypeOK
  <2> QED
    BY <2>1, <2>2, <2>3
<1>3. TypeOK'
  BY <1>1, <1>2 DEF TypeOK
<1>4. ConsumerInv'
  BY <1>2 DEF ConsumerInv, TypeOK
<1>5. Open' = Open
  BY <1>1 DEF Open
<1> QED
  BY <1>1, <1>3, <1>4, <1>5 DEF NeverOversold, WritersExclude, SnapshotInv, SessionInv

(* A unit comes back while no open transaction holds the document. *)
LEMMA IncrementIInv == ASSUME IInv, NEW c \in consumer, Increment(c) PROVE IInv'
<1> USE DEF IInv
<1> DEFINE l == RefundLines(c.req)[c.done + 1]
<1>1. c \in [req : Requests, done : Nat]
  BY DEF TypeOK
<1>2. l.product \in Products /\ l.quantity \in Nat \ {0}
  <2>1. c.done + 1 \in 1 .. Len(items[c.req]) /\ l = items[c.req][c.done + 1]
    BY <1>1, ItemsType DEF Increment, RefundLines
  <2>2. \A i \in 1 .. Len(items[c.req]) :
           items[c.req][i].product \in Products /\ items[c.req][i].quantity \in Nat \ {0}
    BY <1>1, LineType
  <2> QED
    BY <2>1, <2>2
<1>3. /\ \A q \in Open : l.product \notin wrote[q]
      /\ inStock' = [inStock EXCEPT ![l.product] = @ + l.quantity]
      /\ refunded' = [refunded EXCEPT ![c.req][l.product] = @ + l.quantity]
      /\ stale' = [q \in Requests |->
                      IF q \in Open THEN stale[q] \cup {l.product} ELSE stale[q]]
      /\ consumer' = {[req |-> c.req, done |-> c.done + 1]}
      /\ UNCHANGED <<stage, items, pos, view, wrote, topic, asked, faults>>
  BY DEF Increment
<1> HIDE DEF l
<1>4. Open' = Open
  BY <1>3 DEF Open
<1>5. TypeOK'
  <2>1. refunded' \in [Requests -> [Products -> Nat]]
    <3>1. refunded \in [Requests -> [Products -> Nat]]
      BY DEF TypeOK
    <3>2. refunded[c.req][l.product] + l.quantity \in Nat
      BY <1>1, <1>2, <3>1
    <3> QED
      BY <1>1, <1>2, <1>3, <3>1, <3>2
  <2>2. consumer' \in SUBSET [req : Requests, done : Nat]
    BY <1>1, <1>3
  <2>3. inStock' \in [Products -> Int] /\ stale' \in [Requests -> SUBSET Products]
    BY <1>2, <1>3 DEF TypeOK
  <2> QED
    BY <1>3, <2>1, <2>2, <2>3 DEF TypeOK
<1>6. NeverOversold'
  <2>1. \A p \in Products :
           inStock'[p] = IF p = l.product THEN inStock[p] + l.quantity ELSE inStock[p]
    BY <1>2, <1>3 DEF TypeOK
  <2>2. \A p \in Products : inStock[p] \in Int /\ inStock[p] >= 0
    BY DEF TypeOK, NeverOversold
  <2>3. \A p \in Products : inStock'[p] >= 0
    BY <1>2, <2>1, <2>2
  <2> QED
    BY <2>3 DEF NeverOversold
<1>7. WritersExclude'
  BY <1>3, <1>4 DEF WritersExclude, TypeOK, Open
<1>8. SnapshotInv'
  <2> SUFFICES ASSUME NEW q \in Open, NEW p \in Products
               PROVE  /\ view[q][p] >= 0
                      /\ p \in wrote[q] => view[q][p] <= inStock'[p]
                      /\ p \notin stale'[q] \cup wrote[q] => view[q][p] = inStock'[p]
    BY <1>3, <1>4 DEF SnapshotInv
  <2>1. CASE p = l.product
    BY <1>3, <2>1 DEF SnapshotInv, Open
  <2>2. CASE p # l.product
    BY <1>3, <2>2 DEF SnapshotInv, Open, TypeOK
  <2> QED
    BY <2>1, <2>2
<1>9. SessionInv'
  BY <1>3, <1>4 DEF SessionInv, TypeOK
<1>10. ConsumerInv'
  BY <1>1, <1>3 DEF ConsumerInv
<1> QED
  BY <1>5, <1>6, <1>7, <1>8, <1>9, <1>10

LEMMA ReturnIInv ==
    ASSUME IInv, NEW c \in consumer, Acknowledge(c) \/ Redeliver(c) PROVE IInv'
<1> USE DEF IInv
<1>1. UNCHANGED <<inStock, stage, items, pos, view, wrote, stale, asked, refunded>>
  BY DEF Acknowledge, Redeliver, txns
<1>2. consumer' = {} /\ faults' \in 0 .. MaxFaults
  BY DEF Acknowledge, Redeliver, Fault, TypeOK
<1>3. topic' \in [Requests -> Nat]
  <2>1. c.req \in Requests /\ topic[c.req] > 0 /\ topic[c.req] \in Nat
    BY DEF TypeOK, ConsumerInv
  <2>2. topic' = topic \/ topic' = [topic EXCEPT ![c.req] = @ - 1]
    BY DEF Acknowledge, Redeliver
  <2>3. topic[c.req] - 1 \in Nat
    BY <2>1
  <2> QED
    BY <2>1, <2>2, <2>3 DEF TypeOK
<1>4. TypeOK'
  BY <1>1, <1>2, <1>3 DEF TypeOK
<1>5. Open' = Open
  BY <1>1 DEF Open
<1> QED
  BY <1>1, <1>2, <1>4, <1>5
  DEF NeverOversold, WritersExclude, SnapshotInv, SessionInv, ConsumerInv

LEMMA StutterIInv == ASSUME IInv, UNCHANGED vars PROVE IInv'
BY DEF IInv, vars, txns, refunds, TypeOK, NeverOversold, WritersExclude, SnapshotInv,
       SessionInv, ConsumerInv, Open

LEMMA Invariance == Spec => []IInv
<1>1. ASSUME IInv, Next PROVE IInv'
  <2> USE <1>1
  <2>1. ASSUME NEW r \in Requests, Reject(r) \/ Fail(r) PROVE IInv'
    <3>1. r \in Open /\ Rollback(r) /\ faults' \in 0 .. MaxFaults
      BY <2>1 DEF Reject, Fail, Fault, HasLine, Open, IInv, TypeOK
    <3> QED
      BY <3>1, RollbackIInv
  <2>2. ASSUME NEW r \in Requests, Commit(r) \/ CommitLost(r) PROVE IInv'
    <3>1. Apply(r) /\ faults' \in 0 .. MaxFaults
      BY <2>2 DEF Commit, CommitLost, Fault, IInv, TypeOK
    <3>2. PICK outcome \in {"reserved", "lost"} : stage' = [stage EXCEPT ![r] = outcome]
      BY <2>2 DEF Commit, CommitLost
    <3> QED
      BY <3>1, <3>2, ApplyIInv
  <2> QED
    BY <2>1, <2>2, BeginIInv, DecrementIInv, TopicIInv, IncrementIInv, ReturnIInv
    DEF Next
<1>2. IInv /\ [Next]_vars => IInv'
  BY <1>1, StutterIInv
<1> QED
  BY InitIInv, <1>2, PTL DEF Spec

-----------------------------------------------------------------------------
(* The theorems.                                                           *)

(* Type correctness of the sessions, the topic and the stock. *)
THEOREM TypeCorrect == Spec => []TypeOK
BY Invariance, PTL DEF IInv

(* in_stock never becomes negative: the filter of lines 134-138, evaluated  *)
(* on a snapshot, is enough because of the write conflicts.                 *)
THEOREM StockNeverNegative == Spec => []NeverOversold
BY Invariance, PTL DEF IInv
=============================================================================
