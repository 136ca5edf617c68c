---------------------------- MODULE ProductStock ----------------------------
(***************************************************************************)
(* Stock in the product service: reserveStock, a MongoDB transaction with  *)
(* one conditional decrement per line of the order, and refundStock, a     *)
(* bulk of increments outside any transaction, driven by a serial Kafka    *)
(* consumer with at-least-once delivery.                                   *)
(*                                                                         *)
(* Reservations run concurrently.  A MongoDB transaction reads from the    *)
(* snapshot of its first operation, and updating a document that another   *)
(* transaction has written, or that changed since the snapshot, fails with *)
(* a write conflict, which the code treats like any other error.           *)
(***************************************************************************)
EXTENDS Integers, Sequences, OrderLines

CONSTANTS Products,
          Requests,     \* calls of product.reserve, one order each
          Carts,        \* the lists of lines an order may have
          Initial,      \* in_stock at the start
          MaxFaults,    \* bound on lost commits, crashes and duplicates
          MaxAsks       \* bound on the refund events of one order

Line == [product : Products, quantity : Nat \ {0}]

ASSUME CartsAssumption == Carts \subseteq Seq(Line)
ASSUME InitialAssumption == Initial \in [Products -> Nat]
ASSUME FaultsAssumption == MaxFaults \in Nat
ASSUME AsksAssumption == MaxAsks \in Nat

VARIABLES
    inStock,    \* product.in_stock, committed
    stage,      \* stage[r]: how far the reservation is
    items,      \* items[r]: its lines
    pos,        \* pos[r]: lines already decremented
    view,       \* view[r]: in_stock as its transaction sees it
    wrote,      \* wrote[r]: documents its transaction has written
    stale,      \* stale[r]: documents others changed since its snapshot
    topic,      \* topic[r]: undelivered refund events of its order
    asked,      \* asked[r]: refund events that the order service wrote
    consumer,   \* the refund being processed: {} or one record
    refunded,   \* history: units given back for r
    faults

txns == <<stage, items, pos, view, wrote, stale>>
refunds == <<topic, asked, consumer, refunded>>
vars == <<inStock, txns, refunds, faults>>

Stages == {"idle", "open", "reserved", "rejected", "lost"}
Nothing == [p \in Products |-> 0]

TypeOK ==
    /\ inStock \in [Products -> Int]
    /\ stage \in [Requests -> Stages]
    /\ items \in [Requests -> Carts \cup {<<>>}]
    /\ pos \in [Requests -> Nat]
    /\ \A r \in Requests : pos[r] <= Len(items[r])
    /\ view \in [Requests -> [Products -> Int]]
    /\ wrote \in [Requests -> SUBSET Products]
    /\ stale \in [Requests -> SUBSET Products]
    /\ topic \in [Requests -> Nat]
    /\ asked \in [Requests -> 0 .. MaxAsks]
    /\ consumer \in SUBSET [req : Requests, done : Nat]
    /\ refunded \in [Requests -> [Products -> Nat]]
    /\ faults \in 0 .. MaxFaults

Init ==
    /\ inStock = Initial
    /\ stage = [r \in Requests |-> "idle"]
    /\ items = [r \in Requests |-> <<>>]
    /\ pos = [r \in Requests |-> 0]
    /\ view = [r \in Requests |-> Nothing]
    /\ wrote = [r \in Requests |-> {}]
    /\ stale = [r \in Requests |-> {}]
    /\ topic = [r \in Requests |-> 0]
    /\ asked = [r \in Requests |-> 0]
    /\ consumer = {}
    /\ refunded = [r \in Requests |-> Nothing]
    /\ faults = 0

Open == {r \in Requests : stage[r] = "open"}

Fault == faults < MaxFaults /\ faults' = faults + 1

-----------------------------------------------------------------------------
(* reserveStock                                                            *)

\* startTransaction, and the snapshot of its first operation.
Begin(r) ==
    /\ stage[r] = "idle"
    /\ \E cart \in Carts : items' = [items EXCEPT ![r] = cart]
    /\ stage' = [stage EXCEPT ![r] = "open"]
    /\ view' = [view EXCEPT ![r] = inStock]
    /\ UNCHANGED <<inStock, pos, wrote, stale, refunds, faults>>

\* The loop of r has a line to go.
HasLine(r) == stage[r] = "open" /\ pos[r] < Len(items[r])
NextLine(r) == items[r][pos[r] + 1]

\* A variant: the check made on a read outside of the transaction.
EnoughOutside(r, l) == inStock[l.product] >= l.quantity

\* The filter { _id, in_stock: { $gte: quantity } } finds the document.
Enough(r, l) == view[r][l.product] >= l.quantity

\* The update of p meets another writer of the document.
WriteConflict(r, p) ==
    p \in stale[r] \/ \E q \in Open \ {r} : p \in wrote[q]

\* { $inc: { in_stock: -quantity } } inside the transaction.
Decrement(r) ==
    LET l == NextLine(r)
    IN  /\ HasLine(r)
        /\ Enough(r, l)
        /\ ~WriteConflict(r, l.product)
        /\ view' = [view EXCEPT ![r][l.product] = @ - l.quantity]
        /\ wrote' = [wrote EXCEPT ![r] = @ \cup {l.product}]
        /\ pos' = [pos EXCEPT ![r] = @ + 1]
        /\ UNCHANGED <<inStock, stage, items, stale, refunds, faults>>

\* The finally block: endSession, after which nothing of the loop is left.
EndSession(r) ==
    /\ pos' = [pos EXCEPT ![r] = 0]
    /\ view' = [view EXCEPT ![r] = Nothing]
    /\ wrote' = [wrote EXCEPT ![r] = {}]

\* What the transaction makes of the stock.
Result(r) == [p \in Products |-> IF p \in wrote[r] THEN view[r][p] ELSE inStock[p]]

\* A variant: the updates were made without the session and stay.
RollbackNothing(r) ==
    /\ stage' = [stage EXCEPT ![r] = "rejected"]
    /\ inStock' = Result(r)
    /\ EndSession(r)
    /\ stale' = [stale EXCEPT ![r] = {}]
    /\ UNCHANGED <<items, refunds>>

\* The catch block: abortTransaction, and the error goes to the caller.
Rollback(r) ==
    /\ stage' = [stage EXCEPT ![r] = "rejected"]
    /\ EndSession(r)
    /\ stale' = [stale EXCEPT ![r] = {}]
    /\ UNCHANGED <<inStock, items, refunds>>

\* A variant: the update waits for the other writer.
RefusedIfShort(r) == ~Enough(r, NextLine(r))

\* findOneAndUpdate returns null, or throws.
Refused(r) == ~Enough(r, NextLine(r)) \/ WriteConflict(r, NextLine(r).product)

\* CONFLICT: a line is out of stock, or its update met another writer.
Reject(r) ==
    /\ HasLine(r)
    /\ Refused(r)
    /\ Rollback(r)
    /\ UNCHANGED faults

\* The service dies, or the database fails, before the commit.
Fail(r) ==
    /\ stage[r] = "open"
    /\ Fault
    /\ Rollback(r)

\* commitTransaction is applied: the written documents take the values the
\* transaction has, and are newer than every other open snapshot.
Apply(r) ==
    /\ stage[r] = "open"
    /\ pos[r] = Len(items[r])
    /\ inStock' = Result(r)
    /\ stale' = [q \in Requests |->
                    IF q \in Open \ {r} THEN stale[q] \cup wrote[r] ELSE {}]
    /\ EndSession(r)
    /\ UNCHANGED <<items, refunds>>

\* The caller gets true.
Commit(r) ==
    /\ Apply(r)
    /\ stage' = [stage EXCEPT ![r] = "reserved"]
    /\ UNCHANGED faults

\* The commit is applied but its outcome, or the answer, is lost: the caller
\* gets an error and believes that nothing was reserved.
CommitLost(r) ==
    /\ Apply(r)
    /\ Fault
    /\ stage' = [stage EXCEPT ![r] = "lost"]

-----------------------------------------------------------------------------
(* refundStock                                                             *)

\* A creation that fails emits order.create.failed, once.  One that saw true
\* may make an order, and every cancellation of it that passed the check of
\* its status emits order.cancelled: two with different keys, or one more
\* after payment.success has revived it.
MayAsk(r) ==
    /\ asked[r] < MaxAsks
    /\ \/ stage[r] = "reserved"
       \/ stage[r] \in {"rejected", "lost"} /\ asked[r] = 0

RequestRefund(r) ==
    /\ MayAsk(r)
    /\ asked' = [asked EXCEPT ![r] = @ + 1]
    /\ topic' = [topic EXCEPT ![r] = @ + 1]
    /\ UNCHANGED <<inStock, txns, consumer, refunded, faults>>

\* The outbox publishes the event a second time.
Duplicate(r) ==
    /\ asked[r] > 0
    /\ Fault
    /\ topic' = [topic EXCEPT ![r] = @ + 1]
    /\ UNCHANGED <<inStock, txns, asked, consumer, refunded>>

\* The event carries items only when the order service saw true.
RefundLines(r) == IF stage[r] = "reserved" THEN items[r] ELSE <<>>

\* A variant: the offset moves before the handler runs.
ConsumeAndCommit(r) ==
    /\ consumer = {}
    /\ topic[r] > 0
    /\ topic' = [topic EXCEPT ![r] = @ - 1]
    /\ consumer' = {[req |-> r, done |-> 0]}
    /\ UNCHANGED <<inStock, txns, asked, refunded, faults>>

\* The consumer takes the next event: one at a time.
Consume(r) ==
    /\ consumer = {}
    /\ topic[r] > 0
    /\ consumer' = {[req |-> r, done |-> 0]}
    /\ UNCHANGED <<inStock, txns, topic, asked, refunded, faults>>

\* The next updateOne of the bulk.  It waits for open transactions that
\* have written the document.
Increment(c) ==
    /\ c \in consumer
    /\ c.done < Len(RefundLines(c.req))
    /\ LET l == RefundLines(c.req)[c.done + 1]
       IN  /\ \A q \in Open : l.product \notin wrote[q]
           /\ inStock' = [inStock EXCEPT ![l.product] = @ + l.quantity]
           /\ refunded' = [refunded EXCEPT ![c.req][l.product] = @ + l.quantity]
           /\ stale' = [q \in Requests |->
                           IF q \in Open THEN stale[q] \cup {l.product} ELSE stale[q]]
    /\ consumer' = {[req |-> c.req, done |-> c.done + 1]}
    /\ UNCHANGED <<stage, items, pos, view, wrote, topic, asked, faults>>

\* A variant whose handler throws when the bulk is done.
ThrowsAtEnd(c) ==
    /\ c \in consumer
    /\ c.done = Len(RefundLines(c.req))
    /\ consumer' = {}
    /\ UNCHANGED <<inStock, txns, topic, asked, refunded, faults>>

\* The handler returns (at once when there are no items); the offset moves.
Acknowledge(c) ==
    /\ c \in consumer
    /\ c.done = Len(RefundLines(c.req))
    /\ consumer' = {}
    /\ topic' = [topic EXCEPT ![c.req] = @ - 1]
    /\ UNCHANGED <<inStock, txns, asked, refunded, faults>>

\* The bulk fails, or the service dies before the offset is committed: the
\* event is delivered again from its first line.
Redeliver(c) ==
    /\ c \in consumer
    /\ Fault
    /\ consumer' = {}
    /\ UNCHANGED <<inStock, txns, topic, asked, refunded>>

-----------------------------------------------------------------------------
Next ==
    \/ \E r \in Requests : \/ Begin(r) \/ Decrement(r) \/ Reject(r) \/ Fail(r)
                           \/ Commit(r) \/ CommitLost(r)
                           \/ RequestRefund(r) \/ Duplicate(r) \/ Consume(r)
    \/ \E c \in consumer : Increment(c) \/ Acknowledge(c) \/ Redeliver(c)

Spec == Init /\ [][Next]_vars

\* MongoDB answers, and the consumer polls and runs its handler.
Fairness ==
    /\ \A r \in Requests : WF_vars(Decrement(r) \/ Reject(r) \/ Commit(r))
    /\ WF_vars(\E r \in Requests : Consume(r))
    /\ WF_vars(\E c \in consumer : Increment(c) \/ Acknowledge(c))

LiveSpec == Spec /\ Fairness

-----------------------------------------------------------------------------
(* Properties.                                                             *)

\* No interleaving of reservations and refunds sells a unit twice.
NeverOversold == \A p \in Products : inStock[p] >= 0

\* The requests whose transaction was committed.
Charged == {r \in Requests : stage[r] \in {"reserved", "lost"}}

\* Units are conserved: a request that was answered false or rolled back
\* took nothing, and one that committed took every line of its order, a
\* product listed twice included; refunds put back what is counted as such.
Conservation ==
    \A p \in Products :
        inStock[p] = Initial[p] - SumFunctionOnSet(
            [r \in Requests |-> Units(items[r], p) - refunded[r][p]], Charged)

\* An order's units go back once for every event that the order service has
\* written of it, and once more per fault: the handler, which does not know
\* what it has done before, repeats and invents nothing by itself.
RefundBounded ==
    \A r \in Requests : \A p \in Products :
        refunded[r][p] <= (asked[r] + faults) * Units(RefundLines(r), p)

\* Every event that has left the topic was applied in full: whatever fault
\* hit its handler, no unit of a refund that was asked for is missing at the
\* end.
RefundMade ==
    \A r \in Requests : topic[r] = 0 =>
        \A p \in Products : refunded[r][p] >= asked[r] * Units(RefundLines(r), p)

\* Every reservation gets an answer: opposite lock orders cannot deadlock.
EveryReservationEnds ==
    \A r \in Requests : stage[r] = "open" ~> stage[r] # "open"

\* Every refund that was asked for is eventually made in full.
RefundCompletes ==
    \A r \in Requests, n \in 1 .. MaxAsks : asked[r] = n ~>
        \A p \in Products : refunded[r][p] >= n * Units(RefundLines(r), p)

\* Seen from outside, a reservation is one step that takes all its units or
\* none, and the rest of the moves of stock are refunds of what was taken.
OrderOf(lines) == [p \in Products |-> Units(lines, p)]
Orders == {OrderOf(cart) : cart \in Carts}
Ledger == INSTANCE StockLedger WITH
    stock <- inStock,
    taken <- [r \in Charged |-> OrderOf(items[r])]
LedgerSpec == Ledger!Spec
=============================================================================
