------------------------------ MODULE Checkout ------------------------------
(***************************************************************************)
(* One order from its creation to its end: the order service of Orders and *)
(* the payment service of Payments, which share nothing but events.  The   *)
(* outbox publishes an event after its transaction (see Outbox), and Kafka *)
(* delivers it at least once.  order.created and order.cancelled are       *)
(* different topics: they come in any order.                               *)
(*                                                                         *)
(* order.auto-check hands an undefined order id to payment.query-status,   *)
(* so that its answer is an error: the job cancels nothing.  No fault      *)
(* besides those of delivery occurs here: the two modules have them.       *)
(***************************************************************************)
EXTENDS Naturals

CONSTANTS
    Order,        \* the call of create, and its order
    Cancels,
    NoOrder,
    Calls,
    FirstCall,
    Callbacks,
    Consumer,
    Casts

ASSUME ActorsAssumption ==
    FirstCall \in Calls /\ Consumer \notin Callbacks /\ NoOrder # Order /\ Casts \subseteq BOOLEAN

VARIABLES
    held, cached, pc, answer, reserved, taken, order, job, restocked, cpc, cancels,
    exposed, leaky, revived,
    payment, announced, attempt, live, gateway, call, check, seen, finalizing, cb, reported,
    pays, stale, consumer, toRefund, refunding, refunds, requested, refundJobs,
    asked, interrupted, raced, missed, overwritten, repeated,
    faults,
    published,    \* events of the order that are on their topics
    handled,      \* those that the payment service has seen
    overtaken     \* history: order.cancelled came before order.created

orderVars == <<held, cached, pc, answer, reserved, taken, order, job, restocked, cpc, cancels,
               exposed, leaky, revived>>
paymentVars == <<payment, announced, attempt, live, gateway, call, check, seen, finalizing, cb,
                 reported, pays, stale, consumer, toRefund, refunding, refunds, requested,
                 refundJobs, asked, interrupted, raced, missed, overwritten, repeated>>
topics == <<published, handled, overtaken>>
vars == <<orderVars, paymentVars, faults, topics>>

O == INSTANCE Orders WITH
        Creates <- {Order}, Keys <- {"create", "cancel"},
        CreateKey <- [r \in {Order} |-> "create"], CancelKey <- [c \in Cancels |-> "cancel"],
        Replies <- {"error"}, FaultKinds <- {}, MaxFaults <- 0,
        status <- order, refunds <- restocked, target <- cancels

P == INSTANCE Payments WITH
        FaultKinds <- {}, MaxFaults <- 0,
        status <- payment, pc <- call, target <- reported

Events == {"order.created", "order.cancelled"}

Init == O!Init /\ P!Init /\ published = {} /\ handled = {} /\ overtaken = FALSE

-----------------------------------------------------------------------------
\* The events of an order: order.created when it is committed, and
\* order.cancelled with the items it gives back.
PublishedNow ==
    {e \in Events :
        \/ e = "order.created" /\ order[Order] = "none" /\ order'[Order] # "none"
        \/ e = "order.cancelled" /\ order[Order] # "none" /\ restocked'[Order] > restocked[Order]}

OrderStep ==
    /\ \/ O!CreateStep(Order) \/ O!JobStep(Order)
       \/ \E c \in Cancels : O!CancelStep(c)
       \/ \E k \in {"create", "cancel"} : O!Expire(k)
    /\ published' = published \cup PublishedNow
    /\ UNCHANGED <<paymentVars, handled, overtaken>>

PaymentStep ==
    /\ \/ P!QueueFinalizing \/ P!CancelWrite \/ P!CancelNext
       \/ \E c \in Calls :
             P!CallStep(c) \/ P!PayRead(c) \/ P!GatewaySettles(c) \/ P!UrlExpires(c)
       \/ P!WorkerStep
       \/ \E k \in Callbacks : P!CallbackBegin(k) \/ P!CallbackStep(k)
       \/ \E r \in refunding : P!RefundStep(r)
    /\ UNCHANGED <<orderVars, topics>>

-----------------------------------------------------------------------------
(* Deliveries                                                              *)

Deliver(e) == e \in published /\ handled' = handled \cup {e} /\ UNCHANGED published

\* payment.success to the order service.
DeliverSuccess ==
    /\ announced
    /\ O!PaymentSuccess(Order)
    /\ UNCHANGED <<paymentVars, topics>>

\* A repeated order.created finds the payment.
DeliverCreated ==
    /\ Deliver("order.created")
    /\ P!CreatePayment
    /\ UNCHANGED <<orderVars, overtaken>>

\* cancel finds no payment and returns, or cancels the one there is.
DeliverCancelled ==
    /\ Deliver("order.cancelled")
    /\ \/ P!CancelRead /\ UNCHANGED overtaken
       \/ /\ P!ConsumerFree /\ payment = "none"
          /\ overtaken' = TRUE
          /\ UNCHANGED <<paymentVars, faults>>
    /\ UNCHANGED orderVars

Next == OrderStep \/ PaymentStep \/ DeliverSuccess \/ DeliverCreated \/ DeliverCancelled

Spec == Init /\ [][Next]_vars

\* Both services go on with what they have begun, and every event is
\* delivered once at least.
Fairness ==
    /\ O!Fairness /\ P!Fairness
    /\ WF_vars(DeliverSuccess /\ order[Order] = "PAYMENT_PENDING")
    /\ WF_vars(DeliverCreated)
    /\ WF_vars("order.cancelled" \notin handled /\ DeliverCancelled)

LiveSpec == Spec /\ Fairness

-----------------------------------------------------------------------------
(* Properties.                                                             *)

\* Goods are sent for money only: an order that is confirmed was charged.
ConfirmedWasCharged ==
    order[Order] = "CONFIRMING" => \E c \in Calls : gateway[c] = "paid"

\* A charge of a confirmed order is given back only if payment.success came
\* after the cancellation, or the finalizing job gave the payment up: no
\* other order of events makes the shop pay for the goods.
ConfirmedIsNotRefunded ==
    order[Order] = "CONFIRMING" /\ Order \notin revived /\ finalizing # "done"
        => \A c \in Calls : refunds[c] = 0

\* A charge that the payment service has confirmed to ZaloPay moves the order
\* on, or there is a refund attempt of it.
ConfirmedChargeIsSettled ==
    \A k \in Callbacks :
        cb[k] = "confirmed" ~> order[Order] # "PAYMENT_PENDING" \/ refunds[reported[k]] > 0

\* For the charges that are recorded when the payment service takes up a
\* cancellation, except those that a check forgets and those for which a
\* callback has made a refund attempt before (of a payment that the finalizing
\* job gave up: its request may name no charge), ZaloPay is asked for a refund
\* by the charge's name, and at most the request fails.  (A charge that is
\* recorded later, or whose payment is created later, may be kept.)
CancellationAsksForRefund ==
    \A c \in Calls :
        "order.cancelled" \in published \ handled /\ attempt[c] = "SUCCESS" /\ refunds[c] = 0
            ~> requested[c] \cap {"answered", "failed"} # {} \/ c \in missed

\* Seen from outside, the two services make one sale.
TheSale == INSTANCE Sale WITH
    stage <- order[Order],
    cancelled <- "order.cancelled" \in published,
    givenUp <- finalizing = "done",
    charged <- {c \in Calls : gateway[c] = "paid"},
    returned <- {c \in Calls : refunds[c] > 0}
SaleSpec == TheSale!Spec
=============================================================================
