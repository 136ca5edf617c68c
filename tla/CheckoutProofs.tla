--------------------------- MODULE CheckoutProofs ---------------------------
(***************************************************************************)
(* Proofs about Checkout, for every number of cancellations, of attempts   *)
(* at paying and of callbacks.  The invariant of PaymentsProofs holds of   *)
(* the payment service here too, since it sees nothing but its own steps;  *)
(* JointInv relates what it did to what the order service did.             *)
(***************************************************************************)
EXTENDS Checkout, TLAPS

PP == INSTANCE PaymentsProofs WITH
        FaultKinds <- {}, MaxFaults <- 0,
        status <- payment, pc <- call, target <- reported

Charged == \E c \in Calls : gateway[c] = "paid"

(* Awaits of create before the commit of the order.                        *)
Uncommitted == {"idle", "locking", "pricing", "reserving", "scheduling", "committing",
                "compensating"}

OrderTypes ==
    /\ order \in [{Order} -> {"none", "PAYMENT_PENDING", "CONFIRMING", "CANCELLED"}]
    /\ pc \in [{Order} -> Uncommitted \cup {"releasing", "caching", "answered", "refused", "failed"}]
    /\ job \in [{Order} -> {"none", "delayed", "done"}]
    /\ cancels \in [Cancels -> {Order, NoOrder}]
    /\ restocked \in [{Order} -> Nat]

(* No order comes before its commit, none has left CANCELLED but through a  *)
(* late payment, and the payment service is asked to cancel by that event   *)
(* only.                                                                   *)
JointInv ==
    /\ OrderTypes
    /\ pc[Order] \in Uncommitted => order[Order] = "none"
    /\ \A c \in Cancels : cancels[c] = Order => order[Order] # "none"
    /\ "order.cancelled" \in published => order[Order] = "CANCELLED" \/ Order \in revived
    /\ asked => "order.cancelled" \in published
    /\ ConfirmedWasCharged

IInv == PP!IInv /\ JointInv

-----------------------------------------------------------------------------
(* The payment service.  P and PP name the same steps.                      *)

LEMMA SameNext == P!Next <=> PP!Next
BY DEF P!payment, PP!payment, P!attempts, PP!attempts, P!jobs, PP!jobs, P!callback,
       PP!callback, P!requests, PP!requests, P!refund, PP!refund, P!history, PP!history, P!CallBusy,
       PP!CallBusy, P!Answers, PP!Answers, P!CheckBusy, PP!CheckBusy,
       P!FinalizeBusy, PP!FinalizeBusy, P!Holding, PP!Holding, P!Actors, PP!Actors,
       P!Fault, PP!Fault, P!GoTo, PP!GoTo, P!Holders, PP!Holders, P!LockedAttempt,
       PP!LockedAttempt, P!LockedPayment, PP!LockedPayment, P!ToPay, PP!ToPay,
       P!WritePayment, PP!WritePayment, P!ConsumerFree, PP!ConsumerFree,
       P!CreatePayment, PP!CreatePayment, P!QueueFinalizing, PP!QueueFinalizing,
       P!OpenAttempt, PP!OpenAttempt, P!OpenFails, PP!OpenFails, P!QueueCheck,
       PP!QueueCheck, P!QueueCheckFails, PP!QueueCheckFails, P!Payable, PP!Payable,
       P!PayRead, PP!PayRead, P!CanBePaid, PP!CanBePaid, P!PayFind, PP!PayFind,
       P!GatewaySettles, PP!GatewaySettles, P!UrlExpires, PP!UrlExpires,
       P!WorkerFree, PP!WorkerFree, P!Step, PP!Step, P!CheckRead, PP!CheckRead,
       P!CheckAsk, PP!CheckAsk, P!CheckAskFails, PP!CheckAskFails, P!AttemptStatus,
       PP!AttemptStatus, P!PaymentStatus, PP!PaymentStatus, P!TouchesPayment,
       PP!TouchesPayment, P!CheckConflict, PP!CheckConflict, P!CheckWrite,
       PP!CheckWrite, P!CheckAborts, PP!CheckAborts, P!UnderWay, PP!UnderWay,
       P!FinalizeCount, PP!FinalizeCount, P!FinalizeWrite, PP!FinalizeWrite, P!Go,
       PP!Go, P!Busy, PP!Busy, P!Reported, PP!Reported, P!Genuine, PP!Genuine,
       P!CallbackBegin, PP!CallbackBegin, P!GivenUp, PP!GivenUp, P!CallbackRead,
       PP!CallbackRead, P!CallbackPay, PP!CallbackPay, P!CallbackRemove,
       PP!CallbackRemove, P!Announce, PP!Announce, P!CallbackCommit,
       PP!CallbackCommit, P!CallbackFails, PP!CallbackFails, P!CancelRead,
       PP!CancelRead, P!CancelWrite, PP!CancelWrite, P!HandlerFails,
       PP!HandlerFails, P!CancelNext, PP!CancelNext, P!RefundReturns,
       PP!RefundReturns, P!RefundGoes, PP!RefundGoes, P!Refunded, PP!Refunded,
       P!RefundCheck, PP!RefundCheck, P!RefundCreate, PP!RefundCreate, P!Named,
       PP!Named, P!Request,
       PP!Request, P!RefundRequest, PP!RefundRequest, P!RefundFails, PP!RefundFails,
       P!RefundJob, PP!RefundJob,
       P!Crash, PP!Crash, P!CallStep, PP!CallStep, P!CheckStep, PP!CheckStep,
       P!WorkerStep, PP!WorkerStep, P!CallbackStep, PP!CallbackStep, P!RefundStep,
       PP!RefundStep, P!Next, PP!Next

LEMMA PaymentsAssumptions == PP!CallsAssumption /\ PP!PaymentEnvironment
BY ActorsAssumption DEF PP!CallsAssumption, PP!PaymentEnvironment, PP!AllFaultKinds

LEMMA PaymentsKeepInv == PP!IInv /\ (P!Next \/ UNCHANGED <<paymentVars, faults>>) => PP!IInv'
<1>1. UNCHANGED <<paymentVars, faults>> => UNCHANGED PP!vars
  BY DEF paymentVars, PP!vars, PP!payment, PP!attempts, PP!jobs, PP!callback, PP!refund,
         PP!requests, PP!history
<1> QED
  BY <1>1, SameNext, PaymentsAssumptions, PP!NextIInv

LEMMA StepsOfPayments ==
    PaymentStep \/ DeliverCreated \/ (DeliverCancelled /\ P!CancelRead) => P!Next
BY DEF PaymentStep, DeliverCreated, P!Next

Paid == {c \in Calls : gateway[c] = "paid"}
Back == {c \in Calls : refunds[c] > 0}
Over == finalizing = "done"

(* One step of the payment service settles one charge, records one refund   *)
(* of a payment given up, ends the time to pay, or does none of it: a       *)
(* charge is for ever, since only a call that has no order yet opens one.   *)
LEMMA PaymentsMove ==
    ASSUME PP!IInv, P!Next
    PROVE  \/ UNCHANGED <<Paid, Back, Over>>
           \/ /\ UNCHANGED <<Back, Over>>
              /\ \E c \in Calls \ Paid : Paid' = Paid \cup {c}
           \/ /\ UNCHANGED <<Paid, Back>>
              /\ Over'
           \/ /\ UNCHANGED <<Paid, Over>>
              /\ asked \/ Over
              /\ \E c \in Paid \ Back : Back' = Back \cup {c}
<1> USE DEF P!payment, P!attempts, P!jobs, P!callback, P!requests, P!refund, P!history
<1>0. gateway \in [Calls -> {"none", "open", "paid", "closed"}]
  BY DEF PP!IInv, PP!TypeOK, PP!Answers
<1>1. ASSUME NEW c \in Calls, P!OpenAttempt(c) PROVE UNCHANGED <<Paid, Back, Over>>
  <2>1. gateway[c] = "none"
    BY <1>1 DEF P!OpenAttempt, P!GoTo, PP!IInv, PP!ChargeInv, PP!Early
  <2>2. gateway' = [gateway EXCEPT ![c] = "open"] /\ UNCHANGED <<refunds, finalizing>>
    BY <1>1 DEF P!OpenAttempt
  <2> QED
    BY <1>0, <2>1, <2>2 DEF Paid, Back, Over
<1>2. ASSUME NEW c \in Calls, P!GatewaySettles(c)
      PROVE  /\ UNCHANGED <<Back, Over>>
             /\ \/ UNCHANGED Paid
                \/ \E d \in Calls \ Paid : Paid' = Paid \cup {d}
  <2>1. gateway[c] = "open" /\ UNCHANGED <<refunds, finalizing>>
    BY <1>2 DEF P!GatewaySettles
  <2>2. PICK outcome \in {"paid", "closed"} : gateway' = [gateway EXCEPT ![c] = outcome]
    BY <1>2 DEF P!GatewaySettles
  <2>3. CASE outcome = "paid"
    BY <1>0, <2>1, <2>2, <2>3 DEF Paid, Back, Over
  <2>4. CASE outcome = "closed"
    BY <1>0, <2>1, <2>2, <2>4 DEF Paid, Back, Over
  <2> QED
    BY <2>3, <2>4
<1>3. ASSUME NEW r \in refunding, P!RefundCreate(r)
      PROVE  /\ UNCHANGED <<Paid, Over>>
             /\ asked \/ Over
             /\ UNCHANGED Back \/ \E c \in Paid \ Back : Back' = Back \cup {c}
  <2>1. /\ r.of \in Paid /\ (asked \/ Over)
        /\ refunds \in [Calls -> Nat]
        /\ refunds' = [refunds EXCEPT ![r.of] = @ + 1]
        /\ UNCHANGED <<gateway, finalizing>>
    BY <1>3 DEF P!RefundCreate, PP!IInv, PP!TypeOK, PP!DueInv, PP!GaveUp, Paid, Over
  <2>2. Back' = Back \cup {r.of}
    BY <2>1 DEF Back, Paid
  <2> QED
    BY <2>1, <2>2 DEF Paid, Over
<1>4. ASSUME P!QueueFinalizing \/ P!FinalizeCount
      PROVE  UNCHANGED <<Paid, Back, Over>>
  <2>1. finalizing # "done" /\ finalizing' # "done" /\ UNCHANGED <<gateway, refunds>>
    BY <1>4 DEF P!QueueFinalizing, P!FinalizeCount, PP!IInv, PP!DueInv
  <2> QED
    BY <2>1 DEF Paid, Back, Over
<1>5. ASSUME P!FinalizeWrite PROVE UNCHANGED <<Paid, Back>> /\ Over'
  BY <1>5 DEF P!FinalizeWrite, Paid, Back, Over
<1>6. ASSUME UNCHANGED <<gateway, refunds, finalizing>> PROVE UNCHANGED <<Paid, Back, Over>>
  BY <1>6 DEF Paid, Back, Over
<1>7. ASSUME NEW c \in Calls, P!CallStep(c) \/ P!PayRead(c) \/ P!UrlExpires(c)
      PROVE  P!OpenAttempt(c) \/ UNCHANGED <<gateway, refunds, finalizing>>
  BY <1>7 DEF P!CallStep, P!OpenFails, P!QueueCheck, P!QueueCheckFails, P!PayFind,
              P!PayRead, P!UrlExpires
<1>8. ASSUME P!WorkerStep
      PROVE  P!FinalizeCount \/ P!FinalizeWrite \/ UNCHANGED <<gateway, refunds, finalizing>>
  BY <1>8 DEF P!WorkerStep, P!CheckStep, P!CheckRead, P!CheckAsk, P!CheckAskFails,
              P!CheckWrite, P!CheckAborts, P!RefundJob
<1>9. ASSUME NEW k \in Callbacks, P!CallbackBegin(k) \/ P!CallbackStep(k)
      PROVE  UNCHANGED <<gateway, refunds, finalizing>>
  BY <1>9 DEF P!CallbackBegin, P!CallbackStep, P!CallbackRead, P!CallbackPay,
              P!CallbackRemove, P!CallbackCommit, P!CallbackFails
<1>10. ASSUME NEW r \in refunding, P!RefundStep(r)
       PROVE  P!RefundCreate(r) \/ UNCHANGED <<gateway, refunds, finalizing>>
  BY <1>10 DEF P!RefundStep, P!RefundCheck, P!RefundRequest, P!RefundFails
<1>11. ASSUME \/ P!CreatePayment \/ P!CancelRead \/ P!CancelWrite \/ P!CancelNext
              \/ P!HandlerFails \/ P!Crash
       PROVE  UNCHANGED <<gateway, refunds, finalizing>>
  BY <1>11 DEF P!CreatePayment, P!CancelRead, P!CancelWrite, P!CancelNext,
               P!HandlerFails, P!Crash, P!Fault
<1> QED
  BY <1>1, <1>2, <1>3, <1>4, <1>5, <1>6, <1>7, <1>8, <1>9, <1>10, <1>11 DEF P!Next

LEMMA ChargedStays == ASSUME PP!IInv, P!Next, Charged PROVE Charged'
<1>1. Paid # {}
  BY DEF Charged, Paid
<1>2. Paid' # {}
  BY <1>1, PaymentsMove
<1> QED
  BY <1>2 DEF Charged, Paid

(* Only the delivery of order.cancelled asks for a cancellation.            *)
LEMMA AskedStays == PaymentStep \/ DeliverCreated => UNCHANGED asked
<1> USE DEF P!history
<1>1. ASSUME NEW c \in Calls,
             P!CallStep(c) \/ P!PayRead(c) \/ P!GatewaySettles(c) \/ P!UrlExpires(c)
      PROVE  UNCHANGED asked
  BY <1>1 DEF P!CallStep, P!OpenAttempt, P!OpenFails, P!QueueCheck, P!QueueCheckFails,
              P!PayFind, P!PayRead, P!GatewaySettles, P!UrlExpires
<1>2. ASSUME P!WorkerStep PROVE UNCHANGED asked
  BY <1>2 DEF P!WorkerStep, P!CheckStep, P!CheckRead, P!CheckAsk, P!CheckAskFails,
              P!CheckWrite, P!CheckAborts, P!FinalizeCount, P!FinalizeWrite, P!RefundJob
<1>3. ASSUME NEW k \in Callbacks, P!CallbackBegin(k) \/ P!CallbackStep(k)
      PROVE  UNCHANGED asked
  BY <1>3 DEF P!CallbackBegin, P!CallbackStep, P!CallbackRead, P!CallbackPay,
              P!CallbackRemove, P!CallbackCommit, P!CallbackFails
<1>4. ASSUME NEW r \in refunding, P!RefundStep(r) PROVE UNCHANGED asked
  BY <1>4 DEF P!RefundStep, P!RefundCheck, P!RefundCreate, P!RefundRequest, P!RefundFails
<1> QED
  BY <1>1, <1>2, <1>3, <1>4
  DEF PaymentStep, DeliverCreated, P!QueueFinalizing, P!CancelWrite, P!CancelNext,
      P!CreatePayment

-----------------------------------------------------------------------------
(* The order service confirms only when payment.success comes, and gives    *)
(* items back only with the status CANCELLED, or without an order.          *)
LEMMA OrderServiceStep ==
    ASSUME JointInv, OrderStep
    PROVE  /\ OrderTypes'
           /\ pc'[Order] \in Uncommitted => order'[Order] = "none"
           /\ \A c \in Cancels : cancels'[c] = Order => order'[Order] # "none"
           /\ order'[Order] = "CONFIRMING" => order[Order] = "CONFIRMING"
           /\ order[Order] = "CANCELLED" => order'[Order] = "CANCELLED"
           /\ restocked'[Order] > restocked[Order] /\ order[Order] # "none"
                 => order'[Order] = "CANCELLED"
           /\ UNCHANGED <<revived, faults>>
<1> USE DEF JointInv, OrderTypes, Uncommitted
<1> USE DEF O!redis, O!create, O!cancel, O!history, O!GoTo, O!Fault
<1> USE ActorsAssumption
<1>1. CASE O!CreateStep(Order)
  BY <1>1 DEF O!CreateStep, O!ReadCache, O!AcquireLock, O!Price, O!FailsEarly,
     O!Reserve, O!ReserveReplyLost, O!Schedule, O!ScheduleFails, O!Commit, O!CommitFails,
     O!Compensate, O!Items, O!CompensateFails, O!Release, O!CacheResult, O!CacheResultFails
<1>2. CASE O!JobStep(Order)
  BY <1>2 DEF O!JobStep, O!AutoCheck, O!AutoCancel, O!AutoEmit
<1>3. ASSUME NEW c \in Cancels, O!CancelLock(c) \/ O!CancelRead(c) \/ O!CancelFails(c)
      PROVE  /\ UNCHANGED <<order, pc, job, restocked, revived, faults>>
             /\ cancels' \in [Cancels -> {Order, NoOrder}]
             /\ \A d \in Cancels : cancels'[d] = Order => order[Order] # "none"
  BY <1>3 DEF O!CancelLock, O!CancelRead, O!CancelFails
<1>4. ASSUME NEW c \in Cancels, O!CancelCommit(c) \/ O!CancelCommitFails(c)
      PROVE  /\ UNCHANGED <<pc, job, cancels, revived, faults>>
             /\ order' = [order EXCEPT ![cancels[c]] = "CANCELLED"]
             /\ restocked' = [restocked EXCEPT ![cancels[c]] = @ + 1]
  BY <1>4 DEF O!CancelCommit, O!CancelCommitFails, O!CancelUpdate, O!MarkCancelled, O!Restock
<1>5. ASSUME NEW k \in {"create", "cancel"}, O!Expire(k)
      PROVE  UNCHANGED <<order, pc, job, cancels, restocked, revived, faults>>
  BY <1>5 DEF O!Expire
<1> QED
  BY <1>1, <1>2, <1>3, <1>4, <1>5 DEF OrderStep, O!CancelStep

LEMMA OrderStepJointInv == ASSUME JointInv, OrderStep PROVE JointInv'
<1>1. UNCHANGED <<asked, gateway>> /\ published' = published \cup PublishedNow
  BY DEF OrderStep, paymentVars
<1> QED
  BY <1>1, OrderServiceStep DEF JointInv, OrderTypes, PublishedNow, ConfirmedWasCharged

LEMMA PaymentStepJointInv ==
    ASSUME IInv, PaymentStep \/ DeliverCreated \/ DeliverCancelled PROVE JointInv'
<1>1. UNCHANGED <<orderVars, published>>
  BY DEF PaymentStep, DeliverCreated, DeliverCancelled, Deliver, topics
<1>2. Charged => Charged'
  BY StepsOfPayments, ChargedStays
  DEF IInv, DeliverCancelled, paymentVars, Charged
<1>3. asked' => asked \/ "order.cancelled" \in published
  BY AskedStays DEF DeliverCancelled, Deliver, paymentVars
<1> QED
  BY <1>1, <1>2, <1>3
  DEF IInv, JointInv, OrderTypes, orderVars, ConfirmedWasCharged, Charged

(* payment.success is in the outbox of charged payments only.               *)
LEMMA SuccessJointInv == ASSUME IInv, DeliverSuccess PROVE JointInv'
<1>1. Charged
  BY DEF IInv, PP!IInv, PP!ChargeInv, PP!OnlyChargesCount, DeliverSuccess, Charged
<1> QED
  BY <1>1 DEF IInv, JointInv, OrderTypes, DeliverSuccess, paymentVars, topics,
     O!PaymentSuccess, O!create, O!cancel, Uncommitted, ConfirmedWasCharged, Charged

-----------------------------------------------------------------------------
LEMMA InitIInv == Init => IInv
<1> SUFFICES ASSUME Init PROVE IInv
  OBVIOUS
<1>1. PP!Init
  BY DEF Init, P!Init, PP!Init
<1>2. PP!IInv
  BY <1>1, PaymentsAssumptions, PP!InitIInv
<1>3. JointInv
  BY ActorsAssumption DEF Init, O!Init, P!Init, JointInv, OrderTypes, Uncommitted, ConfirmedWasCharged
<1> QED
  BY <1>2, <1>3 DEF IInv

LEMMA NextIInv == IInv /\ [Next]_vars => IInv'
<1> SUFFICES ASSUME IInv, [Next]_vars PROVE IInv'
  OBVIOUS
<1>1. CASE OrderStep
  BY <1>1, OrderStepJointInv, OrderServiceStep, PaymentsKeepInv DEF IInv, OrderStep
<1>2. CASE PaymentStep \/ DeliverCreated \/ (DeliverCancelled /\ P!CancelRead)
  BY <1>2, PaymentStepJointInv, StepsOfPayments, PaymentsKeepInv DEF IInv
<1>3. CASE DeliverCancelled /\ UNCHANGED <<paymentVars, faults>>
  BY <1>3, PaymentStepJointInv, PaymentsKeepInv DEF IInv
<1>4. CASE DeliverSuccess
  BY <1>4, SuccessJointInv, PaymentsKeepInv DEF IInv, DeliverSuccess, O!PaymentSuccess
<1>5. CASE UNCHANGED vars
  <2>1. JointInv'
    BY <1>5 DEF vars, orderVars, paymentVars, topics, IInv, JointInv, OrderTypes,
                ConfirmedWasCharged
  <2> QED
    BY <1>5, <2>1, PaymentsKeepInv DEF IInv, vars
<1> QED
  BY <1>1, <1>2, <1>3, <1>4, <1>5 DEF Next, DeliverCancelled

THEOREM Invariance == Spec => []IInv
BY InitIInv, NextIInv, PTL DEF Spec

(* Goods are sent for money only: orders.paymentSuccess confirms on an      *)
(* event that zaloPayCallbackHandler writes for a charge.                   *)
THEOREM ConfirmedOrdersWereCharged == Spec => []ConfirmedWasCharged
<1>1. IInv => ConfirmedWasCharged
  BY DEF IInv, JointInv
<1> QED
  BY <1>1, Invariance, PTL

(* A refund has a reason: order.cancelled, which leaves no order confirmed  *)
(* unless a late payment revives it, or paymentFinalizing.                  *)
THEOREM ConfirmedOrdersAreNotRefunded == Spec => []ConfirmedIsNotRefunded
<1>1. IInv => ConfirmedIsNotRefunded
  BY DEF IInv, JointInv, OrderTypes, PP!IInv, PP!TypeOK, PP!DueInv, PP!RefundsAreDue,
         ConfirmedIsNotRefunded
<1> QED
  BY <1>1, Invariance, PTL

-----------------------------------------------------------------------------
(* The sale.                                                               *)

Stage == order[Order]
Announced == "order.cancelled" \in published
sale == <<Stage, Announced, Over, Paid, Back>>

(* The order service places the order, or cancels it and says so.           *)
LEMMA OrderMoves ==
    ASSUME JointInv, OrderStep
    PROVE  \/ UNCHANGED <<Stage, Announced>>
           \/ Stage = "none" /\ Stage' = "PAYMENT_PENDING" /\ UNCHANGED Announced
           \/ Stage # "none" /\ Stage' = "CANCELLED" /\ Announced'
<1> USE DEF JointInv, OrderTypes
<1> USE DEF O!redis, O!create, O!cancel, O!history, O!GoTo, O!Fault
<1> USE ActorsAssumption
<1>0. Announced' <=> Announced \/ "order.cancelled" \in PublishedNow
  BY DEF OrderStep, Announced
<1>1. ASSUME Stage = "none" \/ restocked'[Order] = restocked[Order] PROVE UNCHANGED Announced
  <2>1. ~ (Stage # "none" /\ restocked'[Order] > restocked[Order])
    BY <1>1
  <2>2. "order.cancelled" \notin PublishedNow
    BY <2>1 DEF PublishedNow, Stage
  <2> QED
    BY <1>0, <2>2 DEF Announced
<1>2. CASE O!CreateStep(Order)
  <2>1. \/ UNCHANGED <<order, restocked>>
        \/ Stage = "none" /\ UNCHANGED order
        \/ Stage = "none" /\ Stage' = "PAYMENT_PENDING"
    BY <1>2 DEF O!CreateStep, O!ReadCache, O!AcquireLock, O!Price, O!FailsEarly,
       O!Reserve, O!ReserveReplyLost, O!Schedule, O!ScheduleFails, O!Commit, O!CommitFails,
       O!Compensate, O!Items, O!CompensateFails, O!Release, O!CacheResult,
       O!CacheResultFails, Uncommitted, Stage
  <2> QED
    BY <1>1, <2>1 DEF Stage
<1>3. CASE O!JobStep(Order)
  <2>1. UNCHANGED <<order, restocked>>
    BY <1>3 DEF O!JobStep, O!AutoCheck, O!AutoCancel, O!AutoEmit
  <2> QED
    BY <1>1, <2>1 DEF Stage
<1>4. ASSUME NEW c \in Cancels, O!CancelStep(c)
      PROVE  \/ UNCHANGED <<order, restocked>>
             \/ Stage # "none" /\ Stage' = "CANCELLED" /\ restocked'[Order] = restocked[Order] + 1
  <2>1. CASE O!CancelLock(c) \/ O!CancelRead(c) \/ O!CancelFails(c)
    BY <2>1 DEF O!CancelLock, O!CancelRead, O!CancelFails
  <2>2. CASE O!CancelCommit(c) \/ O!CancelCommitFails(c)
    <3>1. /\ order' = [order EXCEPT ![cancels[c]] = "CANCELLED"]
          /\ restocked' = [restocked EXCEPT ![cancels[c]] = @ + 1]
      BY <2>2 DEF O!CancelCommit, O!CancelCommitFails, O!CancelUpdate, O!MarkCancelled,
                  O!Restock
    <3>2. CASE cancels[c] = Order
      BY <3>1, <3>2 DEF Stage
    <3>3. CASE cancels[c] # Order
      BY <3>1, <3>3
    <3> QED
      BY <3>2, <3>3
  <2> QED
    BY <1>4, <2>1, <2>2 DEF O!CancelStep
<1>5. ASSUME NEW c \in Cancels, O!CancelStep(c)
      PROVE  \/ UNCHANGED <<Stage, Announced>>
             \/ Stage # "none" /\ Stage' = "CANCELLED" /\ Announced'
  <2>1. CASE UNCHANGED <<order, restocked>>
    BY <1>1, <2>1 DEF Stage
  <2>2. CASE Stage # "none" /\ Stage' = "CANCELLED" /\ restocked'[Order] = restocked[Order] + 1
    <3>1. restocked'[Order] > restocked[Order]
      BY <2>2
    <3> QED
      BY <1>0, <2>2, <3>1 DEF PublishedNow, Events, Stage
  <2> QED
    BY <1>4, <1>5, <2>1, <2>2
<1>6. ASSUME NEW k \in {"create", "cancel"}, O!Expire(k) PROVE UNCHANGED <<Stage, Announced>>
  <2>1. UNCHANGED <<order, restocked>>
    BY <1>6 DEF O!Expire
  <2> QED
    BY <1>1, <2>1 DEF Stage
<1> QED
  BY <1>2, <1>3, <1>5, <1>6 DEF OrderStep

(* Whatever the order of the events between them, the order service and the *)
(* payment service make one sale: orders.paymentSuccess confirms charged    *)
(* orders only, and refund runs only after orders.cancel or                 *)
(* paymentFinalizing, once for each charge.                                 *)
THEOREM MakesASale == Spec => SaleSpec
<1> USE DEF sale, Stage, Announced, Over, Paid, Back
<1>1. Init => TheSale!Init
  BY DEF Init, O!Init, P!Init, TheSale!Init
<1> USE DEF TheSale!Next, TheSale!Place, TheSale!Charge, TheSale!Confirm, TheSale!Cancel,
            TheSale!GiveUp, TheSale!Return
<1>2. ASSUME IInv, [Next]_vars PROVE [TheSale!Next]_sale
  <2> USE <1>2
  <2>1. CASE OrderStep
    <3>1. UNCHANGED <<Over, Paid, Back>>
      BY <2>1 DEF OrderStep, paymentVars
    <3> QED
      BY <2>1, <3>1, OrderMoves DEF IInv
  <2>2. CASE PaymentStep \/ DeliverCreated \/ (DeliverCancelled /\ P!CancelRead)
    <3>1. UNCHANGED <<Stage, Announced>>
      BY <2>2 DEF PaymentStep, DeliverCreated, DeliverCancelled, Deliver, topics, orderVars
    <3>2. asked => Announced
      BY DEF IInv, JointInv
    <3>3. P!Next /\ PP!IInv
      BY <2>2, StepsOfPayments DEF IInv
    <3>4. CASE UNCHANGED <<Paid, Back, Over>>
      BY <3>1, <3>4
    <3>5. ASSUME NEW c \in Calls \ Paid, UNCHANGED <<Back, Over>>, Paid' = Paid \cup {c}
          PROVE  TheSale!Charge(c)
      BY <3>1, <3>5
    <3>6. CASE UNCHANGED <<Paid, Back>> /\ Over'
      BY <3>1, <3>6
    <3>7. ASSUME NEW c \in Paid \ Back, UNCHANGED <<Paid, Over>>, asked \/ Over,
                 Back' = Back \cup {c}
          PROVE  c \in Calls /\ TheSale!Return(c)
      BY <3>1, <3>2, <3>7
    <3> QED
      BY <3>3, <3>4, <3>5, <3>6, <3>7, PaymentsMove
  <2>3. CASE DeliverCancelled /\ UNCHANGED <<paymentVars, faults>>
    BY <2>3 DEF DeliverCancelled, Deliver, paymentVars, orderVars
  <2>4. CASE DeliverSuccess
    <3>1. Paid # {}
      BY <2>4 DEF IInv, PP!IInv, PP!ChargeInv, PP!OnlyChargesCount, DeliverSuccess
    <3>2. /\ Stage # "none" /\ Stage' = "CONFIRMING"
          /\ UNCHANGED <<Announced, Over, Paid, Back>>
      BY <2>4 DEF DeliverSuccess, O!PaymentSuccess, IInv, JointInv, OrderTypes,
                  paymentVars, topics
    <3> QED
      BY <3>1, <3>2
  <2>5. CASE UNCHANGED vars
    BY <2>5 DEF vars, orderVars, paymentVars, topics
  <2> QED
    BY <2>1, <2>2, <2>3, <2>4, <2>5 DEF Next, DeliverCancelled
<1> QED
  BY Invariance, <1>1, <1>2, PTL DEF Spec, SaleSpec, TheSale!Spec
=============================================================================
