------------------------------ MODULE Payments ------------------------------
(***************************************************************************)
(* The payment of one order: PaymentService and ZaloPayService.  Five      *)
(* kinds of actor touch it: the Kafka consumer (order.created and          *)
(* order.cancelled, one at a time), calls of payment.pay, ZaloPay's        *)
(* callbacks, the BullMQ worker (paymentAttempt.auto-check,                *)
(* payment.finalizing and refundAttempt.auto-check, one at a time), and    *)
(* ZaloPay with the customer.                                              *)
(*                                                                         *)
(* A call makes at most one payment attempt, which is named after it.  A   *)
(* callback is a MongoDB transaction that writes the attempt first, so     *)
(* that it excludes other transactions from the attempt, but reads the     *)
(* payment and makes refunds outside of it.                                *)
(***************************************************************************)
EXTENDS Naturals, FiniteSets

CONSTANTS
    Calls,        \* calls that may make an attempt
    FirstCall,    \* the one of the order.created handler; the others pay
    Callbacks,    \* calls of zaloPayCallbackHandler
    Consumer,     \* the consumer, as the one who refunds
    Casts,        \* whether mongoose casts { $set: { remaining: { $inc } } }
    FaultKinds,
    MaxFaults

AllFaultKinds == {"rpc", "commitFails", "crash"}

ASSUME CallsAssumption == FirstCall \in Calls /\ Consumer \notin Callbacks
ASSUME PaymentEnvironment ==
    /\ Casts \subseteq BOOLEAN
    /\ FaultKinds \subseteq AllFaultKinds
    /\ MaxFaults \in Nat

VARIABLES
    status,       \* payment.status, "none" before it is created
    announced,    \* a payment.success event is in the outbox
    attempt,      \* attempt[c]: the status of the attempt
    live,         \* attempts whose payUrl has not expired
    gateway,      \* gateway[c]: the order at ZaloPay
    pc,           \* pc[c]: the next await of a call
    check,        \* check[c]: the job paymentAttempt.auto-check
    seen,         \* the payment status that job has read
    finalizing,   \* the job payment.finalizing
    cb,           \* cb[k]: the next await of a callback
    target,       \* target[k]: the attempt it is about
    pays,         \* callbacks whose transaction has written the payment
    stale,        \* callbacks whose snapshot of the payment is old
    consumer,     \* the next await of the consumer
    toRefund,     \* attempts it has yet to refund
    refunding,    \* calls of refund under way
    refunds,      \* refunds[c]: refund attempts
    requested,    \* requested[c]: what came of the requests for its refund
    refundJobs,   \* jobs refundAttempt.auto-check in the queue
    faults,
    asked,        \* history: an order.cancelled was handled
    interrupted,  \* history: a fault ended a cancellation or a refund
    raced,        \* history: calls that found nothing while an attempt was made
    missed,       \* history: attempts whose outcome no check will record
    overwritten,  \* history: the finalizing job replaced a final status
    repeated      \* history: attempts called back again after a success

payment == <<status, announced>>
attempts == <<attempt, live, gateway, pc>>
jobs == <<check, seen, finalizing>>
callback == <<cb, target, pays, stale>>
requests == <<requested, refundJobs>>
refund == <<consumer, toRefund, refunding, refunds, requests>>
history == <<asked, interrupted, raced, missed, overwritten, repeated>>
vars == <<payment, attempts, jobs, callback, refund, faults, history>>

Statuses == {"none", "PENDING", "PAID", "FINALIZING", "CANCELLED"}
CallBusy == {"finding", "opening", "queueing"}
Answers == {"open", "paid", "closed"}
CheckBusy == Answers \cup {"asking"}
FinalizeBusy == {"FINALIZING", "CANCELLED"}
Holding == {"reading", "refunding", "paying", "removing", "committing"}
Actors == Callbacks \cup {Consumer}

TypeOK ==
    /\ status \in Statuses
    /\ announced \in BOOLEAN
    /\ attempt \in [Calls -> {"none", "PROCESSING", "SUCCESS", "FAILED"}]
    /\ live \subseteq Calls
    /\ gateway \in [Calls -> Answers \cup {"none"}]
    /\ pc \in [Calls -> CallBusy \cup {"idle", "answered", "failed"}]
    /\ check \in [Calls -> CheckBusy \cup {"none", "delayed", "done"}]
    /\ seen \in Statuses
    /\ finalizing \in FinalizeBusy \cup {"none", "delayed", "done"}
    /\ cb \in [Callbacks -> Holding \cup {"idle", "confirmed", "refused"}]
    /\ target \in [Callbacks -> Calls]
    /\ pays \subseteq Callbacks
    /\ stale \subseteq Callbacks
    /\ consumer \in {"idle", "queueing", "cancelling", "refunding"}
    /\ toRefund \subseteq Calls
    /\ refunding \subseteq [by : Actors, of : Calls, step : {"check", "create", "request"}]
    /\ refunds \in [Calls -> Nat]
    /\ requested \in [Calls -> SUBSET {"answered", "failed", "nameless"}]
    /\ refundJobs \in Nat
    /\ faults \in 0 .. MaxFaults
    /\ asked \in BOOLEAN
    /\ interrupted \in BOOLEAN
    /\ raced \subseteq Calls
    /\ missed \subseteq Calls
    /\ overwritten \in BOOLEAN
    /\ repeated \subseteq Calls

Init ==
    /\ status = "none"
    /\ announced = FALSE
    /\ attempt = [c \in Calls |-> "none"]
    /\ live = {}
    /\ gateway = [c \in Calls |-> "none"]
    /\ pc = [c \in Calls |-> "idle"]
    /\ check = [c \in Calls |-> "none"]
    /\ seen = "none"
    /\ finalizing = "none"
    /\ cb = [k \in Callbacks |-> "idle"]
    /\ target = [k \in Callbacks |-> FirstCall]
    /\ pays = {}
    /\ stale = {}
    /\ consumer = "idle"
    /\ toRefund = {}
    /\ refunding = {}
    /\ refunds = [c \in Calls |-> 0]
    /\ requested = [c \in Calls |-> {}]
    /\ refundJobs = 0
    /\ faults = 0
    /\ asked = FALSE
    /\ interrupted = FALSE
    /\ raced = {}
    /\ missed = {}
    /\ overwritten = FALSE
    /\ repeated = {}

Fault(kind) ==
    /\ kind \in FaultKinds
    /\ faults < MaxFaults
    /\ faults' = faults + 1

GoTo(c, from, to) == pc[c] = from /\ pc' = [pc EXCEPT ![c] = to]

\* Transactions exclude each other, and single writes wait for them.
Holders == {k \in Callbacks : cb[k] \in Holding}
LockedAttempt(c) == \E k \in Holders : target[k] = c
LockedPayment == pays # {}

\* A committed write of the payment, which the snapshot of a callback that is
\* yet to write it does not have.
ToPay == {k \in Callbacks : cb[k] \in {"reading", "paying"}}
WritePayment(s) == status' = s /\ stale' = stale \cup ToPay

-----------------------------------------------------------------------------
(* order.created, and the making of attempts                               *)

\* The consumer handles one event at a time.
ConsumerFree == consumer = "idle" /\ pc[FirstCall] \notin CallBusy

\* create: there is no payment yet; a repeated event finds one and returns.
CreatePayment ==
    /\ ConsumerFree
    /\ status = "none"
    /\ WritePayment("PENDING")
    /\ consumer' = "queueing"
    /\ UNCHANGED <<announced, attempts, jobs, cb, target, pays, toRefund, refunding, refunds,
                   requests, faults, history>>

\* The job payment.finalizing, due in 10 minutes.
QueueFinalizing ==
    /\ consumer = "queueing"
    /\ consumer' = "idle"
    /\ finalizing' = "delayed"
    /\ GoTo(FirstCall, "idle", "opening")
    /\ UNCHANGED <<payment, attempt, live, gateway, check, seen, callback, toRefund, refunding,
                   refunds, requests, faults, history>>

\* createPaymentAttempt: ZaloPay opens an order, and the attempt is stored.
OpenAttempt(c) ==
    /\ GoTo(c, "opening", "queueing")
    /\ gateway' = [gateway EXCEPT ![c] = "open"]
    /\ attempt' = [attempt EXCEPT ![c] = "PROCESSING"]
    /\ live' = live \cup {c}
    /\ UNCHANGED <<payment, jobs, callback, refund, faults, history>>

\* ZaloPay fails or the method is COD: payData is undefined or null, taking
\* it apart throws, and no attempt is stored.
OpenFails(c) ==
    /\ GoTo(c, "opening", "failed")
    /\ UNCHANGED <<payment, attempt, live, gateway, jobs, callback, refund, faults, history>>

\* The job paymentAttempt.auto-check, due when the payUrl expires.
QueueCheck(c) ==
    /\ GoTo(c, "queueing", "answered")
    /\ check' = [check EXCEPT ![c] = "delayed"]
    /\ UNCHANGED <<payment, attempt, live, gateway, seen, finalizing, callback, refund,
                   faults, history>>

QueueCheckFails(c) ==
    /\ GoTo(c, "queueing", "failed")
    /\ Fault("rpc")
    /\ missed' = missed \cup {c}
    /\ UNCHANGED <<payment, attempt, live, gateway, jobs, callback, refund, asked,
                   interrupted, raced, overwritten, repeated>>

-----------------------------------------------------------------------------
(* payment.pay                                                             *)

\* pay: a payment that is PAID or FINALIZING, or none, is an error; one that
\* is CANCELLED is not.
Payable == status \in {"PENDING", "CANCELLED"}

PayRead(c) ==
    /\ c # FirstCall
    /\ GoTo(c, "idle", IF Payable THEN "finding" ELSE "failed")
    /\ UNCHANGED <<payment, attempt, live, gateway, jobs, callback, refund, faults, history>>

\* An attempt under way, and a variant whose $gt is a $lt.
HasExpired(a) == a \notin live /\ attempt[a] = "PROCESSING"
CanBePaid(a) == a \in live /\ attempt[a] = "PROCESSING"

\* Its URL is given again, or a new attempt is made.
PayFind(c) ==
    /\ LET found == \E a \in Calls : CanBePaid(a)
           making == consumer = "queueing" \/ \E d \in Calls : pc[d] = "opening"
       IN  /\ GoTo(c, "finding", IF found THEN "answered" ELSE "opening")
           /\ raced' = IF making /\ ~found THEN raced \cup {c} ELSE raced
    /\ UNCHANGED <<payment, attempt, live, gateway, jobs, callback, refund, faults, asked,
                   interrupted, missed, overwritten, repeated>>

-----------------------------------------------------------------------------
(* ZaloPay, the customer, and time                                         *)

\* The customer pays, or the order closes unpaid.
GatewaySettles(c) ==
    /\ gateway[c] = "open"
    /\ \E outcome \in {"paid", "closed"} : gateway' = [gateway EXCEPT ![c] = outcome]
    /\ UNCHANGED <<payment, attempt, live, pc, jobs, callback, refund, faults, history>>

UrlExpires(c) ==
    /\ c \in live
    /\ live' = live \ {c}
    /\ UNCHANGED <<payment, attempt, gateway, pc, jobs, callback, refund, faults, history>>

-----------------------------------------------------------------------------
(* The worker                                                              *)

\* It runs one job at a time.
WorkerFree ==
    /\ \A c \in Calls : check[c] \notin CheckBusy
    /\ finalizing \notin FinalizeBusy

Step(c, from, to) == check[c] \in from /\ check' = [check EXCEPT ![c] = to]

\* zaloPayQuery reads the attempt and the payment.
CheckRead(c) ==
    /\ WorkerFree
    /\ c \notin live
    /\ Step(c, {"delayed"}, "asking")
    /\ seen' = status
    /\ UNCHANGED <<payment, attempts, finalizing, callback, refund, faults, history>>

\* ZaloPay answers with what the order is now.  An attempt found open is not
\* checked again.
CheckAsk(c) ==
    /\ Step(c, {"asking"}, gateway[c])
    /\ missed' = IF gateway[c] = "open" THEN missed \cup {c} ELSE missed
    /\ UNCHANGED <<payment, attempts, seen, finalizing, callback, refund, faults, asked,
                   interrupted, raced, overwritten, repeated>>

\* The query fails, or its answer is empty: the job is over.
CheckAskFails(c) ==
    /\ Step(c, {"asking"}, "done")
    /\ Fault("rpc")
    /\ missed' = missed \cup {c}
    /\ seen' = "none"
    /\ UNCHANGED <<payment, attempts, finalizing, callback, refund, asked, interrupted,
                   raced, overwritten, repeated>>

\* return_code 1, 3 and any other; a variant that forgets the first, and one
\* that takes every answer for it.
NeverSuccess(answer) == IF answer = "open" THEN "PROCESSING" ELSE "FAILED"
AnyAnswerSucceeds(answer) == "SUCCESS"
AttemptStatus(answer) ==
    CASE answer = "paid" -> "SUCCESS" [] answer = "open" -> "PROCESSING" [] OTHER -> "FAILED"

\* Variants that write the status of an attempt, or leave out code 2.
StatusOfAttempt(answer) == IF answer = "paid" THEN "SUCCESS" ELSE status
PaidOnly(answer) == IF answer = "paid" THEN "PAID" ELSE status

\* What the transaction makes of the payment: code 1 is PAID whatever the
\* payment is, code 2 ends one that was read as FINALIZING.
PaymentStatus(answer) ==
    CASE answer = "paid" -> "PAID"
      [] answer = "closed" /\ seen = "FINALIZING" -> "CANCELLED"
      [] OTHER -> status
TouchesPayment(answer) ==
    answer = "paid" \/ (answer = "closed" /\ seen = "FINALIZING")

\* The update of the attempt or of the payment meets a callback's.
CheckConflict(c) ==
    LockedAttempt(c) \/ (TouchesPayment(check[c]) /\ LockedPayment)

CheckWrite(c) ==
    /\ Step(c, Answers, "done")
    /\ ~CheckConflict(c)
    /\ attempt' = [attempt EXCEPT ![c] = AttemptStatus(check[c])]
    /\ status' = PaymentStatus(check[c])
    /\ stale' = IF TouchesPayment(check[c]) THEN stale \cup ToPay ELSE stale
    /\ seen' = "none"
    /\ UNCHANGED <<announced, live, gateway, pc, finalizing, cb, target, pays, refund, faults,
                   history>>

\* The transaction aborts, which is logged; the job is over.
CheckAborts(c) ==
    /\ Step(c, Answers, "done")
    /\ \/ CheckConflict(c) /\ UNCHANGED faults
       \/ Fault("commitFails")
    /\ missed' = missed \cup {c}
    /\ seen' = "none"
    /\ UNCHANGED <<payment, attempts, finalizing, callback, refund, asked, interrupted,
                   raced, overwritten, repeated>>

\* countDocuments of the attempts in PROCESSING.
UnderWay == \E c \in Calls : attempt[c] = "PROCESSING"

\* paymentFinalizing decides from the attempts alone.  Its delay is twice the
\* life of the first URL.
FinalizeCount ==
    /\ WorkerFree
    /\ finalizing = "delayed"
    /\ FirstCall \notin live
    /\ finalizing' = IF UnderWay THEN "FINALIZING" ELSE "CANCELLED"
    /\ UNCHANGED <<payment, attempts, check, seen, callback, refund, faults, history>>

\* ... and writes whatever the payment is by then.
FinalizeWrite ==
    /\ finalizing \in FinalizeBusy
    /\ ~LockedPayment
    /\ WritePayment(finalizing)
    /\ finalizing' = "done"
    /\ overwritten' = (overwritten \/ status \in {"PAID", "CANCELLED"})
    /\ UNCHANGED <<announced, attempts, check, seen, cb, target, pays, refund, faults, asked,
                   interrupted, raced, missed, repeated>>

-----------------------------------------------------------------------------
(* zaloPayCallbackHandler                                                  *)

Go(k, from, to) == cb[k] = from /\ cb' = [cb EXCEPT ![k] = to]

\* A variant without the transaction's lock on the attempt.
NeverBusy(c) == FALSE
Busy(c) == LockedAttempt(c)

Reported(c) ==
    attempt[c] = "SUCCESS" \/ \E k \in Callbacks : cb[k] = "confirmed" /\ target[k] = c

\* The mac tells ZaloPay's reports, which are of payments, from others, which
\* may be of any order it opened; a variant does not look at it.
AnyReport(c) == gateway[c] # "none"
Genuine(c) == gateway[c] = "paid"

\* ZaloPay reports a payment, once or again.  findOneAndUpdate of the attempt
\* opens the transaction; it fails if another transaction has the attempt.
CallbackBegin(k) ==
    /\ \E c \in Calls :
          /\ Genuine(c)
          /\ target' = [target EXCEPT ![k] = c]
          /\ Go(k, "idle", IF Busy(c) THEN "refused" ELSE "reading")
          /\ repeated' = IF Reported(c) THEN repeated \cup {c} ELSE repeated
    /\ UNCHANGED <<payment, attempts, jobs, pays, stale, refund, faults, asked,
                   interrupted, raced, missed, overwritten>>

\* Whether the charge is given back, and a variant that keeps only the first.
NoLongerPending == status # "PENDING"
GivenUp == status = "CANCELLED"

\* The payment is read outside of the session: a cancelled one is refunded.
CallbackRead(k) ==
    /\ Go(k, "reading", IF GivenUp THEN "refunding" ELSE "paying")
    /\ refunding' = IF GivenUp
                    THEN refunding \cup {[by |-> k, of |-> target[k], step |-> "check"]}
                    ELSE refunding
    /\ stale' = IF GivenUp THEN stale \ {k} ELSE stale
    /\ UNCHANGED <<payment, attempts, jobs, target, pays, consumer, toRefund, refunds,
                   requests, faults, history>>

\* The update of the payment: a CastError if mongoose refuses the $inc, a
\* write conflict if the payment changed since the snapshot.
CallbackPay(k) ==
    /\ \E cast \in Casts :
          LET ok == cast /\ k \notin stale /\ ~LockedPayment
          IN  /\ Go(k, "paying", IF ok THEN "removing" ELSE "refused")
              /\ pays' = IF ok THEN pays \cup {k} ELSE pays
    /\ stale' = stale \ {k}
    /\ UNCHANGED <<payment, attempts, jobs, target, refund, faults, history>>

\* paymentQueue.remove, which leaves a job that is running alone.
CallbackRemove(k) ==
    /\ Go(k, "removing", "committing")
    /\ check' = [check EXCEPT ![target[k]] = IF @ = "delayed" THEN "none" ELSE @]
    /\ UNCHANGED <<payment, attempts, seen, finalizing, target, pays, stale, refund, faults,
                   history>>

\* payment.success in the outbox; a variant that leaves out late payments.
AnnounceOnTime == announced' = (announced \/ status = "PENDING")
Announce == announced' = TRUE

CallbackCommit(k) ==
    /\ Go(k, "committing", "confirmed")
    /\ attempt' = [attempt EXCEPT ![target[k]] = "SUCCESS"]
    /\ IF k \in pays
       THEN WritePayment("PAID") /\ Announce
       ELSE UNCHANGED <<payment, stale>>
    /\ pays' = pays \ {k}
    /\ UNCHANGED <<live, gateway, pc, jobs, target, refund, faults, history>>

\* Any other error aborts the transaction; the removal of the job stays.
CallbackFails(k) ==
    /\ \E from \in Holding \ {"refunding"} : Go(k, from, "refused")
    /\ Fault("commitFails")
    /\ missed' = IF cb[k] = "committing" THEN missed \cup {target[k]} ELSE missed
    /\ pays' = pays \ {k}
    /\ stale' = stale \ {k}
    /\ UNCHANGED <<payment, attempts, jobs, target, refund, asked, interrupted, raced,
                   overwritten, repeated>>

-----------------------------------------------------------------------------
(* order.cancelled and refunds                                             *)

\* cancel reads the payment and the attempts that have succeeded.
CancelRead ==
    /\ ConsumerFree
    /\ status # "none"
    /\ consumer' = "cancelling"
    /\ toRefund' = {c \in Calls : attempt[c] = "SUCCESS"}
    /\ asked' = TRUE
    /\ UNCHANGED <<payment, attempts, jobs, callback, refunding, refunds, requests, faults,
                   interrupted, raced, missed, overwritten, repeated>>

CancelWrite ==
    /\ consumer = "cancelling"
    /\ ~LockedPayment
    /\ WritePayment("CANCELLED")
    /\ consumer' = "refunding"
    /\ UNCHANGED <<announced, attempts, jobs, cb, target, pays, toRefund, refunding, refunds,
                   requests, faults, history>>

\* A handler throws, and its event comes again.  A repeated order.created
\* finds the payment: the job that was not queued never is.
HandlerFails ==
    /\ consumer \in {"queueing", "cancelling"}
    /\ Fault("rpc")
    /\ consumer' = "idle"
    /\ toRefund' = {}
    /\ interrupted' = TRUE
    /\ UNCHANGED <<payment, attempts, jobs, callback, refunding, refunds, requests, asked,
                   raced, missed, overwritten, repeated>>

\* The loop: refund the next attempt, or return.
CancelNext ==
    /\ consumer = "refunding"
    /\ \A r \in refunding : r.by # Consumer
    /\ \/ /\ toRefund = {}
          /\ consumer' = "idle"
          /\ UNCHANGED <<toRefund, refunding>>
       \/ \E c \in toRefund :
             /\ toRefund' = toRefund \ {c}
             /\ refunding' = refunding \cup {[by |-> Consumer, of |-> c, step |-> "check"]}
             /\ UNCHANGED consumer
    /\ UNCHANGED <<payment, attempts, jobs, callback, refunds, requests, faults, history>>

\* refund returns; a callback goes on.
RefundReturns(r) ==
    /\ refunding' = refunding \ {r}
    /\ cb' = [k \in Callbacks |-> IF k = r.by THEN "removing" ELSE cb[k]]

RefundGoes(r, to) == refunding' = (refunding \ {r}) \cup {[r EXCEPT !.step = to]}

\* findOne: an attempt is refunded once.  No refund attempt is ever FAILED.  A
\* variant that returns the wrong way around.
NotRefunded(c) == refunds[c] = 0
Refunded(c) == refunds[c] > 0

RefundCheck(r) ==
    /\ r.step = "check"
    /\ IF Refunded(r.of) THEN RefundReturns(r)
                         ELSE RefundGoes(r, "create") /\ UNCHANGED cb
    /\ UNCHANGED <<payment, attempts, jobs, target, pays, stale, consumer, toRefund, refunds,
                   requests, faults, history>>

RefundCreate(r) ==
    /\ r.step = "create"
    /\ RefundGoes(r, "request")
    /\ refunds' = [refunds EXCEPT ![r.of] = @ + 1]
    /\ UNCHANGED <<payment, attempts, jobs, callback, consumer, toRefund, requests, faults,
                   history>>

\* The document handed to refund names the charge.  The consumer's are of
\* recorded successes; a callback's is the one from before its own update,
\* which has a transactionId only if a success was recorded already (a query
\* of an order that is still open is taken to answer with none).
Named(r) == r.by = Consumer \/ attempt[r.of] = "SUCCESS"

\* requestZaloPayRefund fails, or ZaloPay answers, whatever it says.
Request(r) ==
    \E outcome \in {"failed", IF Named(r) THEN "answered" ELSE "nameless"} :
        requested' = [requested EXCEPT ![r.of] = @ \cup {outcome}]

\* Both ways the refund attempt becomes PROCESSING, its job
\* refundAttempt.auto-check is queued and refund returns: a failed request
\* is caught, and nobody repeats it.
RefundRequest(r) ==
    /\ r.step = "request"
    /\ Request(r)
    /\ RefundReturns(r)
    /\ refundJobs' = refundJobs + 1
    /\ UNCHANGED <<payment, attempts, jobs, target, pays, stale, consumer, toRefund, refunds,
                   faults, history>>

\* A query fails, or what follows the request: the callback's transaction
\* aborts, the consumer's handler throws and its event comes again.
RefundFails(r) ==
    /\ Fault("rpc")
    /\ IF r.step = "request" THEN Request(r) ELSE UNCHANGED requested
    /\ refunding' = refunding \ {r}
    /\ cb' = [k \in Callbacks |-> IF k = r.by THEN "refused" ELSE cb[k]]
    /\ IF r.by = Consumer THEN consumer' = "idle" /\ toRefund' = {}
                          ELSE UNCHANGED <<consumer, toRefund>>
    /\ interrupted' = TRUE
    /\ UNCHANGED <<payment, attempts, jobs, target, pays, stale, refunds, refundJobs, asked,
                   raced, missed, overwritten, repeated>>

\* The job refundAttempt.auto-check: its handler takes a field that none of
\* its payloads has, finds no refund attempt and throws.  The job is removed.
RefundJob ==
    /\ WorkerFree
    /\ refundJobs > 0
    /\ refundJobs' = refundJobs - 1
    /\ UNCHANGED <<payment, attempts, jobs, callback, consumer, toRefund, refunding, refunds,
                   requested, faults, history>>

-----------------------------------------------------------------------------
\* The service dies.  Calls, callbacks and transactions are gone, a job that
\* was running is run again, and an event that was being handled comes again:
\* order.created then finds a payment, order.cancelled starts over.
Crash ==
    /\ Fault("crash")
    /\ pc' = [c \in Calls |-> IF pc[c] \in CallBusy THEN "failed" ELSE pc[c]]
    /\ check' = [c \in Calls |-> IF check[c] \in CheckBusy THEN "delayed" ELSE check[c]]
    /\ finalizing' = IF finalizing \in FinalizeBusy THEN "delayed" ELSE finalizing
    /\ cb' = [k \in Callbacks |-> IF k \in Holders THEN "refused" ELSE cb[k]]
    /\ consumer' = "idle"
    /\ toRefund' = {}
    /\ refunding' = {}
    /\ missed' = missed \cup {c \in Calls : pc[c] = "queueing"}
                        \cup {target[k] : k \in {h \in Holders : cb[h] = "committing"}}
    /\ seen' = "none"
    /\ pays' = {}
    /\ stale' = {}
    /\ interrupted' = TRUE
    /\ UNCHANGED <<payment, attempt, live, gateway, target, refunds, requests, asked, raced,
                   overwritten, repeated>>

CallStep(c) ==
    OpenAttempt(c) \/ OpenFails(c) \/ QueueCheck(c) \/ QueueCheckFails(c) \/ PayFind(c)
CheckStep(c) ==
    CheckRead(c) \/ CheckAsk(c) \/ CheckAskFails(c) \/ CheckWrite(c) \/ CheckAborts(c)
WorkerStep == (\E c \in Calls : CheckStep(c)) \/ FinalizeCount \/ FinalizeWrite \/ RefundJob
CallbackStep(k) ==
    CallbackRead(k) \/ CallbackPay(k) \/ CallbackRemove(k) \/ CallbackCommit(k) \/ CallbackFails(k)
RefundStep(r) ==
    RefundCheck(r) \/ RefundCreate(r) \/ RefundRequest(r) \/ RefundFails(r)

Next ==
    \/ CreatePayment \/ QueueFinalizing
    \/ \E c \in Calls : CallStep(c) \/ PayRead(c) \/ GatewaySettles(c) \/ UrlExpires(c)
    \/ WorkerStep
    \/ \E k \in Callbacks : CallbackBegin(k) \/ CallbackStep(k)
    \/ CancelRead \/ CancelWrite \/ CancelNext \/ HandlerFails
    \/ \E r \in refunding : RefundStep(r)
    \/ Crash

Spec == Init /\ [][Next]_vars

\* Calls, handlers and jobs that were started go on, and URLs expire.
\* Customers need not pay, and ZaloPay need not call back.
Fairness ==
    /\ \A c \in Calls : WF_vars(CallStep(c)) /\ WF_vars(UrlExpires(c))
    /\ WF_vars(WorkerStep)
    /\ \A k \in Callbacks : WF_vars(CallbackStep(k))
    /\ WF_vars(QueueFinalizing \/ CancelWrite \/ CancelNext)
    /\ \A a \in Actors : WF_vars(\E r \in refunding : r.by = a /\ RefundStep(r))

LiveSpec == Spec /\ Fairness

-----------------------------------------------------------------------------
(* Properties.                                                             *)

\* What the service takes for paid, tells the order service or calls a
\* success was charged: a query's answer and a repeated or late callback
\* never make it up.
OnlyChargesCount ==
    /\ \A c \in Calls : attempt[c] = "SUCCESS" => gateway[c] = "paid"
    /\ status = "PAID" \/ announced => \E c \in Calls : gateway[c] = "paid"

\* A refund is of an attempt that was charged, and of a payment that the
\* order or the finalizing job gave up.
RefundsAreDue ==
    \A c \in Calls :
        refunds[c] > 0 => gateway[c] = "paid" /\ (asked \/ finalizing = "done")

\* An attempt is refunded once, unless ZaloPay reports it again while the
\* cancellation is refunding it: the check for an existing refund is not
\* atomic, but callbacks of one attempt exclude each other.
RefundedOnce == \A c \in Calls : refunds[c] > 1 => c \in repeated

ToBeRefunded(c) ==
    \/ consumer = "cancelling" /\ c \in toRefund
    \/ \E k \in Callbacks : cb[k] = "refunding" /\ target[k] = c

\* For every charge that a cancellation read, and for the one that a callback
\* reports to a payment given up, ZaloPay is asked for a refund once at least,
\* also when one of them finds the refund attempt of the other; unless a fault
\* ends it.  A request that fails, or names no charge, is all there will be.
RefundsAreRequested ==
    \A c \in Calls : ToBeRefunded(c) ~> requested[c] # {} \/ interrupted

\* A recorded success is forgotten only through a query that ZaloPay
\* answered before the customer had paid.
SuccessIsKept ==
    [][\A c \in Calls : attempt[c] = "SUCCESS" /\ attempt'[c] # "SUCCESS"
                            => check[c] = "open"]_vars

\* Reconciliation: a charge whose check is still to come is recorded, with
\* or without a callback, unless a fault or a conflict ends the check.
ChargeIsRecorded ==
    \A c \in Calls :
        gateway[c] = "paid" /\ check[c] = "delayed" ~> attempt[c] = "SUCCESS" \/ c \in missed

\* A payment does not stay PENDING, unless a fault kept the finalizing job
\* from being queued.  It leaves FINALIZING, unless an attempt was missed or
\* the finalizing job had replaced PAID or CANCELLED.
PaymentResolves ==
    /\ status = "PENDING" ~>
          status # "PENDING" \/ (finalizing = "none" /\ consumer = "idle" /\ faults > 0)
    /\ status = "FINALIZING" ~> status # "FINALIZING" \/ missed # {} \/ overwritten

\* The customer is given one URL at a time to pay at: there are two only if a
\* call looked for an attempt while another was making one.
OneOpenAttempt ==
    \A c, d \in live :
        attempt[c] = "PROCESSING" /\ attempt[d] = "PROCESSING" /\ c # d
            => c \in raced \/ d \in raced

\* The README's promise that payment.success is in the outbox of every
\* payment that is PAID.
PaidIsAnnounced == status = "PAID" => announced

\* The comment of paymentFinalizing: what it cancels has only failed attempts.
CancelsOnlyFailed ==
    status = "CANCELLED" /\ ~asked => \A c \in Calls : attempt[c] # "SUCCESS"

\* The comment of refund's catch block: a request that failed is retried.
FailedRefundIsRetried ==
    \A c \in Calls : "failed" \in requested[c] ~> "answered" \in requested[c]
=============================================================================
