--------------------------- MODULE PaymentsProofs ---------------------------
(***************************************************************************)
(* Proofs about Payments, for every set of calls and callbacks, every kind *)
(* of fault and every bound on them.  ChargeInv follows a charge from      *)
(* ZaloPay to the records of it, DueInv the reasons to give it back,       *)
(* OnceInv the two who may refund one attempt at one time, and OpenInv the *)
(* calls that offer the customer a URL, or are about to.                   *)
(***************************************************************************)
EXTENDS Payments, TLAPS

USE CallsAssumption, PaymentEnvironment
USE DEF Statuses, CallBusy, Answers, CheckBusy, FinalizeBusy, Holding, Actors
USE DEF payment, attempts, jobs, callback, requests, refund, history

Early == {"idle", "finding", "opening"}

(* A report and an answer are of a charge, and a call has no order at      *)
(* ZaloPay and no check before it opens one.                               *)
ChargeInv ==
    /\ \A c \in Calls : pc[c] \in Early => gateway[c] = "none" /\ attempt[c] = "none"
    /\ \A c \in Calls : pc[c] \in Early \cup {"queueing"} => check[c] = "none"
    /\ \A c \in Calls : check[c] \in {"paid", "closed"} => gateway[c] = check[c]
    /\ \A k \in Callbacks : cb[k] # "idle" => gateway[target[k]] = "paid"
    /\ OnlyChargesCount

GaveUp == asked \/ finalizing = "done"

(* Why a payment is given up, and what a refund under way is of.           *)
DueInv ==
    /\ status = "none" \/ consumer = "queueing" => finalizing = "none"
    /\ consumer = "queueing" => status # "none"
    /\ status = "FINALIZING" \/ seen = "FINALIZING" => finalizing = "done"
    /\ status = "CANCELLED" => GaveUp
    /\ consumer \in {"cancelling", "refunding"} => asked
    /\ \A c \in toRefund : gateway[c] = "paid"
    /\ \A r \in refunding : gateway[r.of] = "paid" /\ GaveUp
    /\ RefundsAreDue

(* Two refund one attempt only if one is the consumer, who has seen its    *)
(* success, and the other a callback that came after it.                   *)
OnceInv ==
    /\ \A c \in Calls : attempt[c] = "SUCCESS" =>
          check[c] = "done" \/ \E k \in Callbacks : cb[k] = "confirmed" /\ target[k] = c
    /\ \A c \in toRefund : Reported(c)
    /\ \A k, h \in Holders : target[k] = target[h] => k = h
    /\ \A k \in Holders : Reported(target[k]) => target[k] \in repeated
    /\ \A r \in refunding : IF r.by = Consumer
                             THEN Reported(r.of)
                             ELSE cb[r.by] = "refunding" /\ target[r.by] = r.of
    /\ \A r, s \in refunding : r.by = s.by => r = s
    /\ \A r \in refunding : r.step = "create" => refunds[r.of] = 0 \/ r.of \in repeated
    /\ RefundedOnce

IInv == TypeOK /\ ChargeInv /\ DueInv /\ OnceInv

-----------------------------------------------------------------------------
LEMMA CreatePaymentIInv == ASSUME IInv, CreatePayment PROVE IInv'
<1> USE DEF IInv, CreatePayment, ConsumerFree, WritePayment, ToPay
<1>1. TypeOK'
  BY DEF TypeOK
<1>2. ChargeInv'
  BY DEF TypeOK, ChargeInv, OnlyChargesCount, Early
<1>3. DueInv'
  BY DEF TypeOK, ChargeInv, Early, OnlyChargesCount, DueInv, GaveUp, RefundsAreDue
<1>4. OnceInv'
  BY DEF TypeOK, ChargeInv, Early, OnceInv, Reported, Holders, RefundedOnce
<1> QED
  BY <1>1, <1>2, <1>3, <1>4

LEMMA QueueFinalizingIInv == ASSUME IInv, QueueFinalizing PROVE IInv'
<1> USE DEF IInv, QueueFinalizing, GoTo
<1>1. TypeOK'
  BY DEF TypeOK
<1>2. ChargeInv'
  BY DEF TypeOK, ChargeInv, OnlyChargesCount, Early
<1>3. DueInv'
  BY DEF TypeOK, ChargeInv, Early, OnlyChargesCount, DueInv, GaveUp, RefundsAreDue
<1>4. OnceInv'
  BY DEF TypeOK, ChargeInv, Early, OnceInv, Reported, Holders, RefundedOnce
<1> QED
  BY <1>1, <1>2, <1>3, <1>4

LEMMA OpenAttemptIInv == ASSUME IInv, NEW c \in Calls, OpenAttempt(c) PROVE IInv'
<1> USE DEF IInv, OpenAttempt, GoTo
<1>1. TypeOK'
  BY DEF TypeOK
<1>2. ChargeInv'
  BY DEF TypeOK, ChargeInv, OnlyChargesCount, Early
<1>3. DueInv'
  BY DEF TypeOK, ChargeInv, Early, OnlyChargesCount, DueInv, GaveUp, RefundsAreDue
<1>4. OnceInv'
  BY DEF TypeOK, ChargeInv, Early, OnceInv, Reported, Holders, RefundedOnce
<1> QED
  BY <1>1, <1>2, <1>3, <1>4

LEMMA OpenFailsIInv == ASSUME IInv, NEW c \in Calls, OpenFails(c) PROVE IInv'
<1> USE DEF IInv, OpenFails, GoTo
<1>1. TypeOK'
  BY DEF TypeOK
<1>2. ChargeInv'
  BY DEF TypeOK, ChargeInv, OnlyChargesCount, Early
<1>3. DueInv'
  BY DEF TypeOK, ChargeInv, Early, OnlyChargesCount, DueInv, GaveUp, RefundsAreDue
<1>4. OnceInv'
  BY DEF TypeOK, ChargeInv, Early, OnceInv, Reported, Holders, RefundedOnce
<1> QED
  BY <1>1, <1>2, <1>3, <1>4

LEMMA QueueCheckIInv == ASSUME IInv, NEW c \in Calls, QueueCheck(c) PROVE IInv'
<1> USE DEF IInv, QueueCheck, GoTo
<1>1. TypeOK'
  BY DEF TypeOK
<1>2. ChargeInv'
  BY DEF TypeOK, ChargeInv, OnlyChargesCount, Early
<1>3. DueInv'
  BY DEF TypeOK, ChargeInv, Early, OnlyChargesCount, DueInv, GaveUp, RefundsAreDue
<1>4. OnceInv'
  BY DEF TypeOK, ChargeInv, Early, OnceInv, Reported, Holders, RefundedOnce
<1> QED
  BY <1>1, <1>2, <1>3, <1>4

LEMMA QueueCheckFailsIInv == ASSUME IInv, NEW c \in Calls, QueueCheckFails(c) PROVE IInv'
<1> USE DEF IInv, QueueCheckFails, GoTo, Fault
<1>1. TypeOK'
  BY DEF TypeOK
<1>2. ChargeInv'
  BY DEF TypeOK, ChargeInv, OnlyChargesCount, Early
<1>3. DueInv'
  BY DEF TypeOK, ChargeInv, Early, OnlyChargesCount, DueInv, GaveUp, RefundsAreDue
<1>4. OnceInv'
  BY DEF TypeOK, ChargeInv, Early, OnceInv, Reported, Holders, RefundedOnce
<1> QED
  BY <1>1, <1>2, <1>3, <1>4

LEMMA PayReadIInv == ASSUME IInv, NEW c \in Calls, PayRead(c) PROVE IInv'
<1> USE DEF IInv, PayRead, GoTo
<1>1. TypeOK'
  BY DEF TypeOK
<1>2. ChargeInv'
  BY DEF TypeOK, ChargeInv, OnlyChargesCount, Early
<1>3. DueInv'
  BY DEF TypeOK, ChargeInv, Early, OnlyChargesCount, DueInv, GaveUp, RefundsAreDue
<1>4. OnceInv'
  BY DEF TypeOK, ChargeInv, Early, OnceInv, Reported, Holders, RefundedOnce
<1> QED
  BY <1>1, <1>2, <1>3, <1>4

LEMMA PayFindIInv == ASSUME IInv, NEW c \in Calls, PayFind(c) PROVE IInv'
<1> USE DEF IInv, PayFind, GoTo
<1>1. TypeOK'
  BY DEF TypeOK
<1>2. ChargeInv'
  BY DEF TypeOK, ChargeInv, OnlyChargesCount, Early
<1>3. DueInv'
  BY DEF TypeOK, ChargeInv, Early, OnlyChargesCount, DueInv, GaveUp, RefundsAreDue
<1>4. OnceInv'
  BY DEF TypeOK, ChargeInv, Early, OnceInv, Reported, Holders, RefundedOnce
<1> QED
  BY <1>1, <1>2, <1>3, <1>4

LEMMA GatewaySettlesIInv == ASSUME IInv, NEW c \in Calls, GatewaySettles(c) PROVE IInv'
<1> USE DEF IInv, GatewaySettles
<1>1. TypeOK'
  BY DEF TypeOK
<1>2. ChargeInv'
  BY DEF TypeOK, ChargeInv, OnlyChargesCount, Early
<1>3. DueInv'
  BY DEF TypeOK, ChargeInv, Early, OnlyChargesCount, DueInv, GaveUp, RefundsAreDue
<1>4. OnceInv'
  BY DEF TypeOK, ChargeInv, Early, OnceInv, Reported, Holders, RefundedOnce
<1> QED
  BY <1>1, <1>2, <1>3, <1>4

LEMMA UrlExpiresIInv == ASSUME IInv, NEW c \in Calls, UrlExpires(c) PROVE IInv'
<1> USE DEF IInv, UrlExpires
<1>1. TypeOK'
  BY DEF TypeOK
<1>2. ChargeInv'
  BY DEF TypeOK, ChargeInv, OnlyChargesCount, Early
<1>3. DueInv'
  BY DEF TypeOK, ChargeInv, Early, OnlyChargesCount, DueInv, GaveUp, RefundsAreDue
<1>4. OnceInv'
  BY DEF TypeOK, ChargeInv, Early, OnceInv, Reported, Holders, RefundedOnce
<1> QED
  BY <1>1, <1>2, <1>3, <1>4

LEMMA CheckReadIInv == ASSUME IInv, NEW c \in Calls, CheckRead(c) PROVE IInv'
<1> USE DEF IInv, CheckRead, Step
<1>1. TypeOK'
  BY DEF TypeOK
<1>2. ChargeInv'
  BY DEF TypeOK, ChargeInv, OnlyChargesCount, Early
<1>3. DueInv'
  BY DEF TypeOK, ChargeInv, Early, OnlyChargesCount, DueInv, GaveUp, RefundsAreDue
<1>4. OnceInv'
  BY DEF TypeOK, ChargeInv, Early, OnceInv, Reported, Holders, RefundedOnce
<1> QED
  BY <1>1, <1>2, <1>3, <1>4

LEMMA CheckAskIInv == ASSUME IInv, NEW c \in Calls, CheckAsk(c) PROVE IInv'
<1> USE DEF IInv, CheckAsk, Step
<1>1. TypeOK'
  BY DEF TypeOK
<1>2. ChargeInv'
  BY DEF TypeOK, ChargeInv, OnlyChargesCount, Early
<1>3. DueInv'
  BY DEF TypeOK, ChargeInv, Early, OnlyChargesCount, DueInv, GaveUp, RefundsAreDue
<1>4. OnceInv'
  BY DEF TypeOK, ChargeInv, Early, OnceInv, Reported, Holders, RefundedOnce
<1> QED
  BY <1>1, <1>2, <1>3, <1>4

LEMMA CheckAskFailsIInv == ASSUME IInv, NEW c \in Calls, CheckAskFails(c) PROVE IInv'
<1> USE DEF IInv, CheckAskFails, Step, Fault
<1>1. TypeOK'
  BY DEF TypeOK
<1>2. ChargeInv'
  BY DEF TypeOK, ChargeInv, OnlyChargesCount, Early
<1>3. DueInv'
  BY DEF TypeOK, ChargeInv, Early, OnlyChargesCount, DueInv, GaveUp, RefundsAreDue
<1>4. OnceInv'
  BY DEF TypeOK, ChargeInv, Early, OnceInv, Reported, Holders, RefundedOnce
<1> QED
  BY <1>1, <1>2, <1>3, <1>4

LEMMA CheckWriteIInv == ASSUME IInv, NEW c \in Calls, CheckWrite(c) PROVE IInv'
<1> USE DEF IInv, CheckWrite, Step, ToPay, AttemptStatus, PaymentStatus, CheckConflict, LockedAttempt
<1>1. TypeOK'
  BY DEF TypeOK
<1>2. ChargeInv'
  BY DEF TypeOK, ChargeInv, OnlyChargesCount, Early
<1>3. DueInv'
  BY DEF TypeOK, ChargeInv, Early, OnlyChargesCount, DueInv, GaveUp, RefundsAreDue
<1>4. OnceInv'
  BY DEF TypeOK, ChargeInv, Early, OnceInv, Reported, Holders, RefundedOnce
<1> QED
  BY <1>1, <1>2, <1>3, <1>4

LEMMA CheckAbortsIInv == ASSUME IInv, NEW c \in Calls, CheckAborts(c) PROVE IInv'
<1> USE DEF IInv, CheckAborts, Step, Fault
<1>1. TypeOK'
  BY DEF TypeOK
<1>2. ChargeInv'
  BY DEF TypeOK, ChargeInv, OnlyChargesCount, Early
<1>3. DueInv'
  BY DEF TypeOK, ChargeInv, Early, OnlyChargesCount, DueInv, GaveUp, RefundsAreDue
<1>4. OnceInv'
  BY DEF TypeOK, ChargeInv, Early, OnceInv, Reported, Holders, RefundedOnce
<1> QED
  BY <1>1, <1>2, <1>3, <1>4

LEMMA FinalizeCountIInv == ASSUME IInv, FinalizeCount PROVE IInv'
<1> USE DEF IInv, FinalizeCount
<1>1. TypeOK'
  BY DEF TypeOK
<1>2. ChargeInv'
  BY DEF TypeOK, ChargeInv, OnlyChargesCount, Early
<1>3. DueInv'
  BY DEF TypeOK, ChargeInv, Early, OnlyChargesCount, DueInv, GaveUp, RefundsAreDue
<1>4. OnceInv'
  BY DEF TypeOK, ChargeInv, Early, OnceInv, Reported, Holders, RefundedOnce
<1> QED
  BY <1>1, <1>2, <1>3, <1>4

LEMMA FinalizeWriteIInv == ASSUME IInv, FinalizeWrite PROVE IInv'
<1> USE DEF IInv, FinalizeWrite, WritePayment, ToPay
<1>1. TypeOK'
  BY DEF TypeOK
<1>2. ChargeInv'
  BY DEF TypeOK, ChargeInv, OnlyChargesCount, Early
<1>3. DueInv'
  BY DEF TypeOK, ChargeInv, Early, OnlyChargesCount, DueInv, GaveUp, RefundsAreDue
<1>4. OnceInv'
  BY DEF TypeOK, ChargeInv, Early, OnceInv, Reported, Holders, RefundedOnce
<1> QED
  BY <1>1, <1>2, <1>3, <1>4

LEMMA CallbackBeginIInv == ASSUME IInv, NEW k \in Callbacks, CallbackBegin(k) PROVE IInv'
<1> USE DEF IInv, CallbackBegin, Go, Genuine, Busy, LockedAttempt
<1>1. TypeOK'
  BY DEF TypeOK
<1>2. ChargeInv'
  BY DEF TypeOK, ChargeInv, OnlyChargesCount, Early
<1>3. DueInv'
  BY DEF TypeOK, ChargeInv, Early, OnlyChargesCount, DueInv, GaveUp, RefundsAreDue
<1>4. OnceInv'
  BY DEF TypeOK, ChargeInv, Early, OnceInv, Reported, Holders, RefundedOnce
<1> QED
  BY <1>1, <1>2, <1>3, <1>4

LEMMA CallbackReadIInv == ASSUME IInv, NEW k \in Callbacks, CallbackRead(k) PROVE IInv'
<1> USE DEF IInv, CallbackRead, Go, GivenUp
<1>1. TypeOK'
  BY DEF TypeOK
<1>2. ChargeInv'
  BY DEF TypeOK, ChargeInv, OnlyChargesCount, Early
<1>3. DueInv'
  BY DEF TypeOK, ChargeInv, Early, OnlyChargesCount, DueInv, GaveUp, RefundsAreDue
<1>4. OnceInv'
  BY DEF TypeOK, ChargeInv, Early, OnceInv, Reported, Holders, RefundedOnce
<1> QED
  BY <1>1, <1>2, <1>3, <1>4

LEMMA CallbackPayIInv == ASSUME IInv, NEW k \in Callbacks, CallbackPay(k) PROVE IInv'
<1> USE DEF IInv, CallbackPay, Go
<1>1. TypeOK'
  BY DEF TypeOK
<1>2. ChargeInv'
  BY DEF TypeOK, ChargeInv, OnlyChargesCount, Early
<1>3. DueInv'
  BY DEF TypeOK, ChargeInv, Early, OnlyChargesCount, DueInv, GaveUp, RefundsAreDue
<1>4. OnceInv'
  BY DEF TypeOK, ChargeInv, Early, OnceInv, Reported, Holders, RefundedOnce
<1> QED
  BY <1>1, <1>2, <1>3, <1>4

LEMMA CallbackRemoveIInv == ASSUME IInv, NEW k \in Callbacks, CallbackRemove(k) PROVE IInv'
<1> USE DEF IInv, CallbackRemove, Go
<1>1. TypeOK'
  BY DEF TypeOK
<1>2. ChargeInv'
  BY DEF TypeOK, ChargeInv, OnlyChargesCount, Early
<1>3. DueInv'
  BY DEF TypeOK, ChargeInv, Early, OnlyChargesCount, DueInv, GaveUp, RefundsAreDue
<1>4. OnceInv'
  BY DEF TypeOK, ChargeInv, Early, OnceInv, Reported, Holders, RefundedOnce
<1> QED
  BY <1>1, <1>2, <1>3, <1>4

LEMMA CallbackCommitIInv == ASSUME IInv, NEW k \in Callbacks, CallbackCommit(k) PROVE IInv'
<1> USE DEF IInv, CallbackCommit, Go, WritePayment, ToPay, Announce
<1>1. TypeOK'
  <2>1. status' \in Statuses /\ announced' \in BOOLEAN /\ stale' \subseteq Callbacks
    BY DEF TypeOK
  <2> QED
    BY <2>1 DEF TypeOK
<1>2. ChargeInv'
  BY DEF TypeOK, ChargeInv, OnlyChargesCount, Early
<1>3. DueInv'
  BY DEF TypeOK, ChargeInv, Early, OnlyChargesCount, DueInv, GaveUp, RefundsAreDue
<1>4. OnceInv'
  BY DEF TypeOK, ChargeInv, Early, OnceInv, Reported, Holders, RefundedOnce
<1> QED
  BY <1>1, <1>2, <1>3, <1>4

LEMMA CallbackFailsIInv == ASSUME IInv, NEW k \in Callbacks, CallbackFails(k) PROVE IInv'
<1> USE DEF IInv, CallbackFails, Go, Fault
<1>1. TypeOK'
  BY DEF TypeOK
<1>2. ChargeInv'
  BY DEF TypeOK, ChargeInv, OnlyChargesCount, Early
<1>3. DueInv'
  BY DEF TypeOK, ChargeInv, Early, OnlyChargesCount, DueInv, GaveUp, RefundsAreDue
<1>4. OnceInv'
  BY DEF TypeOK, ChargeInv, Early, OnceInv, Reported, Holders, RefundedOnce
<1> QED
  BY <1>1, <1>2, <1>3, <1>4

LEMMA CancelReadIInv == ASSUME IInv, CancelRead PROVE IInv'
<1> USE DEF IInv, CancelRead, ConsumerFree
<1>1. TypeOK'
  BY DEF TypeOK
<1>2. ChargeInv'
  BY DEF TypeOK, ChargeInv, OnlyChargesCount, Early
<1>3. DueInv'
  BY DEF TypeOK, ChargeInv, Early, OnlyChargesCount, DueInv, GaveUp, RefundsAreDue
<1>4. OnceInv'
  BY DEF TypeOK, ChargeInv, Early, OnceInv, Reported, Holders, RefundedOnce
<1> QED
  BY <1>1, <1>2, <1>3, <1>4

LEMMA CancelWriteIInv == ASSUME IInv, CancelWrite PROVE IInv'
<1> USE DEF IInv, CancelWrite, WritePayment, ToPay
<1>1. TypeOK'
  BY DEF TypeOK
<1>2. ChargeInv'
  BY DEF TypeOK, ChargeInv, OnlyChargesCount, Early
<1>3. DueInv'
  BY DEF TypeOK, ChargeInv, Early, OnlyChargesCount, DueInv, GaveUp, RefundsAreDue
<1>4. OnceInv'
  BY DEF TypeOK, ChargeInv, Early, OnceInv, Reported, Holders, RefundedOnce
<1> QED
  BY <1>1, <1>2, <1>3, <1>4

LEMMA HandlerFailsIInv == ASSUME IInv, HandlerFails PROVE IInv'
<1> USE DEF IInv, HandlerFails, Fault
<1>1. TypeOK'
  BY DEF TypeOK
<1>2. ChargeInv'
  BY DEF TypeOK, ChargeInv, OnlyChargesCount, Early
<1>3. DueInv'
  BY DEF TypeOK, ChargeInv, Early, OnlyChargesCount, DueInv, GaveUp, RefundsAreDue
<1>4. OnceInv'
  BY DEF TypeOK, ChargeInv, Early, OnceInv, Reported, Holders, RefundedOnce
<1> QED
  BY <1>1, <1>2, <1>3, <1>4

LEMMA CancelNextIInv == ASSUME IInv, CancelNext PROVE IInv'
<1> USE DEF IInv, CancelNext
<1>1. TypeOK'
  BY DEF TypeOK
<1>2. ChargeInv'
  BY DEF TypeOK, ChargeInv, OnlyChargesCount, Early
<1>3. DueInv'
  BY DEF TypeOK, ChargeInv, Early, OnlyChargesCount, DueInv, GaveUp, RefundsAreDue
<1>4. OnceInv'
  BY DEF TypeOK, ChargeInv, Early, OnceInv, Reported, Holders, RefundedOnce
<1> QED
  BY <1>1, <1>2, <1>3, <1>4

LEMMA RefundCheckIInv == ASSUME IInv, NEW r \in refunding, RefundCheck(r) PROVE IInv'
<1> USE DEF IInv, RefundCheck, RefundReturns, RefundGoes, Refunded
<1>1. TypeOK'
  BY DEF TypeOK
<1>2. ChargeInv'
  BY DEF TypeOK, ChargeInv, OnlyChargesCount, Early, OnceInv
<1>3. DueInv'
  BY DEF TypeOK, ChargeInv, Early, OnlyChargesCount, DueInv, GaveUp, RefundsAreDue
<1>4. OnceInv'
  BY DEF TypeOK, ChargeInv, Early, OnceInv, Reported, Holders, RefundedOnce
<1> QED
  BY <1>1, <1>2, <1>3, <1>4

LEMMA RefundCreateIInv == ASSUME IInv, NEW r \in refunding, RefundCreate(r) PROVE IInv'
<1> USE DEF IInv, RefundCreate, RefundGoes
<1>1. TypeOK'
  BY DEF TypeOK
<1>2. ChargeInv'
  BY DEF TypeOK, ChargeInv, OnlyChargesCount, Early
<1>3. DueInv'
  BY DEF TypeOK, ChargeInv, Early, OnlyChargesCount, DueInv, GaveUp, RefundsAreDue
<1>4. OnceInv'
  BY DEF TypeOK, ChargeInv, Early, OnceInv, Reported, Holders, RefundedOnce
<1> QED
  BY <1>1, <1>2, <1>3, <1>4

(* What came of a request is one of three outcomes.                         *)
LEMMA RequestType ==
    ASSUME TypeOK, NEW r \in refunding, Request(r)
    PROVE  requested' \in [Calls -> SUBSET {"answered", "failed", "nameless"}]
<1>1. r.of \in Calls
  BY DEF TypeOK
<1>2. PICK outcome \in {"answered", "failed", "nameless"} :
        requested' = [requested EXCEPT ![r.of] = @ \cup {outcome}]
  BY DEF Request
<1> QED
  BY <1>1, <1>2 DEF TypeOK

LEMMA RefundRequestIInv == ASSUME IInv, NEW r \in refunding, RefundRequest(r) PROVE IInv'
<1> USE DEF IInv, RefundRequest, RefundReturns
<1>1. TypeOK'
  BY RequestType DEF TypeOK
<1>2. ChargeInv'
  BY DEF TypeOK, ChargeInv, OnlyChargesCount, Early, OnceInv
<1>3. DueInv'
  BY DEF TypeOK, ChargeInv, Early, OnlyChargesCount, DueInv, GaveUp, RefundsAreDue
<1>4. OnceInv'
  BY DEF TypeOK, ChargeInv, Early, OnceInv, Reported, Holders, RefundedOnce
<1> QED
  BY <1>1, <1>2, <1>3, <1>4

LEMMA RefundFailsIInv == ASSUME IInv, NEW r \in refunding, RefundFails(r) PROVE IInv'
<1> USE DEF IInv, RefundFails, Fault
<1>1. TypeOK'
  BY RequestType DEF TypeOK
<1>2. ChargeInv'
  BY DEF TypeOK, ChargeInv, OnlyChargesCount, Early, OnceInv
<1>3. DueInv'
  BY DEF TypeOK, ChargeInv, Early, OnlyChargesCount, DueInv, GaveUp, RefundsAreDue
<1>4. OnceInv'
  BY DEF TypeOK, ChargeInv, Early, OnceInv, Reported, Holders, RefundedOnce
<1> QED
  BY <1>1, <1>2, <1>3, <1>4

LEMMA RefundJobIInv == ASSUME IInv, RefundJob PROVE IInv'
<1> USE DEF IInv, RefundJob
<1>1. TypeOK'
  BY DEF TypeOK
<1>2. ChargeInv'
  BY DEF TypeOK, ChargeInv, OnlyChargesCount, Early
<1>3. DueInv'
  BY DEF TypeOK, ChargeInv, Early, OnlyChargesCount, DueInv, GaveUp, RefundsAreDue
<1>4. OnceInv'
  BY DEF TypeOK, ChargeInv, Early, OnceInv, Reported, Holders, RefundedOnce
<1> QED
  BY <1>1, <1>2, <1>3, <1>4

LEMMA CrashIInv == ASSUME IInv, Crash PROVE IInv'
<1> USE DEF IInv, Crash, Fault
<1>1. TypeOK'
  BY DEF TypeOK, Holders
<1>2. ChargeInv'
  BY DEF TypeOK, ChargeInv, OnlyChargesCount, Early, Holders
<1>3. DueInv'
  BY DEF TypeOK, ChargeInv, Early, OnlyChargesCount, DueInv, GaveUp, RefundsAreDue
<1>4. OnceInv'
  BY DEF TypeOK, ChargeInv, Early, OnceInv, Reported, Holders, RefundedOnce
<1> QED
  BY <1>1, <1>2, <1>3, <1>4

LEMMA InitIInv == Init => IInv
<1> SUFFICES ASSUME Init PROVE IInv
  OBVIOUS
<1> USE DEF Init
<1>1. TypeOK
  <2>1. /\ status \in Statuses /\ announced \in BOOLEAN /\ seen \in Statuses
        /\ asked \in BOOLEAN /\ interrupted \in BOOLEAN /\ overwritten \in BOOLEAN
    OBVIOUS
  <2>2. faults \in 0 .. MaxFaults
    OBVIOUS
  <2> QED
    BY <2>1, <2>2 DEF TypeOK
<1>2. ChargeInv
  BY DEF ChargeInv, OnlyChargesCount, Early
<1>3. DueInv
  BY DEF DueInv, GaveUp, RefundsAreDue
<1>4. OnceInv
  BY DEF OnceInv, Reported, Holders, RefundedOnce
<1> QED
  BY <1>1, <1>2, <1>3, <1>4 DEF IInv

LEMMA StutterIInv == IInv /\ UNCHANGED vars => IInv'
BY DEF IInv, vars, TypeOK, ChargeInv, OnlyChargesCount, DueInv, GaveUp, RefundsAreDue, OnceInv,
       Reported, Holders, RefundedOnce

LEMMA NextIInv == IInv /\ [Next]_vars => IInv'
<1> SUFFICES ASSUME IInv, Next PROVE IInv'
  BY StutterIInv
<1>1. ASSUME NEW c \in Calls, CallStep(c) \/ PayRead(c) \/ GatewaySettles(c) \/ UrlExpires(c)
      PROVE  IInv'
  BY <1>1, OpenAttemptIInv, OpenFailsIInv, QueueCheckIInv, QueueCheckFailsIInv, PayReadIInv,
     PayFindIInv, GatewaySettlesIInv, UrlExpiresIInv DEF CallStep
<1>2. ASSUME WorkerStep PROVE IInv'
  BY <1>2, CheckReadIInv, CheckAskIInv, CheckAskFailsIInv, CheckWriteIInv, CheckAbortsIInv,
     FinalizeCountIInv, FinalizeWriteIInv, RefundJobIInv DEF WorkerStep, CheckStep
<1>3. ASSUME NEW k \in Callbacks, CallbackBegin(k) \/ CallbackStep(k) PROVE IInv'
  BY <1>3, CallbackBeginIInv, CallbackReadIInv, CallbackPayIInv, CallbackRemoveIInv,
     CallbackCommitIInv, CallbackFailsIInv DEF CallbackStep
<1>4. ASSUME NEW r \in refunding, RefundStep(r) PROVE IInv'
  BY <1>4, RefundCheckIInv, RefundCreateIInv, RefundRequestIInv, RefundFailsIInv DEF RefundStep
<1>5. ASSUME CancelRead \/ CancelWrite \/ CancelNext \/ HandlerFails PROVE IInv'
  BY <1>5, CancelReadIInv, CancelWriteIInv, CancelNextIInv, HandlerFailsIInv
<1> QED
  BY <1>1, <1>2, <1>3, <1>4, <1>5, CreatePaymentIInv, QueueFinalizingIInv, CrashIInv DEF Next

(* The strengthened invariant holds in every behaviour of the service.      *)
THEOREM Invariance == Spec => []IInv
<1>1. Init => IInv
  BY InitIInv
<1>2. IInv /\ [Next]_vars => IInv'
  BY NextIInv
<1> QED
  BY <1>1, <1>2, PTL DEF Spec

(* The payment, its attempts, jobs and refunds keep their shape.            *)
THEOREM TypeCorrect == Spec => []TypeOK
<1>1. IInv => TypeOK
  BY DEF IInv, ChargeInv, DueInv, OnceInv
<1> QED
  BY <1>1, Invariance, PTL

(* zaloPayQuery and zaloPayCallbackHandler take nothing for paid that the   *)
(* customer was not charged for.                                           *)
THEOREM NoChargeMadeUp == Spec => []OnlyChargesCount
<1>1. IInv => OnlyChargesCount
  BY DEF IInv, ChargeInv, DueInv, OnceInv
<1> QED
  BY <1>1, Invariance, PTL

(* refund gives back only charges, and only of a payment that was given up. *)
THEOREM RefundsAreOfChargesGivenUp == Spec => []RefundsAreDue
<1>1. IInv => RefundsAreDue
  BY DEF IInv, ChargeInv, DueInv, OnceInv
<1> QED
  BY <1>1, Invariance, PTL

(* refund makes one refund attempt for an attempt that ZaloPay reports      *)
(* once, whoever else refunds it.                                          *)
THEOREM OneRefundPerReport == Spec => []RefundedOnce
<1>1. IInv => RefundedOnce
  BY DEF IInv, ChargeInv, DueInv, OnceInv
<1> QED
  BY <1>1, Invariance, PTL

(* What may end a success that is recorded.                                 *)
Lost(c) == attempt[c] = "SUCCESS" /\ attempt'[c] # "SUCCESS"

(* A success that is recorded was charged, and what was charged is not      *)
(* closed: zaloPayQuery overwrites it only with an answer of before.        *)
THEOREM SuccessLostToEarlyAnswer == Spec => SuccessIsKept
<1>1. ASSUME IInv, Next, NEW c \in Calls, Lost(c) PROVE check[c] = "open"
  <2>1. ASSUME NEW d \in Calls, OpenAttempt(d) PROVE FALSE
    BY <1>1, <2>1 DEF OpenAttempt, GoTo, IInv, ChargeInv, Early, TypeOK, Lost
  <2>2. ASSUME NEW d \in Calls, CheckWrite(d) PROVE check[c] = "open"
    BY <1>1, <2>2 DEF CheckWrite, Step, AttemptStatus, IInv, ChargeInv, OnlyChargesCount, TypeOK,
                      Lost
  <2>3. ASSUME NEW k \in Callbacks, CallbackCommit(k) PROVE FALSE
    BY <1>1, <2>3 DEF CallbackCommit, IInv, TypeOK, Lost
  <2>4. ASSUME UNCHANGED attempt PROVE FALSE
    BY <1>1, <2>4 DEF Lost
  <2> USE <1>1, <2>1, <2>2, <2>3, <2>4
  <2>5. ASSUME NEW d \in Calls, CallStep(d) \/ PayRead(d) \/ GatewaySettles(d) \/ UrlExpires(d)
        PROVE  FALSE
    BY <2>5 DEF CallStep, OpenFails, QueueCheck, QueueCheckFails, PayFind, PayRead,
                GatewaySettles, UrlExpires
  <2>6. ASSUME WorkerStep PROVE check[c] = "open"
    BY <2>6 DEF WorkerStep, CheckStep, CheckRead, CheckAsk, CheckAskFails, CheckAborts,
                FinalizeCount, FinalizeWrite, RefundJob
  <2>7. ASSUME NEW k \in Callbacks, CallbackBegin(k) \/ CallbackStep(k) PROVE FALSE
    BY <2>7 DEF CallbackBegin, CallbackStep, CallbackRead, CallbackPay, CallbackRemove,
                CallbackFails
  <2>8. ASSUME NEW r \in refunding, RefundStep(r) PROVE FALSE
    BY <2>8 DEF RefundStep, RefundCheck, RefundCreate, RefundRequest, RefundFails
  <2> QED
    BY <2>5, <2>6, <2>7, <2>8 DEF Next, CreatePayment, QueueFinalizing, CancelRead, CancelWrite,
       CancelNext, HandlerFails, Crash
<1>2. IInv /\ [Next]_vars
        => [\A c \in Calls : attempt[c] = "SUCCESS" /\ attempt'[c] # "SUCCESS"
                                => check[c] = "open"]_vars
  BY <1>1 DEF Lost
<1> QED
  BY <1>2, Invariance, PTL DEF Spec, SuccessIsKept

-----------------------------------------------------------------------------
(* A call that may be making an attempt, or has made one that can be paid.  *)
Offering(c) ==
    \/ pc[c] = "opening" \/ CanBePaid(c)
    \/ c = FirstCall /\ consumer = "queueing"

(* Of two calls that offer, one looked for an attempt while the other was   *)
(* making its own: pay looks, and the first call comes before any of pay.   *)
OpenInv ==
    /\ status = "none" => \A c \in Calls : pc[c] = "idle" \/ pc[c] = "failed"
    /\ status = "none" => live = {} /\ consumer # "queueing"
    /\ \A c \in live : check[c] \in {"none", "delayed"}
    /\ \A c, d \in Calls : Offering(c) /\ Offering(d) /\ c # d => c \in raced \/ d \in raced

JointInv == IInv /\ OpenInv

(* A step that offers nothing new.                                          *)
LEMMA NoNewOffer ==
    ASSUME OpenInv,
           status' = "none" => status = "none" /\ UNCHANGED pc,
           status' = "none" => live' = {} /\ consumer' # "queueing",
           \A c \in live' : check'[c] \in {"none", "delayed"},
           \A c \in Calls : Offering(c)' => Offering(c),
           raced \subseteq raced'
    PROVE  OpenInv'
BY DEF OpenInv

LEMMA CallOpenInv ==
    ASSUME IInv, OpenInv, NEW c \in Calls,
           CallStep(c) \/ PayRead(c) \/ GatewaySettles(c) \/ UrlExpires(c)
    PROVE  OpenInv'
<1> USE DEF IInv, TypeOK, OpenInv, Offering, CanBePaid, GoTo, Fault
<1>1. CASE OpenAttempt(c)
  BY <1>1 DEF OpenAttempt, ChargeInv, Early
<1>2. CASE OpenFails(c) \/ QueueCheck(c) \/ QueueCheckFails(c)
  BY <1>2 DEF OpenFails, QueueCheck, QueueCheckFails
<1>3. CASE PayFind(c)
  BY <1>3 DEF PayFind
<1>4. CASE PayRead(c)
  BY <1>4 DEF PayRead, Payable
<1>5. CASE GatewaySettles(c) \/ UrlExpires(c)
  BY <1>5 DEF GatewaySettles, UrlExpires
<1> QED
  BY <1>1, <1>2, <1>3, <1>4, <1>5 DEF CallStep

LEMMA StartOpenInv ==
    ASSUME IInv, OpenInv, CreatePayment \/ QueueFinalizing PROVE OpenInv'
<1> USE DEF IInv, TypeOK, OpenInv, Offering, CanBePaid
<1>1. CASE CreatePayment
  BY <1>1 DEF CreatePayment, ConsumerFree, WritePayment
<1>2. CASE QueueFinalizing
  BY <1>2 DEF QueueFinalizing, GoTo, DueInv
<1> QED
  BY <1>1, <1>2

LEMMA WorkerOpenInv == ASSUME IInv, OpenInv, WorkerStep PROVE OpenInv'
<1>1. status' = "none" => status = "none"
  BY DEF WorkerStep, CheckStep, CheckRead, CheckAsk, CheckAskFails, CheckWrite, CheckAborts,
         PaymentStatus, FinalizeCount, FinalizeWrite, RefundJob, WritePayment, IInv, TypeOK
<1>2. UNCHANGED <<live, pc, consumer, raced>>
  BY DEF WorkerStep, CheckStep, CheckRead, CheckAsk, CheckAskFails, CheckWrite, CheckAborts,
         FinalizeCount, FinalizeWrite, RefundJob
<1>3. \A c \in live : check'[c] \in {"none", "delayed"}
  BY DEF WorkerStep, CheckStep, CheckRead, CheckAsk, CheckAskFails, CheckWrite, CheckAborts,
         FinalizeCount, FinalizeWrite, RefundJob, Step, IInv, TypeOK, OpenInv
<1>4. \A c \in live : attempt'[c] = attempt[c]
  BY DEF WorkerStep, CheckStep, CheckRead, CheckAsk, CheckAskFails, CheckWrite, CheckAborts,
         FinalizeCount, FinalizeWrite, RefundJob, Step, IInv, TypeOK, OpenInv
<1> QED
  BY <1>1, <1>2, <1>3, <1>4, NoNewOffer DEF Offering, CanBePaid, OpenInv

LEMMA CallbackOpenInv ==
    ASSUME IInv, OpenInv, NEW k \in Callbacks, CallbackBegin(k) \/ CallbackStep(k)
    PROVE  OpenInv'
<1>1. status' = "none" => status = "none"
  BY DEF CallbackBegin, CallbackStep, CallbackRead, CallbackPay, CallbackRemove, CallbackCommit,
         CallbackFails, WritePayment
<1>2. UNCHANGED <<live, pc, consumer, raced>>
  BY DEF CallbackBegin, CallbackStep, CallbackRead, CallbackPay, CallbackRemove, CallbackCommit,
         CallbackFails
<1>3. \A c \in live : check'[c] \in {"none", "delayed"}
  BY DEF CallbackBegin, CallbackStep, CallbackRead, CallbackPay, CallbackRemove, CallbackCommit,
         CallbackFails, IInv, TypeOK, OpenInv
<1>4. \A c \in Calls : attempt'[c] = "PROCESSING" => attempt[c] = "PROCESSING"
  BY DEF CallbackBegin, CallbackStep, CallbackRead, CallbackPay, CallbackRemove, CallbackCommit,
         CallbackFails, IInv, TypeOK
<1> QED
  BY <1>1, <1>2, <1>3, <1>4, NoNewOffer DEF Offering, CanBePaid, OpenInv

LEMMA RefundOpenInv ==
    ASSUME IInv, OpenInv,
           \/ CancelRead \/ CancelWrite \/ CancelNext \/ HandlerFails
           \/ \E r \in refunding : RefundStep(r)
    PROVE  OpenInv'
<1>1. /\ status' = "none" => status = "none"
      /\ consumer' = "queueing" => consumer = "queueing"
  BY DEF CancelRead, CancelWrite, CancelNext, HandlerFails, RefundStep, RefundCheck, RefundCreate,
         RefundRequest, RefundFails, WritePayment
<1>2. UNCHANGED <<live, pc, attempt, check, raced>>
  BY DEF CancelRead, CancelWrite, CancelNext, HandlerFails, RefundStep, RefundCheck, RefundCreate,
         RefundRequest, RefundFails
<1> QED
  BY <1>1, <1>2, NoNewOffer DEF Offering, CanBePaid, OpenInv

LEMMA CrashOpenInv == ASSUME IInv, OpenInv, Crash PROVE OpenInv'
BY DEF IInv, TypeOK, OpenInv, Offering, CanBePaid, Crash

(* zaloPayCreateOrder gives the customer a second URL only if pay looked    *)
(* for an attempt while another call was making one.                       *)
THEOREM SecondUrlComesOfARace == Spec => []OneOpenAttempt
<1>1. Init => JointInv
  BY InitIInv DEF JointInv, OpenInv, Offering, CanBePaid, Init
<1>2. JointInv /\ [Next]_vars => JointInv'
  <2> SUFFICES ASSUME JointInv, [Next]_vars PROVE OpenInv'
    BY NextIInv DEF JointInv
  <2>1. CASE UNCHANGED vars
    BY <2>1 DEF JointInv, OpenInv, Offering, CanBePaid, vars
  <2>2. CASE Next
    BY <2>2, CallOpenInv, StartOpenInv, WorkerOpenInv, CallbackOpenInv, RefundOpenInv,
       CrashOpenInv DEF JointInv, Next
  <2> QED
    BY <2>1, <2>2
<1>3. JointInv => OneOpenAttempt
  BY DEF JointInv, IInv, TypeOK, OpenInv, Offering, CanBePaid, OneOpenAttempt
<1> QED
  BY <1>1, <1>2, <1>3, PTL DEF Spec
=============================================================================
