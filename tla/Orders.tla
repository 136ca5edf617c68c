------------------------------- MODULE Orders -------------------------------
(***************************************************************************)
(* The order service: OrdersService.create and cancel, each guarded by an  *)
(* idempotency lock in Redis, the payment.success consumer, and the        *)
(* delayed job order.auto-check of the BullMQ queue.                       *)
(*                                                                         *)
(* Calls run concurrently and interleave at every await.  A call of create *)
(* makes at most one order, which is named after the call.  Redis keeps    *)
(* two things per key: the raw lock, and the entry of the cache manager,   *)
(* which lives under the cache's own namespace.                            *)
(***************************************************************************)
EXTENDS Integers, FiniteSets

CONSTANTS
    Creates,      \* calls of order.create
    Cancels,      \* calls of order.cancel
    Keys,         \* idempotency keys, prefixed order:create: or order:cancel:
    CreateKey,    \* the key a call of create carries
    CancelKey,    \* the key a call of cancel carries
    NoOrder,
    Replies,      \* what payment.query-status may answer
    FaultKinds,   \* what may go wrong
    MaxFaults     \* and how often

AllReplies == {"PENDING", "PAID", "CANCELLED", "FINALIZING", "error"}
AllFaultKinds ==
    {"rpc", "lostReply", "commitFails", "lockExpiry", "cacheExpiry", "crash"}

ASSUME KeysAssumption ==
    /\ CreateKey \in [Creates -> Keys]
    /\ CancelKey \in [Cancels -> Keys]
    /\ \A r \in Creates, c \in Cancels : CreateKey[r] # CancelKey[c]
ASSUME NoOrderAssumption == NoOrder \notin Creates
ASSUME EnvironmentAssumption ==
    /\ Replies \subseteq AllReplies
    /\ FaultKinds \subseteq AllFaultKinds
    /\ MaxFaults \in Nat

VARIABLES
    held,       \* keys whose lock is set
    cached,     \* cached[k]: the order in the cached result
    pc,         \* pc[r]: the next await of create
    answer,     \* answer[r]: the order create returned
    reserved,   \* calls of create that saw product.reserve succeed
    taken,      \* calls for which the product service took stock
    status,     \* status[r]: the order of r, committed
    job,        \* job[r]: its order.auto-check
    refunds,    \* refunds[r]: outbox events that give its items back
    cpc,        \* cpc[c]: the next await of cancel
    target,     \* target[c]: the order c cancels
    faults,
    exposed,    \* history: keys whose guard a fault broke
    leaky,      \* history: calls whose outcome a fault hid
    revived     \* history: cancelled orders that a payment confirmed

redis == <<held, cached>>
create == <<pc, answer, reserved, taken>>
cancel == <<cpc, target>>
history == <<exposed, leaky, revived>>
vars == <<redis, create, status, job, refunds, cancel, faults, history>>

Statuses == {"none", "PAYMENT_PENDING", "CONFIRMING", "CANCELLED"}
Critical == {"pricing", "reserving", "scheduling", "committing",
             "compensating", "releasing", "caching"}
Active == Critical \cup {"locking"}
PCs == Active \cup {"idle", "answered", "refused", "failed"}
CancelActive == {"reading", "updating"}
CancelPCs == CancelActive \cup {"idle", "cancelled", "refused", "failed"}

TypeOK ==
    /\ held \subseteq Keys
    /\ cached \in [Keys -> Creates \cup {NoOrder}]
    /\ pc \in [Creates -> PCs]
    /\ answer \in [Creates -> Creates \cup {NoOrder}]
    /\ \A r \in Creates : pc[r] = "answered" => answer[r] \in Creates
    /\ reserved \subseteq Creates
    /\ taken \subseteq Creates
    /\ status \in [Creates -> Statuses]
    /\ job \in [Creates -> {"none", "delayed", "cancelling", "emitting", "done"}]
    /\ refunds \in [Creates -> Nat]
    /\ cpc \in [Cancels -> CancelPCs]
    /\ target \in [Cancels -> Creates \cup {NoOrder}]
    /\ faults \in 0 .. MaxFaults
    /\ exposed \subseteq Keys
    /\ leaky \subseteq Creates
    /\ revived \subseteq Creates

Init ==
    /\ held = {}
    /\ cached = [k \in Keys |-> NoOrder]
    /\ pc = [r \in Creates |-> "idle"]
    /\ answer = [r \in Creates |-> NoOrder]
    /\ reserved = {}
    /\ taken = {}
    /\ status = [r \in Creates |-> "none"]
    /\ job = [r \in Creates |-> "none"]
    /\ refunds = [r \in Creates |-> 0]
    /\ cpc = [c \in Cancels |-> "idle"]
    /\ target = [c \in Cancels |-> NoOrder]
    /\ faults = 0
    /\ exposed = {}
    /\ leaky = {}
    /\ revived = {}

Fault(kind) ==
    /\ kind \in FaultKinds
    /\ faults < MaxFaults
    /\ faults' = faults + 1

GoTo(r, from, to) == pc[r] = from /\ pc' = [pc EXCEPT ![r] = to]

-----------------------------------------------------------------------------
(* create                                                                  *)

\* A cache hit is an entry with an orderId; a variant takes the lock for one.
HitOrLock(k) == k \in held \/ cached[k] # NoOrder
Hit(k) == cached[k] # NoOrder

\* cacheManager.get(cacheKey): a finished request is answered from the cache.
ReadCache(r) ==
    /\ IF Hit(CreateKey[r])
       THEN /\ GoTo(r, "idle", "answered")
            /\ answer' = [answer EXCEPT ![r] = cached[CreateKey[r]]]
       ELSE GoTo(r, "idle", "locking") /\ UNCHANGED answer
    /\ UNCHANGED <<redis, reserved, taken, status, job, refunds, cancel, faults, history>>

\* SET NX succeeds on a key that is not set; a variant forgets NX.
FreeAnyway(k) == TRUE
Free(k) == k \notin held

\* redisService.setNLock: SET NX; a set lock is answered with CONFLICT.
AcquireLock(r) ==
    /\ IF Free(CreateKey[r])
       THEN GoTo(r, "locking", "pricing") /\ held' = held \cup {CreateKey[r]}
       ELSE GoTo(r, "locking", "refused") /\ UNCHANGED held
    /\ UNCHANGED <<cached, answer, reserved, taken, status, job, refunds, cancel, faults, history>>

\* product.getBriefDetail.
Price(r) ==
    /\ GoTo(r, "pricing", "reserving")
    /\ UNCHANGED <<redis, answer, reserved, taken, status, job, refunds, cancel, faults, history>>

\* Redis or the product service fails outside the try block: a lock stays.
FailsEarly(r) ==
    /\ \E from \in {"locking", "pricing"} : GoTo(r, from, "failed")
    /\ Fault("rpc")
    /\ UNCHANGED <<redis, answer, reserved, taken, status, job, refunds, cancel, history>>

\* product.reserve answers true, or with a CONFLICT.
Reserve(r) ==
    /\ \/ /\ GoTo(r, "reserving", "scheduling")
          /\ taken' = taken \cup {r}
          /\ reserved' = reserved \cup {r}
       \/ GoTo(r, "reserving", "compensating") /\ UNCHANGED <<taken, reserved>>
    /\ UNCHANGED <<redis, answer, status, job, refunds, cancel, faults, history>>

\* The stock is taken but the answer never comes: an error, and `reserved`
\* stays undefined.
ReserveReplyLost(r) ==
    /\ GoTo(r, "reserving", "compensating")
    /\ Fault("lostReply")
    /\ taken' = taken \cup {r}
    /\ leaky' = leaky \cup {r}
    /\ UNCHANGED <<redis, answer, reserved, status, job, refunds, cancel, exposed, revived>>

\* order.save in the transaction, then orderQueue.add, outside of it.
Schedule(r) ==
    /\ GoTo(r, "scheduling", "committing")
    /\ job' = [job EXCEPT ![r] = "delayed"]
    /\ UNCHANGED <<redis, answer, reserved, taken, status, refunds, cancel, faults, history>>

\* save, add or the outbox's create throws, with or without the job queued.
ScheduleFails(r) ==
    /\ GoTo(r, "scheduling", "compensating")
    /\ Fault("rpc")
    /\ \E queued \in {"none", "delayed"} : job' = [job EXCEPT ![r] = queued]
    /\ UNCHANGED <<redis, answer, reserved, taken, status, refunds, cancel, history>>

\* commitTransaction: the order and its order.created event exist.
Commit(r) ==
    /\ GoTo(r, "committing", "caching")
    /\ status' = [status EXCEPT ![r] = "PAYMENT_PENDING"]
    /\ UNCHANGED <<redis, answer, reserved, taken, job, refunds, cancel, faults, history>>

\* commitTransaction throws, applied or not.  The catch block starts with
\* abortTransaction, which throws in a session that has tried to commit: no
\* event is emitted and the lock is kept.
CommitFails(r) ==
    /\ GoTo(r, "committing", "failed")
    /\ Fault("commitFails")
    /\ \E outcome \in {"none", "PAYMENT_PENDING"} :
          status' = [status EXCEPT ![r] = outcome]
    /\ leaky' = leaky \cup {r}
    /\ exposed' = exposed \cup {CreateKey[r]}
    /\ UNCHANGED <<redis, answer, reserved, taken, job, refunds, cancel, revived>>

\* reserved ? dto.items : null, and variants that always or never send them.
ItemsAlways(r) == 1
ItemsNever(r) == 0
Items(r) == IF r \in reserved THEN 1 ELSE 0

\* The catch block: abortTransaction, then order.create.failed goes to the
\* outbox, with items if `reserved` is set.
Compensate(r) ==
    /\ GoTo(r, "compensating", "releasing")
    /\ refunds' = [refunds EXCEPT ![r] = @ + Items(r)]
    /\ UNCHANGED <<redis, answer, reserved, taken, status, job, cancel, faults, history>>

\* The catch block itself throws: nothing is emitted and the lock stays.
CompensateFails(r) ==
    /\ GoTo(r, "compensating", "failed")
    /\ Fault("rpc")
    /\ leaky' = leaky \cup {r}
    /\ UNCHANGED <<redis, answer, reserved, taken, status, job, refunds, cancel, exposed, revived>>

\* redisService.release: DEL, whoever holds the lock now.
Release(r) ==
    /\ GoTo(r, "releasing", "failed")
    /\ held' = held \ {CreateKey[r]}
    /\ UNCHANGED <<cached, answer, reserved, taken, status, job, refunds, cancel, faults, history>>

\* A variant that releases the lock once the result is cached.
CacheAndRelease(r) ==
    /\ GoTo(r, "caching", "answered")
    /\ cached' = [cached EXCEPT ![CreateKey[r]] = r]
    /\ answer' = [answer EXCEPT ![r] = r]
    /\ held' = held \ {CreateKey[r]}
    /\ UNCHANGED <<reserved, taken, status, job, refunds, cancel, faults, history>>

\* cacheManager.set, and create returns the order.
CacheResult(r) ==
    /\ GoTo(r, "caching", "answered")
    /\ cached' = [cached EXCEPT ![CreateKey[r]] = r]
    /\ answer' = [answer EXCEPT ![r] = r]
    /\ UNCHANGED <<held, reserved, taken, status, job, refunds, cancel, faults, history>>

\* cacheManager.set throws: the order exists, and the caller gets an error.
CacheResultFails(r) ==
    /\ GoTo(r, "caching", "failed")
    /\ Fault("rpc")
    /\ exposed' = exposed \cup {CreateKey[r]}
    /\ UNCHANGED <<redis, answer, reserved, taken, status, job, refunds, cancel, leaky, revived>>

-----------------------------------------------------------------------------
(* cancel                                                                  *)

\* A user cancels an order of his.  The cache has no entry for a cancel key:
\* nothing ever writes one.  The lock is never released, only its TTL ends it.
CancelLock(c) ==
    /\ cpc[c] = "idle"
    /\ \E o \in Creates : status[o] # "none" /\ target' = [target EXCEPT ![c] = o]
    /\ IF Free(CancelKey[c])
       THEN /\ cpc' = [cpc EXCEPT ![c] = "reading"]
            /\ held' = held \cup {CancelKey[c]}
       ELSE cpc' = [cpc EXCEPT ![c] = "refused"] /\ UNCHANGED held
    /\ UNCHANGED <<cached, create, status, job, refunds, faults, history>>

\* The statuses that allow it, and a variant without the check.
CancellableAlways == {"PAYMENT_PENDING", "CONFIRMING", "CANCELLED"}
Cancellable == {"PAYMENT_PENDING", "CONFIRMING"}

\* The aggregate reads the status, outside the transaction below.
CancelRead(c) ==
    /\ cpc[c] = "reading"
    /\ cpc' = [cpc EXCEPT ![c] =
                  IF status[target[c]] \in Cancellable THEN "updating" ELSE "failed"]
    /\ UNCHANGED <<redis, create, status, job, refunds, target, faults, history>>

\* order.cancelled in the outbox, and a variant whose payload has no items.
RestockNothing(o) == UNCHANGED refunds
Restock(o) == refunds' = [refunds EXCEPT ![o] = @ + 1]

\* The update of the order, and a variant that leaves it as it is.
KeepStatus(o) == UNCHANGED status
MarkCancelled(o) == status' = [status EXCEPT ![o] = "CANCELLED"]

\* The transaction: status CANCELLED and the order.cancelled event.
CancelUpdate(c) ==
    /\ cpc[c] = "updating"
    /\ MarkCancelled(target[c])
    /\ Restock(target[c])
    /\ UNCHANGED <<redis, create, job, target, history>>

CancelCommit(c) ==
    /\ CancelUpdate(c)
    /\ cpc' = [cpc EXCEPT ![c] = "cancelled"]
    /\ UNCHANGED faults

\* It commits, but the caller is told that it failed.
CancelCommitFails(c) ==
    /\ CancelUpdate(c)
    /\ cpc' = [cpc EXCEPT ![c] = "failed"]
    /\ Fault("commitFails")

\* A read or the transaction throws without effect: the database fails, or
\* two transactions meet on one order.
CancelFails(c) ==
    /\ cpc[c] \in CancelActive
    /\ \/ Fault("rpc")
       \/ /\ \E d \in Cancels \ {c} :
                cpc[c] = "updating" /\ cpc[d] = "updating" /\ target[c] = target[d]
          /\ UNCHANGED faults
    /\ cpc' = [cpc EXCEPT ![c] = "failed"]
    /\ UNCHANGED <<redis, create, status, job, refunds, target, history>>

-----------------------------------------------------------------------------
(* Events, jobs, time and crashes                                          *)

\* The consumer of payment.success: an unconditional $set.  The event may
\* come at any time, and more than once.
PaymentSuccess(o) ==
    /\ status[o] # "none"
    /\ status' = [status EXCEPT ![o] = "CONFIRMING"]
    /\ revived' = IF status[o] = "CANCELLED" THEN revived \cup {o} ELSE revived
    /\ UNCHANGED <<redis, create, job, refunds, cancel, faults, exposed, leaky>>

\* order.auto-check asks for the payment's status.  FINALIZING puts the job
\* back; any other answer or error but CANCELLED ends and removes it.
AutoCheck(o) ==
    /\ job[o] = "delayed"
    /\ \E reply \in Replies :
          job' = [job EXCEPT ![o] = CASE reply = "CANCELLED" -> "cancelling"
                                      [] reply = "FINALIZING" -> "delayed"
                                      [] OTHER -> "done"]
    /\ UNCHANGED <<redis, create, status, refunds, cancel, faults, history>>

\* findOneAndUpdate: whatever the status is.  An order that was never
\* committed is not found, and the job fails.
AutoCancel(o) ==
    /\ job[o] = "cancelling"
    /\ IF status[o] = "none"
       THEN job' = [job EXCEPT ![o] = "done"] /\ UNCHANGED status
       ELSE /\ job' = [job EXCEPT ![o] = "emitting"]
            /\ status' = [status EXCEPT ![o] = "CANCELLED"]
    /\ UNCHANGED <<redis, create, refunds, cancel, faults, history>>

\* The outbox event, a write of its own.
AutoEmit(o) ==
    /\ job[o] = "emitting"
    /\ job' = [job EXCEPT ![o] = "done"]
    /\ \/ Restock(o) /\ UNCHANGED <<faults, leaky>>
       \/ Fault("rpc") /\ leaky' = leaky \cup {o} /\ UNCHANGED refunds
    /\ UNCHANGED <<redis, create, status, cancel, exposed, revived>>

\* A call that relies on the lock of k is under way.
InUse(k) ==
    \/ \E r \in Creates : CreateKey[r] = k /\ pc[r] \in Active
    \/ \E c \in Cancels : CancelKey[c] = k /\ cpc[c] \in CancelActive

\* The TTL of 30 s ends.  Calls have no bound of their own: one that takes
\* longer loses its lock, which counts as a fault.
Expire(k) ==
    /\ k \in held
    /\ held' = held \ {k}
    /\ IF InUse(k)
       THEN Fault("lockExpiry") /\ exposed' = exposed \cup {k}
       ELSE UNCHANGED <<faults, exposed>>
    /\ UNCHANGED <<cached, create, status, job, refunds, cancel, leaky, revived>>

\* The TTL of a cached result ends (CACHE_TTL, or Redis evicts it): the key
\* is forgotten.
Forget(k) ==
    /\ cached[k] # NoOrder
    /\ cached' = [cached EXCEPT ![k] = NoOrder]
    /\ Fault("cacheExpiry")
    /\ exposed' = exposed \cup {k}
    /\ UNCHANGED <<held, create, status, job, refunds, cancel, leaky, revived>>

\* The service dies: every call under way is lost and its transaction
\* aborts; a stalled job is taken up again.
Crash ==
    /\ Fault("crash")
    /\ pc' = [r \in Creates |-> IF pc[r] \in Active THEN "failed" ELSE pc[r]]
    /\ cpc' = [c \in Cancels |-> IF cpc[c] \in CancelActive THEN "failed" ELSE cpc[c]]
    /\ job' = [r \in Creates |->
                  IF job[r] \in {"cancelling", "emitting"} THEN "delayed" ELSE job[r]]
    /\ exposed' = exposed \cup {k \in Keys : InUse(k)}
    /\ leaky' = leaky \cup {r \in Creates : pc[r] \in Active \/ job[r] = "emitting"}
    /\ UNCHANGED <<redis, answer, reserved, taken, status, refunds, target, revived>>

-----------------------------------------------------------------------------
CreateStep(r) ==
    \/ ReadCache(r) \/ AcquireLock(r) \/ Price(r) \/ FailsEarly(r)
    \/ Reserve(r) \/ ReserveReplyLost(r)
    \/ Schedule(r) \/ ScheduleFails(r)
    \/ Commit(r) \/ CommitFails(r)
    \/ Compensate(r) \/ CompensateFails(r) \/ Release(r)
    \/ CacheResult(r) \/ CacheResultFails(r)

CancelStep(c) ==
    \/ CancelLock(c) \/ CancelRead(c)
    \/ CancelCommit(c) \/ CancelCommitFails(c) \/ CancelFails(c)

JobStep(o) == AutoCheck(o) \/ AutoCancel(o) \/ AutoEmit(o)

Next ==
    \/ \E r \in Creates : CreateStep(r) \/ PaymentSuccess(r) \/ JobStep(r)
    \/ \E c \in Cancels : CancelStep(c)
    \/ \E k \in Keys : Expire(k) \/ Forget(k)
    \/ Crash

Spec == Init /\ [][Next]_vars

\* Node runs every call that was started, and the queue every delayed job.
Fairness ==
    /\ \A r \in Creates : /\ WF_vars(pc[r] \in Active /\ CreateStep(r))
                          /\ WF_vars(JobStep(r))
    /\ \A c \in Cancels : WF_vars(cpc[c] \in CancelActive /\ CancelStep(c))

LiveSpec == Spec /\ Fairness

-----------------------------------------------------------------------------
(* Properties.                                                             *)

Exists(r) == status[r] # "none"

\* Idempotent creation: calls that carry one key make one order, and every
\* call that gets an answer gets that order, unless the lock expired under a
\* call at work, or its result was not cached or is no longer.
OneOrderPerKey ==
    \A r, q \in Creates :
        CreateKey[r] = CreateKey[q] /\ CreateKey[r] \notin exposed =>
            /\ Exists(r) /\ Exists(q) => r = q
            /\ pc[r] = "answered" /\ Exists(q) => answer[r] = q

\* Stock is given back only for a call that took it, however the answers,
\* the commits and the crashes fall.
NoInventedRefund == \A r \in Creates : refunds[r] > 0 => r \in taken

\* Saga: a call that failed without an order has its stock given back once.
FailedCreateIsCompensated ==
    \A r \in Creates :
        pc[r] = "failed" /\ ~Exists(r) /\ r \in taken /\ r \notin leaky
            => refunds[r] = 1

\* A cancelled order has an event that gives its items back, or the job is
\* about to write it.
CancelledIsRefunded ==
    \A r \in Creates :
        status[r] = "CANCELLED" /\ r \notin leaky
            => refunds[r] > 0 \/ job[r] = "emitting"

\* A cancellation repeated with its key does not refund twice, unless a
\* payment confirmed the order in between or the lock was lost.
CancelOncePerKey ==
    \A c, d \in Cancels :
        (/\ c # d
         /\ CancelKey[c] = CancelKey[d]
         /\ CancelKey[c] \notin exposed
         /\ cpc[c] = "cancelled" /\ cpc[d] = "cancelled"
         /\ target[c] = target[d])
        => target[c] \in revived

\* Each fault costs a key one order more at the most: a lost lock, also one
\* that its former holder releases under another call, never lets in two.
ExtraOrdersNeedFaults ==
    \A k \in Keys :
        Cardinality({r \in Creates : CreateKey[r] = k /\ Exists(r)}) <= 1 + faults

\* An order does not wait for its payment for ever.
PendingOrderResolves ==
    \A r \in Creates : status[r] = "PAYMENT_PENDING" ~> status[r] # "PAYMENT_PENDING"
=============================================================================
