---------------------------- MODULE OrdersProofs ----------------------------
(***************************************************************************)
(* Proofs about Orders, for every number of calls, keys and faults and     *)
(* every set of fault kinds and replies.  LockInv is the mutual exclusion  *)
(* argument of the idempotency lock, StockInv the bookkeeping of the saga, *)
(* SlotInv the account of what each fault may cost.                        *)
(***************************************************************************)
EXTENDS Orders, TLAPS, FiniteSetTheorems

USE KeysAssumption, NoOrderAssumption, EnvironmentAssumption

Guarded(r) == CreateKey[r] \notin exposed
SameKey(r, q) == CreateKey[r] = CreateKey[q]

(* Under an intact guard: who is in the critical section holds the lock,    *)
(* alone; an order is about to be cached or is cached; and while a call     *)
(* that missed the cache is still to lock, the lock of a made order is set. *)
LockInv ==
    \A r, q \in Creates : Guarded(r) /\ SameKey(r, q) =>
        /\ pc[r] \in Critical => CreateKey[r] \in held
        /\ pc[r] \in Critical /\ (pc[q] \in Critical \/ Exists(q)) => r = q
        /\ Exists(r) => \/ pc[r] = "caching"
                        \/ pc[r] = "answered" /\ cached[CreateKey[r]] = r
        /\ Exists(q) /\ pc[r] = "locking" => CreateKey[r] \in held

(* Cached results and answers are orders of the key. *)
AnswerInv ==
    /\ \A k \in Keys : cached[k] # NoOrder =>
          Exists(cached[k]) /\ CreateKey[cached[k]] = k
    /\ \A r \in Creates : pc[r] = "answered" =>
          answer[r] \in Creates /\ Exists(answer[r]) /\ SameKey(r, answer[r])

Early == {"idle", "locking", "pricing", "reserving"}

(* What each point of create knows about the stock and the order. *)
StockInv ==
    \A r \in Creates :
        /\ pc[r] \in Early => r \notin taken
        /\ pc[r] \in {"scheduling", "committing", "caching"} => r \in reserved
        /\ r \in reserved => r \in taken
        /\ Exists(r) => r \in taken
        /\ Exists(r) => pc[r] \in {"caching", "answered", "failed"}
        /\ pc[r] = "caching" => Exists(r)
        /\ ~Exists(r) /\ pc[r] \notin {"releasing", "failed"} => refunds[r] = 0
        /\ refunds[r] > 0 => r \in taken
        /\ pc[r] = "compensating" /\ r \in taken /\ r \notin leaky => r \in reserved
        /\ pc[r] \in {"releasing", "failed"} /\ ~Exists(r) /\ r \in taken /\ r \notin leaky
              => refunds[r] = 1

(* Cancellations are of orders that exist. *)
CancelInv ==
    /\ \A c \in Cancels : cpc[c] \in CancelActive => target[c] \in Creates
    /\ \A c \in Cancels : cpc[c] = "updating" => Exists(target[c])
    /\ \A r \in Creates : job[r] = "emitting" => Exists(r)

IInv ==
    /\ TypeOK
    /\ LockInv
    /\ AnswerInv
    /\ StockInv
    /\ CancelInv
    /\ CancelledIsRefunded

-----------------------------------------------------------------------------
LEMMA InitIInv == Init => IInv
<1> SUFFICES ASSUME Init PROVE IInv
  OBVIOUS
<1> USE DEF Init, Exists
<1>1. TypeOK
  <2>1. 0 \in 0 .. MaxFaults
    BY DEF EnvironmentAssumption
  <2>2. pc \in [Creates -> PCs] /\ status \in [Creates -> Statuses]
    BY DEF PCs, Statuses
  <2>3. cpc \in [Cancels -> CancelPCs]
    BY DEF CancelPCs
  <2> QED
    BY <2>1, <2>2, <2>3 DEF TypeOK
<1>2. LockInv /\ AnswerInv
  BY DEF LockInv, AnswerInv, Critical
<1>3. StockInv /\ CancelInv /\ CancelledIsRefunded
  BY DEF StockInv, CancelInv, CancelledIsRefunded, CancelActive
<1> QED
  BY <1>1, <1>2, <1>3 DEF IInv

LEMMA ReadCacheIInv == ASSUME IInv, NEW r \in Creates, ReadCache(r) PROVE IInv'
<1> USE DEF IInv, ReadCache, Hit, GoTo, redis, cancel, history, Exists
<1>1. TypeOK'
  BY DEF TypeOK, PCs, Active
<1>2. LockInv'
  BY DEF TypeOK, LockInv, Guarded, SameKey, Critical
<1>3. AnswerInv'
  BY DEF TypeOK, AnswerInv, SameKey
<1>4. StockInv'
  BY DEF TypeOK, StockInv, Early
<1>5. CancelInv' /\ CancelledIsRefunded'
  BY DEF CancelInv, CancelledIsRefunded
<1> QED
  BY <1>1, <1>2, <1>3, <1>4, <1>5

LEMMA AcquireLockIInv == ASSUME IInv, NEW r \in Creates, AcquireLock(r) PROVE IInv'
<1> USE DEF IInv, AcquireLock, Free, GoTo, cancel, history, Exists
<1>1. TypeOK'
  BY DEF TypeOK, PCs, Active, Critical
<1>2. LockInv'
  BY DEF TypeOK, LockInv, Guarded, SameKey, Critical
<1>3. AnswerInv'
  BY DEF TypeOK, AnswerInv, SameKey
<1>4. StockInv'
  BY DEF TypeOK, StockInv, Early
<1>5. CancelInv' /\ CancelledIsRefunded'
  BY DEF CancelInv, CancelledIsRefunded
<1> QED
  BY <1>1, <1>2, <1>3, <1>4, <1>5

LEMMA PriceIInv == ASSUME IInv, NEW r \in Creates, Price(r) PROVE IInv'
<1> USE DEF IInv, Price, GoTo, redis, cancel, history, Exists
<1>1. TypeOK'
  BY DEF TypeOK, PCs, Active, Critical, Statuses
<1>2. LockInv'
  BY DEF TypeOK, LockInv, Guarded, SameKey, Critical
<1>3. AnswerInv'
  BY DEF TypeOK, AnswerInv, SameKey
<1>4. StockInv'
  BY DEF TypeOK, StockInv, Early
<1>5. CancelInv' /\ CancelledIsRefunded'
  BY DEF TypeOK, CancelInv, CancelledIsRefunded, StockInv, Statuses
<1> QED
  BY <1>1, <1>2, <1>3, <1>4, <1>5

LEMMA FailsEarlyIInv == ASSUME IInv, NEW r \in Creates, FailsEarly(r) PROVE IInv'
<1> USE DEF IInv, FailsEarly, GoTo, redis, cancel, history, Fault, Exists
<1>1. TypeOK'
  BY DEF TypeOK, PCs, Active, Critical, Statuses
<1>2. LockInv'
  BY DEF TypeOK, LockInv, Guarded, SameKey, Critical
<1>3. AnswerInv'
  BY DEF TypeOK, AnswerInv, SameKey
<1>4. StockInv'
  BY DEF TypeOK, StockInv, Early
<1>5. CancelInv' /\ CancelledIsRefunded'
  BY DEF TypeOK, CancelInv, CancelledIsRefunded, StockInv, Statuses
<1> QED
  BY <1>1, <1>2, <1>3, <1>4, <1>5

LEMMA ReserveIInv == ASSUME IInv, NEW r \in Creates, Reserve(r) PROVE IInv'
<1> USE DEF IInv, Reserve, GoTo, redis, cancel, history, Exists
<1>1. TypeOK'
  BY DEF TypeOK, PCs, Active, Critical, Statuses
<1>2. LockInv'
  BY DEF TypeOK, LockInv, Guarded, SameKey, Critical
<1>3. AnswerInv'
  BY DEF TypeOK, AnswerInv, SameKey
<1>4. StockInv'
  BY DEF TypeOK, StockInv, Early
<1>5. CancelInv' /\ CancelledIsRefunded'
  BY DEF TypeOK, CancelInv, CancelledIsRefunded, StockInv, Statuses
<1> QED
  BY <1>1, <1>2, <1>3, <1>4, <1>5

LEMMA ReserveReplyLostIInv == ASSUME IInv, NEW r \in Creates, ReserveReplyLost(r) PROVE IInv'
<1> USE DEF IInv, ReserveReplyLost, GoTo, redis, cancel, Fault, Exists
<1>1. TypeOK'
  BY DEF TypeOK, PCs, Active, Critical, Statuses
<1>2. LockInv'
  BY DEF TypeOK, LockInv, Guarded, SameKey, Critical
<1>3. AnswerInv'
  BY DEF TypeOK, AnswerInv, SameKey
<1>4. StockInv'
  BY DEF TypeOK, StockInv, Early
<1>5. CancelInv' /\ CancelledIsRefunded'
  BY DEF TypeOK, CancelInv, CancelledIsRefunded, StockInv, Statuses
<1> QED
  BY <1>1, <1>2, <1>3, <1>4, <1>5

LEMMA ScheduleIInv == ASSUME IInv, NEW r \in Creates, Schedule(r) PROVE IInv'
<1> USE DEF IInv, Schedule, GoTo, redis, cancel, history, Exists
<1>1. TypeOK'
  BY DEF TypeOK, PCs, Active, Critical, Statuses
<1>2. LockInv'
  BY DEF TypeOK, LockInv, Guarded, SameKey, Critical
<1>3. AnswerInv'
  BY DEF TypeOK, AnswerInv, SameKey
<1>4. StockInv'
  BY DEF TypeOK, StockInv, Early
<1>5. CancelInv' /\ CancelledIsRefunded'
  BY DEF TypeOK, CancelInv, CancelledIsRefunded, StockInv, Statuses
<1> QED
  BY <1>1, <1>2, <1>3, <1>4, <1>5

LEMMA ScheduleFailsIInv == ASSUME IInv, NEW r \in Creates, ScheduleFails(r) PROVE IInv'
<1> USE DEF IInv, ScheduleFails, GoTo, redis, cancel, history, Fault, Exists
<1>1. TypeOK'
  BY DEF TypeOK, PCs, Active, Critical, Statuses
<1>2. LockInv'
  BY DEF TypeOK, LockInv, Guarded, SameKey, Critical
<1>3. AnswerInv'
  BY DEF TypeOK, AnswerInv, SameKey
<1>4. StockInv'
  BY DEF TypeOK, StockInv, Early
<1>5. CancelInv' /\ CancelledIsRefunded'
  BY DEF TypeOK, CancelInv, CancelledIsRefunded, StockInv, Statuses
<1> QED
  BY <1>1, <1>2, <1>3, <1>4, <1>5

LEMMA CommitIInv == ASSUME IInv, NEW r \in Creates, Commit(r) PROVE IInv'
<1> USE DEF IInv, Commit, GoTo, redis, cancel, history, Exists
<1>1. TypeOK'
  BY DEF TypeOK, PCs, Active, Critical, Statuses
<1>2. LockInv'
  BY DEF TypeOK, LockInv, Guarded, SameKey, Critical
<1>3. AnswerInv'
  BY DEF TypeOK, AnswerInv, SameKey
<1>4. StockInv'
  BY DEF TypeOK, StockInv, Early
<1>5. CancelInv' /\ CancelledIsRefunded'
  BY DEF TypeOK, CancelInv, CancelledIsRefunded, StockInv, Statuses
<1> QED
  BY <1>1, <1>2, <1>3, <1>4, <1>5

LEMMA CommitFailsIInv == ASSUME IInv, NEW r \in Creates, CommitFails(r) PROVE IInv'
<1> USE DEF IInv, CommitFails, GoTo, redis, cancel, Fault, Exists
<1>1. TypeOK'
  BY DEF TypeOK, PCs, Active, Critical, Statuses
<1>2. LockInv'
  BY DEF TypeOK, LockInv, Guarded, SameKey, Critical
<1>3. AnswerInv'
  <2>1. \A q \in Creates : Exists(q) => Exists(q)'
    BY DEF TypeOK, StockInv
  <2>2. \A q \in Creates : pc'[q] = "answered" => pc[q] = "answered"
    BY DEF TypeOK
  <2> QED
    BY <2>1, <2>2 DEF TypeOK, AnswerInv, SameKey
<1>4. StockInv'
  BY DEF TypeOK, StockInv, Early
<1>5. CancelInv' /\ CancelledIsRefunded'
  BY DEF TypeOK, CancelInv, CancelledIsRefunded, StockInv, Statuses
<1> QED
  BY <1>1, <1>2, <1>3, <1>4, <1>5

LEMMA CompensateIInv == ASSUME IInv, NEW r \in Creates, Compensate(r) PROVE IInv'
<1> USE DEF IInv, Compensate, Items, GoTo, redis, cancel, history, Exists
<1>1. TypeOK'
  BY DEF TypeOK, PCs, Active, Critical, Statuses
<1>2. LockInv'
  BY DEF TypeOK, LockInv, Guarded, SameKey, Critical
<1>3. AnswerInv'
  BY DEF TypeOK, AnswerInv, SameKey
<1>4. StockInv'
  BY DEF TypeOK, StockInv, Early
<1>5. CancelInv' /\ CancelledIsRefunded'
  BY DEF TypeOK, CancelInv, CancelledIsRefunded, StockInv, Statuses
<1> QED
  BY <1>1, <1>2, <1>3, <1>4, <1>5

LEMMA CompensateFailsIInv == ASSUME IInv, NEW r \in Creates, CompensateFails(r) PROVE IInv'
<1> USE DEF IInv, CompensateFails, GoTo, redis, cancel, Fault, Exists
<1>1. TypeOK'
  BY DEF TypeOK, PCs, Active, Critical, Statuses
<1>2. LockInv'
  BY DEF TypeOK, LockInv, Guarded, SameKey, Critical
<1>3. AnswerInv'
  BY DEF TypeOK, AnswerInv, SameKey
<1>4. StockInv'
  BY DEF TypeOK, StockInv, Early
<1>5. CancelInv' /\ CancelledIsRefunded'
  BY DEF TypeOK, CancelInv, CancelledIsRefunded, StockInv, Statuses
<1> QED
  BY <1>1, <1>2, <1>3, <1>4, <1>5

LEMMA ReleaseIInv == ASSUME IInv, NEW r \in Creates, Release(r) PROVE IInv'
<1> USE DEF IInv, Release, GoTo, cancel, history, Exists
<1>1. TypeOK'
  BY DEF TypeOK, PCs, Active, Critical, Statuses
<1>2. LockInv'
  BY DEF TypeOK, LockInv, Guarded, SameKey, Critical
<1>3. AnswerInv'
  BY DEF TypeOK, AnswerInv, SameKey
<1>4. StockInv'
  BY DEF TypeOK, StockInv, Early
<1>5. CancelInv' /\ CancelledIsRefunded'
  BY DEF TypeOK, CancelInv, CancelledIsRefunded, StockInv, Statuses
<1> QED
  BY <1>1, <1>2, <1>3, <1>4, <1>5

LEMMA CacheResultIInv == ASSUME IInv, NEW r \in Creates, CacheResult(r) PROVE IInv'
<1> USE DEF IInv, CacheResult, GoTo, cancel, history, Exists
<1>1. TypeOK'
  BY DEF TypeOK, PCs, Active, Critical, Statuses
<1>2. LockInv'
  BY DEF TypeOK, LockInv, Guarded, SameKey, Critical
<1>3. AnswerInv'
  BY DEF TypeOK, AnswerInv, SameKey, StockInv
<1>4. StockInv'
  BY DEF TypeOK, StockInv, Early
<1>5. CancelInv' /\ CancelledIsRefunded'
  BY DEF TypeOK, CancelInv, CancelledIsRefunded, StockInv, Statuses
<1> QED
  BY <1>1, <1>2, <1>3, <1>4, <1>5

LEMMA CacheResultFailsIInv == ASSUME IInv, NEW r \in Creates, CacheResultFails(r) PROVE IInv'
<1> USE DEF IInv, CacheResultFails, GoTo, redis, cancel, Fault, Exists
<1>1. TypeOK'
  BY DEF TypeOK, PCs, Active, Critical, Statuses
<1>2. LockInv'
  BY DEF TypeOK, LockInv, Guarded, SameKey, Critical
<1>3. AnswerInv'
  BY DEF TypeOK, AnswerInv, SameKey
<1>4. StockInv'
  BY DEF TypeOK, StockInv, Early
<1>5. CancelInv' /\ CancelledIsRefunded'
  BY DEF TypeOK, CancelInv, CancelledIsRefunded, StockInv, Statuses
<1> QED
  BY <1>1, <1>2, <1>3, <1>4, <1>5

LEMMA CancelLockIInv == ASSUME IInv, NEW c \in Cancels, CancelLock(c) PROVE IInv'
<1> USE DEF IInv, CancelLock, Free, create, history, Exists
<1>1. TypeOK'
  BY DEF TypeOK, Statuses, CancelPCs, CancelActive
<1>2. LockInv'
  BY DEF TypeOK, LockInv, Guarded, SameKey, Critical
<1>3. AnswerInv'
  BY DEF TypeOK, AnswerInv, SameKey
<1>4. StockInv'
  BY DEF TypeOK, StockInv, Early, CancelInv
<1>5. CancelInv' /\ CancelledIsRefunded'
  BY DEF TypeOK, CancelInv, CancelledIsRefunded, Statuses, CancelActive, Cancellable
<1> QED
  BY <1>1, <1>2, <1>3, <1>4, <1>5

LEMMA CancelReadIInv == ASSUME IInv, NEW c \in Cancels, CancelRead(c) PROVE IInv'
<1> USE DEF IInv, CancelRead, redis, create, history, Exists
<1>1. TypeOK'
  BY DEF TypeOK, Statuses, CancelPCs, CancelActive
<1>2. LockInv'
  BY DEF TypeOK, LockInv, Guarded, SameKey, Critical
<1>3. AnswerInv'
  BY DEF TypeOK, AnswerInv, SameKey
<1>4. StockInv'
  BY DEF TypeOK, StockInv, Early, CancelInv
<1>5. CancelInv' /\ CancelledIsRefunded'
  BY DEF TypeOK, CancelInv, CancelledIsRefunded, Statuses, CancelActive, Cancellable
<1> QED
  BY <1>1, <1>2, <1>3, <1>4, <1>5

LEMMA CancelCommitIInv == ASSUME IInv, NEW c \in Cancels, CancelCommit(c) PROVE IInv'
<1> USE DEF IInv, CancelCommit, CancelUpdate, MarkCancelled, Restock, redis, create, history, Exists
<1>0. target[c] \in Creates /\ Exists(target[c])
  BY DEF CancelInv, CancelActive
<1>1. TypeOK'
  <2>1. cpc' \in [Cancels -> CancelPCs] /\ status' \in [Creates -> Statuses]
    BY <1>0 DEF TypeOK, Statuses, CancelPCs
  <2>2. refunds' \in [Creates -> Nat]
    BY <1>0 DEF TypeOK
  <2> QED
    BY <2>1, <2>2 DEF TypeOK
<1>2. LockInv'
  <2>1. \A q \in Creates : Exists(q)' <=> Exists(q)
    BY <1>0 DEF TypeOK
  <2> QED
    BY <2>1 DEF LockInv, Guarded, SameKey
<1>3. AnswerInv'
  BY DEF TypeOK, AnswerInv, SameKey
<1>4. StockInv'
  BY DEF TypeOK, StockInv, Early, CancelInv
<1>5. CancelInv' /\ CancelledIsRefunded'
  BY DEF TypeOK, CancelInv, CancelledIsRefunded, Statuses, CancelActive, Cancellable
<1> QED
  BY <1>1, <1>2, <1>3, <1>4, <1>5

LEMMA CancelCommitFailsIInv == ASSUME IInv, NEW c \in Cancels, CancelCommitFails(c) PROVE IInv'
<1> USE DEF IInv, Fault, CancelCommitFails, CancelUpdate, MarkCancelled, Restock, redis, create, history, Exists
<1>0. target[c] \in Creates /\ Exists(target[c])
  BY DEF CancelInv, CancelActive
<1>1. TypeOK'
  <2>1. cpc' \in [Cancels -> CancelPCs] /\ status' \in [Creates -> Statuses]
    BY <1>0 DEF TypeOK, Statuses, CancelPCs
  <2>2. refunds' \in [Creates -> Nat]
    BY <1>0 DEF TypeOK
  <2>3. faults' \in 0 .. MaxFaults
    BY DEF TypeOK
  <2> QED
    BY <2>1, <2>2, <2>3 DEF TypeOK
<1>2. LockInv'
  <2>1. \A q \in Creates : Exists(q)' <=> Exists(q)
    BY <1>0 DEF TypeOK
  <2> QED
    BY <2>1 DEF LockInv, Guarded, SameKey
<1>3. AnswerInv'
  BY DEF TypeOK, AnswerInv, SameKey
<1>4. StockInv'
  BY DEF TypeOK, StockInv, Early, CancelInv
<1>5. CancelInv' /\ CancelledIsRefunded'
  BY DEF TypeOK, CancelInv, CancelledIsRefunded, Statuses, CancelActive, Cancellable
<1> QED
  BY <1>1, <1>2, <1>3, <1>4, <1>5

LEMMA CancelFailsIInv == ASSUME IInv, NEW c \in Cancels, CancelFails(c) PROVE IInv'
<1> USE DEF IInv, CancelFails, redis, create, history, Fault, Exists
<1>1. TypeOK'
  BY DEF TypeOK, Statuses, CancelPCs, CancelActive
<1>2. LockInv'
  BY DEF TypeOK, LockInv, Guarded, SameKey, Critical
<1>3. AnswerInv'
  BY DEF TypeOK, AnswerInv, SameKey
<1>4. StockInv'
  BY DEF TypeOK, StockInv, Early, CancelInv
<1>5. CancelInv' /\ CancelledIsRefunded'
  BY DEF TypeOK, CancelInv, CancelledIsRefunded, Statuses, CancelActive, Cancellable
<1> QED
  BY <1>1, <1>2, <1>3, <1>4, <1>5

LEMMA PaymentSuccessIInv == ASSUME IInv, NEW o \in Creates, PaymentSuccess(o) PROVE IInv'
<1> USE DEF IInv, PaymentSuccess, redis, create, cancel, Exists
<1>1. TypeOK'
  BY DEF TypeOK, Statuses, CancelPCs, CancelActive
<1>2. LockInv'
  BY DEF TypeOK, LockInv, Guarded, SameKey, Critical
<1>3. AnswerInv'
  BY DEF TypeOK, AnswerInv, SameKey
<1>4. StockInv'
  BY DEF TypeOK, StockInv, Early, CancelInv
<1>5. CancelInv' /\ CancelledIsRefunded'
  BY DEF TypeOK, CancelInv, CancelledIsRefunded, Statuses, CancelActive, Cancellable
<1> QED
  BY <1>1, <1>2, <1>3, <1>4, <1>5

LEMMA AutoCheckIInv == ASSUME IInv, NEW o \in Creates, AutoCheck(o) PROVE IInv'
<1> USE DEF IInv, AutoCheck, redis, create, cancel, history, Exists
<1>1. TypeOK'
  BY DEF TypeOK, Statuses, CancelPCs, CancelActive
<1>2. LockInv'
  BY DEF TypeOK, LockInv, Guarded, SameKey, Critical
<1>3. AnswerInv'
  BY DEF TypeOK, AnswerInv, SameKey
<1>4. StockInv'
  BY DEF TypeOK, StockInv, Early, CancelInv
<1>5. CancelInv' /\ CancelledIsRefunded'
  BY DEF TypeOK, CancelInv, CancelledIsRefunded, Statuses, CancelActive, Cancellable
<1> QED
  BY <1>1, <1>2, <1>3, <1>4, <1>5

LEMMA AutoCancelIInv == ASSUME IInv, NEW o \in Creates, AutoCancel(o) PROVE IInv'
<1> USE DEF IInv, AutoCancel, redis, create, cancel, history, Exists
<1>1. TypeOK'
  BY DEF TypeOK, Statuses, CancelPCs, CancelActive
<1>2. LockInv'
  BY DEF TypeOK, LockInv, Guarded, SameKey, Critical
<1>3. AnswerInv'
  BY DEF TypeOK, AnswerInv, SameKey
<1>4. StockInv'
  BY DEF TypeOK, StockInv, Early, CancelInv
<1>5. CancelInv' /\ CancelledIsRefunded'
  BY DEF TypeOK, CancelInv, CancelledIsRefunded, Statuses, CancelActive, Cancellable
<1> QED
  BY <1>1, <1>2, <1>3, <1>4, <1>5

LEMMA AutoEmitIInv == ASSUME IInv, NEW o \in Creates, AutoEmit(o) PROVE IInv'
<1> USE DEF IInv, AutoEmit, Restock, redis, create, cancel, Fault, Exists
<1>1. TypeOK'
  <2>1. refunds' \in [Creates -> Nat]
    BY DEF TypeOK
  <2>2. faults' \in 0 .. MaxFaults /\ leaky' \subseteq Creates
    BY DEF TypeOK
  <2> QED
    BY <2>1, <2>2 DEF TypeOK
<1>2. LockInv'
  BY DEF TypeOK, LockInv, Guarded, SameKey, Critical
<1>3. AnswerInv'
  BY DEF TypeOK, AnswerInv, SameKey
<1>4. StockInv'
  BY DEF TypeOK, StockInv, Early, CancelInv
<1>5. CancelInv' /\ CancelledIsRefunded'
  BY DEF TypeOK, CancelInv, CancelledIsRefunded, Statuses, CancelActive, Cancellable
<1> QED
  BY <1>1, <1>2, <1>3, <1>4, <1>5

LEMMA ExpireIInv == ASSUME IInv, NEW k \in Keys, Expire(k) PROVE IInv'
<1> USE DEF IInv, Expire, create, cancel, Fault, InUse, Active, Exists
<1>1. TypeOK'
  BY DEF TypeOK, Statuses, CancelPCs, CancelActive
<1>2. LockInv'
  BY DEF TypeOK, LockInv, Guarded, SameKey, Critical
<1>3. AnswerInv'
  BY DEF TypeOK, AnswerInv, SameKey
<1>4. StockInv'
  BY DEF TypeOK, StockInv, Early, CancelInv
<1>5. CancelInv' /\ CancelledIsRefunded'
  BY DEF TypeOK, CancelInv, CancelledIsRefunded, Statuses, CancelActive, Cancellable
<1> QED
  BY <1>1, <1>2, <1>3, <1>4, <1>5

LEMMA ForgetIInv == ASSUME IInv, NEW k \in Keys, Forget(k) PROVE IInv'
<1> USE DEF IInv, Forget, create, cancel, Fault, Exists
<1>1. TypeOK'
  BY DEF TypeOK, Statuses, CancelPCs, CancelActive
<1>2. LockInv'
  BY DEF TypeOK, LockInv, Guarded, SameKey, Critical
<1>3. AnswerInv'
  BY DEF TypeOK, AnswerInv, SameKey
<1>4. StockInv'
  BY DEF TypeOK, StockInv, Early, CancelInv
<1>5. CancelInv' /\ CancelledIsRefunded'
  BY DEF TypeOK, CancelInv, CancelledIsRefunded, Statuses, CancelActive, Cancellable
<1> QED
  BY <1>1, <1>2, <1>3, <1>4, <1>5

LEMMA CrashIInv == ASSUME IInv, Crash PROVE IInv'
<1> USE DEF IInv, Crash, redis, Fault, InUse, Active, Exists
<1>1. TypeOK'
  BY DEF TypeOK, PCs, CancelPCs, CancelActive
<1>2. LockInv'
  BY DEF TypeOK, LockInv, Guarded, SameKey, Critical
<1>3. AnswerInv'
  BY DEF TypeOK, AnswerInv, SameKey
<1>4. StockInv'
  BY DEF TypeOK, StockInv, Early, Critical
<1>5. CancelInv' /\ CancelledIsRefunded'
  BY DEF TypeOK, CancelInv, CancelledIsRefunded, CancelActive
<1> QED
  BY <1>1, <1>2, <1>3, <1>4, <1>5

LEMMA StutterIInv == ASSUME IInv, UNCHANGED vars PROVE IInv'
BY DEF IInv, vars, redis, create, cancel, history, TypeOK, LockInv, AnswerInv, StockInv,
       CancelInv, CancelledIsRefunded, Guarded, SameKey, Exists

LEMMA Invariance == Spec => []IInv
<1>1. ASSUME IInv, Next PROVE IInv'
  <2> USE <1>1
  <2>1. ASSUME NEW r \in Creates, CreateStep(r) PROVE IInv'
    BY <2>1, ReadCacheIInv, AcquireLockIInv, PriceIInv, FailsEarlyIInv, ReserveIInv, ReserveReplyLostIInv,
       ScheduleIInv, ScheduleFailsIInv, CommitIInv, CommitFailsIInv, CompensateIInv,
       CompensateFailsIInv, ReleaseIInv, CacheResultIInv, CacheResultFailsIInv DEF CreateStep
  <2>2. ASSUME NEW c \in Cancels, CancelStep(c) PROVE IInv'
    BY <2>2, CancelLockIInv, CancelReadIInv, CancelCommitIInv, CancelCommitFailsIInv,
       CancelFailsIInv DEF CancelStep
  <2>3. ASSUME NEW o \in Creates, PaymentSuccess(o) \/ JobStep(o) PROVE IInv'
    BY <2>3, PaymentSuccessIInv, AutoCheckIInv, AutoCancelIInv, AutoEmitIInv DEF JobStep
  <2> QED
    BY <2>1, <2>2, <2>3, ExpireIInv, ForgetIInv, CrashIInv DEF Next
<1>2. IInv /\ [Next]_vars => IInv'
  BY <1>1, StutterIInv
<1> QED
  BY InitIInv, <1>2, PTL DEF Spec

-----------------------------------------------------------------------------
(* The theorems.                                                           *)

(* Type correctness. *)
THEOREM TypeCorrect == Spec => []TypeOK
BY Invariance, PTL DEF IInv

(* Calls with one key make one order, and answer with it, as long as no     *)
(* fault broke the key's guard (lines 74-86 and 171-175): of any number of  *)
(* concurrent and repeated calls.                                           *)
THEOREM IdempotentCreation == Spec => []OneOrderPerKey
<1>1. IInv => OneOrderPerKey
  <2> SUFFICES ASSUME IInv, NEW r \in Creates, NEW q \in Creates,
                      SameKey(r, q), Guarded(r)
               PROVE  /\ Exists(r) /\ Exists(q) => r = q
                      /\ pc[r] = "answered" /\ Exists(q) => answer[r] = q
    BY DEF OneOrderPerKey, SameKey, Guarded
  <2>1. \A x, y \in Creates :
          SameKey(x, r) /\ SameKey(y, r) /\ Exists(x) /\ Exists(y) => x = y
    BY DEF IInv, LockInv, SameKey, Guarded, Critical
  <2>2. pc[r] = "answered" => answer[r] \in Creates /\ Exists(answer[r]) /\ SameKey(answer[r], r)
    BY DEF IInv, AnswerInv, SameKey
  <2> QED
    BY <2>1, <2>2 DEF SameKey
<1> QED
  BY Invariance, <1>1, PTL

(* No refund event for stock that was not taken, whatever fails (lines      *)
(* 124, 161-166, 227-233 and 260-273).                                      *)
THEOREM RefundsAreOfTakenStock == Spec => []NoInventedRefund
<1>1. IInv => NoInventedRefund
  BY DEF IInv, StockInv, NoInventedRefund
<1> QED
  BY Invariance, <1>1, PTL

(* The saga: a failed creation that knew of its reservation gives it back   *)
(* exactly once (lines 156-170).                                            *)
THEOREM SagaCompensates == Spec => []FailedCreateIsCompensated
<1>1. IInv => FailedCreateIsCompensated
  BY DEF IInv, StockInv, FailedCreateIsCompensated
<1> QED
  BY Invariance, <1>1, PTL

(* A cancelled order has its refund event (lines 217-235 and 256-273). *)
THEOREM CancelledOrdersAreRefunded == Spec => []CancelledIsRefunded
BY Invariance, PTL DEF IInv

-----------------------------------------------------------------------------
(* Cancellation.  Under an intact guard a cancel key is one call's at a     *)
(* time, which no create shares; what a call cancelled stays cancelled      *)
(* until a payment revives it; and so a second call with the key that gets  *)
(* as far as the update has seen the order revived.                         *)
CancelLockInv ==
    \A c \in Cancels : CancelKey[c] \notin exposed /\ cpc[c] \in CancelActive =>
        /\ CancelKey[c] \in held
        /\ \A d \in Cancels : cpc[d] \in CancelActive /\ CancelKey[d] = CancelKey[c] => d = c
        /\ \A r \in Creates : pc[r] \in Critical => CreateKey[r] # CancelKey[c]

Repeats(c, d) ==
    /\ c # d /\ CancelKey[c] = CancelKey[d] /\ CancelKey[c] \notin exposed
    /\ target[c] = target[d]

CancelledInv ==
    /\ \A c \in Cancels : cpc[c] = "cancelled" =>
          target[c] \in Creates /\ (status[target[c]] = "CANCELLED" \/ target[c] \in revived)
    /\ \A c, d \in Cancels :
          Repeats(c, d) /\ cpc[c] = "cancelled" /\ cpc[d] \in {"updating", "cancelled"}
              => target[c] \in revived

CInv == CancelLockInv /\ CancelledInv

LEMMA CreateStepCInv == ASSUME IInv, CInv, NEW r \in Creates, CreateStep(r) PROVE CInv'
<1> USE DEF IInv, CInv, GoTo, redis, cancel, history, Critical
<1>1. CASE ReadCache(r)
  BY <1>1 DEF ReadCache, TypeOK, CancelLockInv, CancelledInv, Repeats
<1>2. CASE AcquireLock(r)
  BY <1>2 DEF AcquireLock, Free, TypeOK, CancelLockInv, CancelledInv, Repeats, LockInv, Guarded, SameKey
<1>3. CASE Price(r)
  BY <1>3 DEF Price, TypeOK, CancelLockInv, CancelledInv, Repeats
<1>4. CASE FailsEarly(r)
  BY <1>4 DEF FailsEarly, Fault, TypeOK, CancelLockInv, CancelledInv, Repeats
<1>5. CASE Reserve(r)
  BY <1>5 DEF Reserve, TypeOK, CancelLockInv, CancelledInv, Repeats
<1>6. CASE ReserveReplyLost(r)
  BY <1>6 DEF ReserveReplyLost, Fault, TypeOK, CancelLockInv, CancelledInv, Repeats
<1>7. CASE Schedule(r)
  BY <1>7 DEF Schedule, TypeOK, CancelLockInv, CancelledInv, Repeats
<1>8. CASE ScheduleFails(r)
  BY <1>8 DEF ScheduleFails, Fault, TypeOK, CancelLockInv, CancelledInv, Repeats
<1>9. CASE Commit(r)
  BY <1>9 DEF Commit, TypeOK, CancelLockInv, CancelledInv, Repeats, StockInv, Exists
<1>10. CASE CommitFails(r)
  BY <1>10 DEF CommitFails, Fault, TypeOK, CancelLockInv, CancelledInv, Repeats, StockInv, Exists
<1>11. CASE Compensate(r)
  BY <1>11 DEF Compensate, TypeOK, CancelLockInv, CancelledInv, Repeats
<1>12. CASE CompensateFails(r)
  BY <1>12 DEF CompensateFails, Fault, TypeOK, CancelLockInv, CancelledInv, Repeats
<1>13. CASE Release(r)
  BY <1>13 DEF Release, TypeOK, CancelLockInv, CancelledInv, Repeats, LockInv, Guarded, SameKey
<1>14. CASE CacheResult(r)
  BY <1>14 DEF CacheResult, TypeOK, CancelLockInv, CancelledInv, Repeats
<1>15. CASE CacheResultFails(r)
  BY <1>15 DEF CacheResultFails, Fault, TypeOK, CancelLockInv, CancelledInv, Repeats
<1> QED
  BY <1>1, <1>2, <1>3, <1>4, <1>5, <1>6, <1>7, <1>8, <1>9, <1>10, <1>11, <1>12, <1>13, <1>14, <1>15
     DEF CreateStep

LEMMA CancelStepCInv == ASSUME IInv, CInv, NEW c \in Cancels, CancelStep(c) PROVE CInv'
<1> USE DEF IInv, CInv, CancelActive, CancelPCs
<1>1. CASE CancelLock(c)
  <2> USE <1>1 DEF CancelLock, Free, create, history
  <2>1. CancelLockInv'
    <3>1. \A r \in Creates : pc[r] \in Critical /\ CreateKey[r] \notin exposed => CreateKey[r] \in held
      BY DEF LockInv, Guarded, SameKey
    <3>2. /\ \A d \in Cancels : d # c => cpc'[d] = cpc[d]
          /\ cpc'[c] \in CancelActive => CancelKey[c] \notin held /\ held' = held \cup {CancelKey[c]}
          /\ held \subseteq held'
      BY DEF TypeOK
    <3> QED
      BY <3>1, <3>2 DEF CancelLockInv
  <2>2. CancelledInv'
    BY DEF TypeOK, CancelLockInv, CancelledInv, Repeats
  <2> QED
    BY <2>1, <2>2
<1>2. CASE CancelRead(c)
  <2> USE <1>2 DEF CancelRead, redis, create, history, CancelInv, Cancellable
  <2>1. CancelLockInv'
    BY DEF TypeOK, CancelLockInv
  <2>2. CancelledInv'
    BY DEF TypeOK, CancelLockInv, CancelledInv, Repeats
  <2> QED
    BY <2>1, <2>2
<1>3. CASE CancelCommit(c)
  <2> USE <1>3 DEF CancelCommit, CancelUpdate, MarkCancelled, Restock, redis, create, history, CancelInv
  <2>1. CancelLockInv'
    BY DEF TypeOK, CancelLockInv
  <2>2. CancelledInv'
    BY DEF TypeOK, CancelLockInv, CancelledInv, Repeats
  <2> QED
    BY <2>1, <2>2
<1>4. CASE CancelCommitFails(c)
  <2> USE <1>4 DEF CancelCommitFails, CancelUpdate, MarkCancelled, Restock, Fault, redis, create, history, CancelInv
  <2>1. CancelLockInv'
    BY DEF TypeOK, CancelLockInv
  <2>2. CancelledInv'
    BY DEF TypeOK, CancelLockInv, CancelledInv, Repeats
  <2> QED
    BY <2>1, <2>2
<1>5. CASE CancelFails(c)
  <2> USE <1>5 DEF CancelFails, Fault, redis, create, history
  <2>1. CancelLockInv'
    BY DEF TypeOK, CancelLockInv
  <2>2. CancelledInv'
    BY DEF TypeOK, CancelLockInv, CancelledInv, Repeats
  <2> QED
    BY <2>1, <2>2
<1> QED
  BY <1>1, <1>2, <1>3, <1>4, <1>5 DEF CancelStep

LEMMA OtherStepCInv ==
    ASSUME IInv, CInv,
           \/ \E o \in Creates : PaymentSuccess(o) \/ JobStep(o)
           \/ \E k \in Keys : Expire(k) \/ Forget(k)
           \/ Crash
           \/ UNCHANGED vars
    PROVE  CInv'
<1> USE DEF IInv, CInv, CancelActive, CancelPCs, redis, create, cancel, history, Fault
<1> USE DEF TypeOK, CancelLockInv, CancelledInv, Repeats
<1>1. ASSUME NEW o \in Creates, PaymentSuccess(o) PROVE CInv'
  BY <1>1 DEF PaymentSuccess
<1>2. ASSUME NEW o \in Creates, JobStep(o) PROVE CInv'
  BY <1>2 DEF JobStep, AutoCheck, AutoCancel, AutoEmit
<1>3. ASSUME NEW k \in Keys, Expire(k) PROVE CInv'
  BY <1>3 DEF Expire, InUse
<1>4. ASSUME NEW k \in Keys, Forget(k) PROVE CInv'
  BY <1>4 DEF Forget
<1>5. CASE Crash
  BY <1>5 DEF Crash
<1>6. CASE UNCHANGED vars
  BY <1>6 DEF vars
<1> QED
  BY <1>1, <1>2, <1>3, <1>4, <1>5, <1>6

(* cancel refunds once for a key: the lock lets one call with it at a time  *)
(* read the status and update it (lines 181-238), unless a payment revives  *)
(* the order in between.                                                    *)
THEOREM CancelsOncePerKey == Spec => []CancelOncePerKey
<1>1. Init => CInv
  BY DEF Init, CInv, CancelLockInv, CancelledInv, CancelActive
<1>2. IInv /\ CInv /\ [Next]_vars => CInv'
  BY CreateStepCInv, CancelStepCInv, OtherStepCInv DEF Next
<1>3. CInv => CancelOncePerKey
  BY DEF CInv, CancelledInv, Repeats, CancelOncePerKey
<1> QED
  BY <1>1, <1>2, <1>3, Invariance, PTL DEF Spec

-----------------------------------------------------------------------------
(* Orders for one key, with faults.  A key has one place for a call that    *)
(* makes an order, and each fault makes one more.  When another call may    *)
(* take the lock, or nobody is at work and no result is cached, there is a  *)
(* place left: so a call that fails and releases the lock of another lets   *)
(* in no more than the one who takes its own place.                        *)
Makers(k) == {r \in Creates : CreateKey[r] = k /\ (Exists(r) \/ pc[r] \in Critical)}
Waiting(k) == \E r \in Creates : CreateKey[r] = k /\ pc[r] = "locking"
AtWork(k) == \E r \in Creates : CreateKey[r] = k /\ pc[r] \in Critical
PlaceLeft(k) ==
    \/ k \notin held /\ (cached[k] = NoOrder \/ Waiting(k))
    \/ cached[k] = NoOrder /\ ~AtWork(k)

Slot(k) ==
    /\ IsFiniteSet(Makers(k))
    /\ Cardinality(Makers(k)) <= 1 + faults
    /\ PlaceLeft(k) => Cardinality(Makers(k)) <= faults

SlotInv == \A k \in Keys : Slot(k)

(* Nobody comes in, and a place is free only if it was or a fault makes it. *)
LEMMA SlotKept ==
    ASSUME NEW k, Slot(k), faults \in Nat, Makers(k)' \subseteq Makers(k),
           \/ faults' = faults /\ (PlaceLeft(k)' => PlaceLeft(k))
           \/ faults' = faults + 1
    PROVE  Slot(k)'
<1>1. /\ IsFiniteSet(Makers(k)')
      /\ Cardinality(Makers(k)') <= Cardinality(Makers(k))
  BY FS_Subset DEF Slot
<1>2. Cardinality(Makers(k)) \in Nat /\ Cardinality(Makers(k)') \in Nat
  BY <1>1, FS_CardinalityType DEF Slot
<1> QED
  BY <1>1, <1>2 DEF Slot

(* One goes, and its place is left.                                         *)
LEMMA SlotGivenUp ==
    ASSUME NEW k, NEW r \in Makers(k), Slot(k), faults \in Nat,
           Makers(k)' \subseteq Makers(k) \ {r}, faults' = faults
    PROVE  Slot(k)'
<1>1. /\ IsFiniteSet(Makers(k) \ {r})
      /\ Cardinality(Makers(k) \ {r}) = Cardinality(Makers(k)) - 1
  BY FS_RemoveElement DEF Slot
<1>2. /\ IsFiniteSet(Makers(k)')
      /\ Cardinality(Makers(k)') <= Cardinality(Makers(k) \ {r})
  BY <1>1, FS_Subset
<1>3. Cardinality(Makers(k)) \in Nat /\ Cardinality(Makers(k)') \in Nat
  BY <1>2, FS_CardinalityType DEF Slot
<1> QED
  BY <1>1, <1>2, <1>3 DEF Slot

(* One comes in where a place is left, and none is left then.               *)
LEMMA SlotTaken ==
    ASSUME NEW k, NEW r, Slot(k), faults \in Nat, PlaceLeft(k), ~PlaceLeft(k)',
           Makers(k)' \subseteq Makers(k) \cup {r}, faults' = faults
    PROVE  Slot(k)'
<1>1. /\ IsFiniteSet(Makers(k) \cup {r})
      /\ Cardinality(Makers(k) \cup {r}) <= Cardinality(Makers(k)) + 1
  <2>1. IsFiniteSet(Makers(k))
    BY DEF Slot
  <2>2. Cardinality(Makers(k)) \in Nat
    BY <2>1, FS_CardinalityType
  <2>3. /\ IsFiniteSet(Makers(k) \cup {r})
        /\ Cardinality(Makers(k) \cup {r}) =
              IF r \in Makers(k) THEN Cardinality(Makers(k)) ELSE Cardinality(Makers(k)) + 1
    BY <2>1, FS_AddElement
  <2> QED
    BY <2>2, <2>3
<1>2. /\ IsFiniteSet(Makers(k)')
      /\ Cardinality(Makers(k)') <= Cardinality(Makers(k) \cup {r})
  BY <1>1, FS_Subset
<1>3. /\ Cardinality(Makers(k)) \in Nat /\ Cardinality(Makers(k)') \in Nat
      /\ Cardinality(Makers(k) \cup {r}) \in Nat
  BY <1>1, <1>2, FS_CardinalityType DEF Slot
<1> QED
  BY <1>1, <1>2, <1>3 DEF Slot

LEMMA CreateStepSlot ==
    ASSUME IInv, NEW k \in Keys, Slot(k), NEW r \in Creates, CreateStep(r) PROVE Slot(k)'
<1> USE DEF IInv, TypeOK, GoTo, redis, cancel, history, Exists, Fault
<1> USE DEF Makers, Waiting, AtWork, PlaceLeft, Critical
<1>0. faults \in Nat
  OBVIOUS
<1>1. CASE ReadCache(r)
  BY <1>0, <1>1, SlotKept DEF ReadCache, Hit
<1>2. CASE AcquireLock(r)
  <2>1. CASE CreateKey[r] \in held \/ CreateKey[r] # k
    BY <1>0, <1>2, <2>1, SlotKept DEF AcquireLock, Free
  <2>2. CASE CreateKey[r] \notin held /\ CreateKey[r] = k
    <3>1. PlaceLeft(k) /\ ~PlaceLeft(k)'
      BY <1>2, <2>2 DEF AcquireLock, Free
    <3>2. Makers(k)' \subseteq Makers(k) \cup {r} /\ faults' = faults
      BY <1>2, <2>2 DEF AcquireLock, Free
    <3> QED
      BY <1>0, <3>1, <3>2, SlotTaken
  <2> QED
    BY <2>1, <2>2
<1>3. CASE Price(r) \/ Reserve(r) \/ Schedule(r) \/ Compensate(r)
  <2>1. Makers(k)' = Makers(k) /\ (PlaceLeft(k)' => PlaceLeft(k)) /\ faults' = faults
    BY <1>3 DEF Price, Reserve, Schedule, Compensate
  <2> QED
    BY <1>0, <2>1, SlotKept
<1>4. CASE \/ FailsEarly(r) \/ ReserveReplyLost(r) \/ ScheduleFails(r) \/ CommitFails(r)
           \/ CompensateFails(r) \/ CacheResultFails(r)
  <2>1. Makers(k)' \subseteq Makers(k) /\ faults' = faults + 1
    BY <1>4 DEF FailsEarly, ReserveReplyLost, ScheduleFails, CommitFails, CompensateFails,
                CacheResultFails
  <2> QED
    BY <1>0, <2>1, SlotKept
<1>5. CASE Commit(r)
  BY <1>0, <1>5, SlotKept DEF Commit
<1>6. CASE Release(r)
  <2>1. ~Exists(r) /\ ~Exists(r)'
    BY <1>6 DEF Release, StockInv
  <2>2. CASE CreateKey[r] # k
    <3>1. Makers(k)' \subseteq Makers(k) /\ faults' = faults
      BY <1>6, <2>2 DEF Release
    <3>2. PlaceLeft(k)' => PlaceLeft(k)
      BY <1>6, <2>2 DEF Release
    <3> QED
      BY <1>0, <3>1, <3>2, SlotKept
  <2>3. CASE CreateKey[r] = k
    <3>1. r \in Makers(k) /\ Makers(k)' \subseteq Makers(k) \ {r} /\ faults' = faults
      BY <1>6, <2>1, <2>3 DEF Release
    <3> QED
      BY <1>0, <3>1, SlotGivenUp
  <2> QED
    BY <2>2, <2>3
<1>7. CASE CacheResult(r)
  BY <1>0, <1>7, SlotKept DEF CacheResult
<1> QED
  BY <1>1, <1>2, <1>3, <1>4, <1>5, <1>6, <1>7 DEF CreateStep

LEMMA OtherStepSlot ==
    ASSUME IInv, NEW k \in Keys, Slot(k),
           \/ \E o \in Creates : PaymentSuccess(o) \/ JobStep(o)
           \/ \E c \in Cancels : CancelStep(c)
           \/ \E h \in Keys : Expire(h) \/ Forget(h)
           \/ Crash
           \/ UNCHANGED vars
    PROVE  Slot(k)'
<1> USE DEF IInv, TypeOK, redis, create, cancel, history, Exists, Fault
<1>0. faults \in Nat
  OBVIOUS
<1>1. ASSUME NEW o \in Creates, PaymentSuccess(o) \/ JobStep(o) PROVE Slot(k)'
  <2>1. /\ UNCHANGED <<held, cached, pc>>
        /\ \A r \in Creates : Exists(r)' => Exists(r)
        /\ faults' = faults \/ faults' = faults + 1
    BY <1>1 DEF PaymentSuccess, JobStep, AutoCheck, AutoCancel, AutoEmit
  <2> QED
    BY <1>0, <2>1, SlotKept DEF Makers, Waiting, AtWork, PlaceLeft
<1>2. ASSUME NEW c \in Cancels, CancelStep(c) PROVE Slot(k)'
  <2>1. /\ held \subseteq held' /\ UNCHANGED <<cached, pc>>
        /\ \A r \in Creates : Exists(r)' => Exists(r)
        /\ faults' = faults \/ faults' = faults + 1
    BY <1>2 DEF CancelStep, CancelLock, CancelRead, CancelCommit, CancelCommitFails, CancelFails,
       CancelUpdate, MarkCancelled, CancelInv
  <2> QED
    BY <1>0, <2>1, SlotKept DEF Makers, Waiting, AtWork, PlaceLeft
<1>3. ASSUME NEW h \in Keys, Expire(h) PROVE Slot(k)'
  BY <1>0, <1>3, SlotKept DEF Expire, InUse, Active, Makers, Waiting, AtWork, PlaceLeft
<1>4. ASSUME NEW h \in Keys, Forget(h) PROVE Slot(k)'
  BY <1>0, <1>4, SlotKept DEF Forget, Makers
<1>5. CASE Crash
  <2>1. faults' = faults + 1 /\ UNCHANGED status
    BY <1>5 DEF Crash
  <2>2. \A r \in Creates : pc'[r] \in Critical => pc[r] \in Critical
    BY <1>5 DEF Crash, Critical
  <2>3. Makers(k)' \subseteq Makers(k)
    BY <2>1, <2>2 DEF Makers
  <2> QED
    BY <1>0, <2>1, <2>3, SlotKept
<1>6. CASE UNCHANGED vars
  BY <1>0, <1>6, SlotKept DEF vars, Makers, Waiting, AtWork, PlaceLeft
<1> QED
  BY <1>1, <1>2, <1>3, <1>4, <1>5, <1>6

(* create makes one order of a key, and one more for each fault at most: a  *)
(* lock that expired or that release deleted under another call, a result   *)
(* that was not cached, a crash (lines 76-175).                            *)
THEOREM ExtraOrdersArePaidFor == Spec => []ExtraOrdersNeedFaults
<1>1. Init => SlotInv
  <2> SUFFICES ASSUME Init, NEW k \in Keys PROVE Slot(k)
    BY DEF SlotInv
  <2>1. Makers(k) = {} /\ faults = 0
    BY DEF Init, Makers, Exists, Critical
  <2> QED
    BY <2>1, FS_EmptySet DEF Slot
<1>2. IInv /\ SlotInv /\ [Next]_vars => SlotInv'
  BY CreateStepSlot, OtherStepSlot DEF SlotInv, Next
<1>3. IInv /\ SlotInv => ExtraOrdersNeedFaults
  <2> SUFFICES ASSUME IInv, SlotInv, NEW k \in Keys
               PROVE  Cardinality({r \in Creates : CreateKey[r] = k /\ Exists(r)}) <= 1 + faults
    BY DEF ExtraOrdersNeedFaults
  <2> DEFINE made == {r \in Creates : CreateKey[r] = k /\ Exists(r)}
  <2>1. made \in SUBSET Makers(k)
    BY DEF Makers
  <2>2. Slot(k) /\ faults \in Nat
    BY DEF SlotInv, IInv, TypeOK
  <2> HIDE DEF made
  <2>3. IsFiniteSet(made) /\ Cardinality(made) <= Cardinality(Makers(k))
    BY <2>1, <2>2, FS_Subset DEF Slot
  <2>4. Cardinality(made) \in Nat /\ Cardinality(Makers(k)) \in Nat
    BY <2>2, <2>3, FS_CardinalityType DEF Slot
  <2> QED
    BY <2>2, <2>3, <2>4 DEF Slot, made
<1> QED
  BY <1>1, <1>2, <1>3, Invariance, PTL DEF Spec
=============================================================================
