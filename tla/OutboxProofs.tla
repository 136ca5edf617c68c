---------------------------- MODULE OutboxProofs ----------------------------
(***************************************************************************)
(* Proofs about Outbox, for every set of events, every limit and every     *)
(* number of faults.  The inductive invariant IInv relates what MongoDB    *)
(* says of an event to what the loop holds in memory of it.                *)
(***************************************************************************)
EXTENDS Outbox, FiniteSetTheorems, TLAPS

USE EventsAssumption, LimitsAssumption

(* The loop's memory: there is one only while the flag is up, an event of   *)
(* the batch is still pending, and the event in hand left the batch.        *)
WorkerInv ==
    /\ ~isProcessing => batch = {} /\ hand = {}
    /\ \A e \in batch : phase[e] = "stored" /\ ~sent[e] /\ retryCount[e] < RetryLimit
    /\ \A h \in hand : /\ phase[h.ev] = "stored"
                       /\ h.ev \notin batch
                       /\ retryCount[h.ev] < RetryLimit
                       /\ h.sent => published[h.ev] > 0
                       /\ ~h.sent => h.recovering /\ h.ev \in failed
    /\ \A h, g \in hand : h = g

(* An event was tried before the worker counts a retry or marks it sent. *)
TriedInv ==
    \A e \in Events : retryCount[e] > 0 => published[e] > 0 \/ e \in failed

(* The causes of an event are committed and carry older timestamps. *)
TimeInv ==
    /\ \A e \in Events : createdAt[e] <= clock
    /\ \A f \in Events : \A e \in causes[f] :
          phase[e] = "stored" /\ createdAt[e] < createdAt[f]

Tried(e) == published[e] > 0 \/ e \in failed

(* The causes of an event the worker reached were tried before it, and the  *)
(* untried causes of an event of the batch are in the batch too.            *)
OrderInv ==
    \A f \in Events : \A e \in causes[f] :
        /\ published[f] + inFlight[f] > 0 => Tried(e)
        /\ f \in batch => e \in batch \/ Tried(e)

IInv ==
    /\ TypeOK
    /\ WorkerInv
    /\ TriedInv
    /\ TimeInv
    /\ OrderInv
    /\ SentWasPublished
    /\ OnlyCommittedPublished
    /\ DuplicatesNeedFaults

-----------------------------------------------------------------------------
(* A fetched batch is pending, and it holds every pending event older than  *)
(* one of its own.                                                          *)
LEMMA OldestIsPrefix ==
    ASSUME TypeOK,
           NEW S \in SUBSET Events, NEW f \in Oldest(S), NEW e \in S,
           createdAt[e] < createdAt[f]
    PROVE  e \in Oldest(S)
<1> DEFINE Before(x) == {y \in S : createdAt[y] < createdAt[x]}
<1>1. IsFiniteSet(S)
  BY FS_Subset
<1>2. Before(e) \subseteq Before(f)
  BY DEF Oldest, TypeOK
<1>3. IsFiniteSet(Before(f)) /\ IsFiniteSet(Before(e))
  <2>1. Before(f) \subseteq S /\ Before(e) \subseteq S
    OBVIOUS
  <2> QED
    BY <1>1, <2>1, FS_Subset
<1>4. Cardinality(Before(e)) <= Cardinality(Before(f))
  BY <1>2, <1>3, FS_Subset
<1>5. Cardinality(Before(e)) \in Nat /\ Cardinality(Before(f)) \in Nat
  BY <1>3, FS_CardinalityType
<1>6. Cardinality(Before(f)) < BatchLimit
  BY DEF Oldest
<1>7. Cardinality(Before(e)) < BatchLimit
  BY <1>4, <1>5, <1>6
<1> QED
  BY <1>7 DEF Oldest

LEMMA OldestSubset == ASSUME NEW S PROVE Oldest(S) \subseteq S
BY DEF Oldest

-----------------------------------------------------------------------------
LEMMA InitIInv == Init => IInv
<1> SUFFICES ASSUME Init PROVE IInv
  OBVIOUS
<1> USE DEF Init
<1>1. TypeOK
  <2>1. 0 \in 0 .. RetryLimit /\ 0 \in 0 .. MaxFaults
    OBVIOUS
  <2>2. phase \in [Events -> Phases] /\ causes \in [Events -> SUBSET Events]
    BY DEF Phases
  <2> QED
    BY <2>1, <2>2 DEF TypeOK
<1>2. WorkerInv /\ TriedInv /\ TimeInv /\ OrderInv
  BY DEF WorkerInv, TriedInv, TimeInv, OrderInv
<1>3. SentWasPublished /\ OnlyCommittedPublished /\ DuplicatesNeedFaults
  BY DEF SentWasPublished, OnlyCommittedPublished, DuplicatesNeedFaults, InHand
<1> QED
  BY <1>1, <1>2, <1>3 DEF IInv

LEMMA CreateIInv == ASSUME IInv, NEW e \in Events, Create(e) PROVE IInv'
<1> USE DEF IInv, Create, document, broker, worker
<1>1. TypeOK'
  BY DEF TypeOK, Phases, Stored
<1>2. WorkerInv'
  BY DEF TypeOK, WorkerInv, Hand, Phases
<1>3. TriedInv' /\ SentWasPublished'
  BY DEF TriedInv, SentWasPublished
<1>4. TimeInv'
  BY DEF TypeOK, TimeInv, Stored, Phases
<1>5. OrderInv'
  BY DEF TypeOK, OrderInv, Tried, WorkerInv, OnlyCommittedPublished, Stored, Phases
<1>6. OnlyCommittedPublished'
  BY DEF TypeOK, OnlyCommittedPublished, Phases
<1>7. DuplicatesNeedFaults'
  BY DEF DuplicatesNeedFaults, InHand
<1> QED
  BY <1>1, <1>2, <1>3, <1>4, <1>5, <1>6, <1>7

LEMMA EndTransactionIInv ==
    ASSUME IInv, NEW e \in Events, EndTransaction(e) PROVE IInv'
<1> USE DEF IInv, EndTransaction, document, broker, worker
<1>1. TypeOK'
  BY DEF TypeOK, Phases
<1>2. WorkerInv'
  BY DEF TypeOK, WorkerInv, Hand, Phases
<1>3. TriedInv' /\ SentWasPublished'
  BY DEF TriedInv, SentWasPublished
<1>4. TimeInv'
  BY DEF TypeOK, TimeInv, Phases
<1>5. OrderInv'
  BY DEF TypeOK, OrderInv, Tried
<1>6. OnlyCommittedPublished'
  BY DEF TypeOK, OnlyCommittedPublished, Phases
<1>7. DuplicatesNeedFaults'
  BY DEF DuplicatesNeedFaults, InHand
<1> QED
  BY <1>1, <1>2, <1>3, <1>4, <1>5, <1>6, <1>7

LEMMA TickIInv == ASSUME IInv, Tick PROVE IInv'
<1> USE DEF IInv, Tick, store, document, broker
<1>0. batch' \subseteq Pending /\ Pending \subseteq Events
  BY OldestSubset DEF Pending, Stored
<1>1. TypeOK'
  BY <1>0 DEF TypeOK
<1>2. WorkerInv'
  BY <1>0 DEF WorkerInv, Pending, Stored
<1>3. TriedInv' /\ SentWasPublished' /\ TimeInv' /\ OnlyCommittedPublished'
  BY DEF TriedInv, SentWasPublished, TimeInv, OnlyCommittedPublished
<1>4. OrderInv'
  <2> SUFFICES ASSUME NEW f \in Events, NEW e \in causes[f], f \in batch', ~Tried(e)
               PROVE  e \in batch'
    BY DEF OrderInv, Tried
  <2>1. e \in Events
    BY DEF TypeOK
  <2>2. ~sent[e] /\ ~(retryCount[e] > 0)
    BY <2>1 DEF SentWasPublished, TriedInv, Tried
  <2>3. retryCount[e] < RetryLimit
    BY <2>1, <2>2 DEF TypeOK
  <2>4. e \in Pending /\ createdAt[e] < createdAt[f]
    BY <2>1, <2>2, <2>3 DEF TimeInv, Pending, Stored
  <2> QED
    BY <2>4, <1>0, OldestIsPrefix
<1>5. DuplicatesNeedFaults'
  BY DEF DuplicatesNeedFaults, InHand
<1> QED
  BY <1>1, <1>2, <1>3, <1>4, <1>5

(* At the head of the batch, every cause of the event was tried. *)
LEMMA HeadCausesTried ==
    ASSUME IInv, NEW f \in Events, AtHead(f), NEW e \in causes[f]
    PROVE  Tried(e)
BY DEF IInv, TypeOK, AtHead, TimeInv, OrderInv

LEMMA EmitAckedIInv == ASSUME IInv, NEW e \in Events, EmitAcked(e) PROVE IInv'
<1> USE DEF IInv, EmitAcked, AtHead, store, document
<1>1. TypeOK'
  BY DEF TypeOK, Hand
<1>2. WorkerInv'
  BY DEF TypeOK, WorkerInv
<1>3. TriedInv' /\ SentWasPublished'
  BY DEF TypeOK, TriedInv, SentWasPublished
<1>4. TimeInv'
  BY DEF TimeInv
<1>5. OrderInv'
  <2>1. \A x \in causes[e] : Tried(x)
    BY HeadCausesTried
  <2>2. \A x \in Events : Tried(x) => Tried(x)'
    BY DEF TypeOK, Tried
  <2>3. Tried(e)'
    BY DEF TypeOK, Tried
  <2> QED
    BY <2>1, <2>2, <2>3 DEF TypeOK, OrderInv
<1>6. OnlyCommittedPublished'
  BY DEF TypeOK, OnlyCommittedPublished, WorkerInv
<1>7. DuplicatesNeedFaults'
  <2>1. ~sent[e] /\ ~InHand(e)
    BY DEF WorkerInv, InHand
  <2>2. published[e] + inFlight[e] <= faults
    BY <2>1 DEF DuplicatesNeedFaults, TypeOK
  <2>3. InHand(e)'
    BY DEF InHand
  <2>4. ASSUME NEW x \in Events, x # e
        PROVE  published'[x] + inFlight'[x]
                 <= faults' + (IF sent'[x] \/ InHand(x)' THEN 1 ELSE 0)
    BY <2>4 DEF DuplicatesNeedFaults, TypeOK, InHand
  <2> QED
    BY <2>2, <2>3, <2>4 DEF DuplicatesNeedFaults, TypeOK
<1> QED
  BY <1>1, <1>2, <1>3, <1>4, <1>5, <1>6, <1>7

LEMMA EmitTimesOutIInv ==
    ASSUME IInv, NEW e \in Events, EmitTimesOut(e) PROVE IInv'
<1> USE DEF IInv, EmitTimesOut, TimedOut, AtHead, store, document
<1>1. TypeOK'
  BY DEF TypeOK, Hand
<1>2. WorkerInv'
  BY DEF TypeOK, WorkerInv
<1>3. TriedInv' /\ SentWasPublished'
  BY DEF TypeOK, TriedInv, SentWasPublished
<1>4. TimeInv'
  BY DEF TimeInv
<1>5. OrderInv'
  <2>1. \A x \in causes[e] : Tried(x)
    BY HeadCausesTried
  <2>2. \A x \in Events : Tried(x) => Tried(x)'
    BY DEF TypeOK, Tried
  <2>3. Tried(e)'
    BY DEF TypeOK, Tried
  <2> QED
    BY <2>1, <2>2, <2>3 DEF TypeOK, OrderInv
<1>6. OnlyCommittedPublished'
  BY DEF TypeOK, OnlyCommittedPublished, WorkerInv
<1>7. DuplicatesNeedFaults'
  <2>1. \A x \in Events : ~InHand(x)
    BY DEF InHand
  <2> QED
    BY <2>1 DEF DuplicatesNeedFaults, TypeOK
<1> QED
  BY <1>1, <1>2, <1>3, <1>4, <1>5, <1>6, <1>7

LEMMA ArriveLoseIInv ==
    ASSUME IInv, NEW e \in Events, Arrive(e) \/ Lose(e) PROVE IInv'
<1> USE DEF IInv, Arrive, Lose, store, document, worker
<1>1. TypeOK'
  BY DEF TypeOK
<1>2. WorkerInv'
  BY DEF TypeOK, WorkerInv, Hand
<1>3. TriedInv' /\ SentWasPublished'
  BY DEF TypeOK, TriedInv, SentWasPublished
<1>4. TimeInv'
  BY DEF TimeInv
<1>5. OrderInv'
  <2>1. \A x \in Events : Tried(x) => Tried(x)'
    BY DEF TypeOK, Tried
  <2>2. \A x \in Events : published'[x] + inFlight'[x] > 0
                             => published[x] + inFlight[x] > 0
    BY DEF TypeOK
  <2> QED
    BY <2>1, <2>2 DEF TypeOK, OrderInv
<1>6. OnlyCommittedPublished'
  BY DEF TypeOK, OnlyCommittedPublished
<1>7. DuplicatesNeedFaults'
  BY DEF DuplicatesNeedFaults, TypeOK, InHand
<1> QED
  BY <1>1, <1>2, <1>3, <1>4, <1>5, <1>6, <1>7

LEMMA SaveIInv == ASSUME IInv, NEW h \in hand, Save(h) PROVE IInv'
<1> USE DEF IInv, Save, Written, Retries, store, broker
<1>0. h \in Hand /\ hand = {h}
  BY DEF TypeOK, WorkerInv
<1>1. TypeOK'
  BY <1>0 DEF TypeOK, WorkerInv, Hand
<1>2. WorkerInv'
  BY <1>0 DEF TypeOK, WorkerInv, Hand
<1>3. TriedInv' /\ SentWasPublished'
  BY <1>0 DEF TypeOK, TriedInv, SentWasPublished, WorkerInv, Hand
<1>4. TimeInv' /\ OnlyCommittedPublished'
  BY DEF TimeInv, OnlyCommittedPublished
<1>5. OrderInv'
  BY DEF OrderInv, Tried
<1>6. DuplicatesNeedFaults'
  <2>1. \A e \in Events : InHand(e) => sent'[e]
    BY <1>0 DEF InHand, TypeOK, Hand
  <2>2. \A e \in Events : sent[e] => sent'[e]
    BY <1>0 DEF TypeOK, Hand
  <2> QED
    BY <2>1, <2>2 DEF DuplicatesNeedFaults, TypeOK
<1> QED
  BY <1>1, <1>2, <1>3, <1>4, <1>5, <1>6

LEMMA SaveFailsIInv == ASSUME IInv, NEW h \in hand, SaveFails(h) PROVE IInv'
<1> USE DEF IInv, SaveFails, Written, Retries, store, broker, document
<1>0. h \in Hand /\ hand = {h}
  BY DEF TypeOK, WorkerInv
<1>1. TypeOK'
  BY <1>0 DEF TypeOK, WorkerInv, Hand
<1>2. WorkerInv'
  <2>1. CASE h.recovering
    BY <1>0, <2>1 DEF TypeOK, WorkerInv, Hand
  <2>2. CASE ~h.recovering
    <3>1. h.sent /\ retryCount' = retryCount
      BY <1>0, <2>2 DEF WorkerInv, TypeOK, Hand
    <3>2. hand' = {[ev |-> h.ev, sent |-> TRUE, recovering |-> TRUE]}
      BY <1>0, <2>2, <3>1 DEF Hand
    <3>3. \A e \in Events : e # h.ev => sent'[e] = sent[e]
      BY <1>0 DEF TypeOK
    <3>4. \A e \in batch : e # h.ev /\ e \in Events
      BY DEF WorkerInv, TypeOK
    <3>5. ~isProcessing' => batch' = {} /\ hand' = {}
      BY DEF WorkerInv
    <3>6. \A e \in batch' :
            phase'[e] = "stored" /\ ~sent'[e] /\ retryCount'[e] < RetryLimit
      BY <3>1, <3>3, <3>4 DEF WorkerInv
    <3>7. /\ phase'[h.ev] = "stored" /\ h.ev \notin batch'
          /\ retryCount'[h.ev] < RetryLimit /\ published'[h.ev] > 0
      BY <3>1 DEF WorkerInv
    <3>8. \A g \in hand' : g.ev = h.ev /\ g.sent
      BY <3>2
    <3>9. \A g, k \in hand' : g = k
      BY <3>2
    <3> QED
      BY <3>5, <3>6, <3>7, <3>8, <3>9 DEF WorkerInv
  <2> QED
    BY <2>1, <2>2
<1>3. TriedInv' /\ SentWasPublished'
  BY <1>0 DEF TypeOK, TriedInv, SentWasPublished, WorkerInv, Hand
<1>4. TimeInv' /\ OnlyCommittedPublished'
  BY DEF TimeInv, OnlyCommittedPublished
<1>5. OrderInv'
  BY DEF OrderInv, Tried
<1>6. DuplicatesNeedFaults'
  <2>1. \A e \in Events : sent[e] => sent'[e]
    BY <1>0 DEF TypeOK, Hand
  <2>2. \A e \in Events :
          published[e] + inFlight[e] <= faults + 1
          /\ (published[e] + inFlight[e] <= faults \/ sent[e] \/ InHand(e))
    BY DEF DuplicatesNeedFaults, TypeOK
  <2> QED
    BY <2>1, <2>2 DEF DuplicatesNeedFaults, TypeOK
<1> QED
  BY <1>1, <1>2, <1>3, <1>4, <1>5, <1>6

LEMMA FinishIInv == ASSUME IInv, Finish PROVE IInv'
BY DEF IInv, Finish, store, document, broker, TypeOK, WorkerInv, TriedInv, TimeInv,
       OrderInv, Tried, SentWasPublished, OnlyCommittedPublished,
       DuplicatesNeedFaults, InHand

LEMMA CrashIInv == ASSUME IInv, Crash PROVE IInv'
<1> USE DEF IInv, Crash, store, document, broker
<1>1. TypeOK'
  <2>1. faults' \in 0 .. MaxFaults
    BY DEF TypeOK
  <2> QED
    BY <2>1 DEF TypeOK
<1>2. WorkerInv'
  BY DEF WorkerInv
<1>3. TriedInv' /\ SentWasPublished' /\ TimeInv' /\ OnlyCommittedPublished'
  BY DEF TriedInv, SentWasPublished, TimeInv, OnlyCommittedPublished
<1>4. OrderInv'
  BY DEF OrderInv, Tried
<1>5. DuplicatesNeedFaults'
  BY DEF DuplicatesNeedFaults, TypeOK
<1> QED
  BY <1>1, <1>2, <1>3, <1>4, <1>5

LEMMA StutterIInv == ASSUME IInv, UNCHANGED vars PROVE IInv'
BY DEF IInv, vars, store, document, broker, worker, TypeOK, WorkerInv, TriedInv,
       TimeInv, OrderInv, Tried, SentWasPublished, OnlyCommittedPublished,
       DuplicatesNeedFaults, InHand

(* Every behaviour of the outbox satisfies the inductive invariant. *)
LEMMA Invariance == Spec => []IInv
<1>1. ASSUME IInv, Next PROVE IInv'
  BY <1>1, CreateIInv, EndTransactionIInv, TickIInv, EmitAckedIInv,
     EmitTimesOutIInv, ArriveLoseIInv, SaveIInv, SaveFailsIInv, FinishIInv,
     CrashIInv DEF Next
<1>2. IInv /\ [Next]_vars => IInv'
  BY <1>1, StutterIInv
<1> QED
  BY InitIInv, <1>2, PTL DEF Spec

-----------------------------------------------------------------------------
(* The theorems.                                                           *)

(* The worker's variables and the documents keep their types; in particular *)
(* no order of saves counts more retries than the limit (lines 38 and 61).  *)
THEOREM TypeCorrect == Spec => []TypeOK
BY Invariance, PTL DEF IInv

(* An event marked sent was published, whatever saves failed (lines 46-63). *)
THEOREM SentEventsWerePublished == Spec => []SentWasPublished
BY Invariance, PTL DEF IInv

(* Events of open and aborted transactions stay invisible.                  *)
THEOREM OnlyCommittedEventsPublished == Spec => []OnlyCommittedPublished
BY Invariance, PTL DEF IInv

(* Every copy of an event after the first is paid for by a fault: the       *)
(* re-entrancy flag and the sent filter (lines 32-38) publish none twice.   *)
THEOREM DuplicateBound == Spec => []DuplicatesNeedFaults
BY Invariance, PTL DEF IInv

(* Causally later events never overtake earlier ones whose emits succeed    *)
(* (the sort of line 39 and the serial loop of line 44).                    *)
THEOREM CausalDelivery == Spec => []CausalOrder
<1>1. IInv => CausalOrder
  BY DEF IInv, TypeOK, OrderInv, CausalOrder, Tried
<1> QED
  BY Invariance, <1>1, PTL

(* The worker implements the abstract outbox: its steps write, end, publish *)
(* or acknowledge an event, or change nothing the abstract outbox has.      *)
THEOREM ImplementsDelivery == Spec => DeliverySpec
<1>1. Init => Delivery!Init
  BY DEF Init, Delivery!Init
<1>2. ASSUME IInv, [Next]_vars PROVE [Delivery!Next]_(Delivery!vars)
  <2> USE <1>2 DEF IInv
  <2> DEFINE Acked == {e \in Events : sent[e]}
  <2>1. ASSUME UNCHANGED <<phase, published, sent>> PROVE UNCHANGED Delivery!vars
    BY <2>1 DEF Delivery!vars
  <2>2. ASSUME NEW e \in Events, Create(e) PROVE Delivery!Write(e)
    BY <2>2 DEF Create, document, broker, Delivery!Write
  <2>3. ASSUME NEW e \in Events, EndTransaction(e) PROVE Delivery!End(e)
    BY <2>3 DEF EndTransaction, document, broker, Delivery!End
  <2>4. ASSUME NEW e \in Events, EmitAcked(e) PROVE Delivery!Publish(e)
    BY <2>4 DEF EmitAcked, AtHead, store, document, WorkerInv, Delivery!Publish
  <2>5. ASSUME NEW e \in Events, Arrive(e) PROVE Delivery!Publish(e)
    BY <2>5 DEF Arrive, store, document, TypeOK, OnlyCommittedPublished,
                Delivery!Publish
  <2>6. ASSUME NEW h \in hand, Save(h) \/ SaveFails(h)
        PROVE  Delivery!Ack(h.ev) \/ UNCHANGED Delivery!vars
    <3>1. h \in Hand /\ h.ev \in Events /\ phase[h.ev] = "stored"
      BY DEF TypeOK, WorkerInv, Hand
    <3>2. UNCHANGED <<phase, published>>
      BY <2>6 DEF Save, SaveFails, store, broker
    <3>3. UNCHANGED sent \/ sent' = [sent EXCEPT ![h.ev] = h.sent \/ @]
      BY <2>6 DEF Save, SaveFails, Written, document
    <3>4. CASE UNCHANGED sent
      BY <3>2, <3>4, <2>1
    <3>5. CASE ~(UNCHANGED sent)
      <4>1. h.sent /\ ~sent[h.ev] /\ sent' = [sent EXCEPT ![h.ev] = TRUE]
        BY <3>1, <3>3, <3>5 DEF TypeOK, Hand
      <4>2. published[h.ev] > 0
        BY <4>1 DEF WorkerInv
      <4>3. Acked' = Acked \cup {h.ev} /\ h.ev \notin Acked
        BY <3>1, <4>1 DEF TypeOK
      <4> QED
        BY <3>1, <3>2, <4>2, <4>3 DEF Delivery!Ack
    <3> QED
      BY <3>4, <3>5
  <2>7. ASSUME Tick \/ Finish \/ Crash \/ \E e \in Events : EmitTimesOut(e) \/ Lose(e)
        PROVE  UNCHANGED <<phase, published, sent>>
    BY <2>7 DEF Tick, Finish, Crash, EmitTimesOut, Lose, store, document, broker
  <2>8. CASE UNCHANGED vars
    BY <2>8, <2>1 DEF vars, store, document, broker
  <2>9. CASE Next
    <3>1. \A h \in hand : h.ev \in Events
      BY DEF TypeOK, Hand
    <3> QED
      BY <2>9, <3>1, <2>1, <2>2, <2>3, <2>4, <2>5, <2>6, <2>7
      DEF Next, Delivery!Next
  <2> QED
    BY <2>8, <2>9
<1> QED
  BY Invariance, <1>1, <1>2, PTL DEF Spec, DeliverySpec, Delivery!Spec
=============================================================================
