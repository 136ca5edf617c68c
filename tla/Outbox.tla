------------------------------- MODULE Outbox -------------------------------
(***************************************************************************)
(* The transactional outbox: services create OutboxEvent documents inside  *)
(* their MongoDB transactions, and OutboxWorkerService.processOutbox, a    *)
(* cron job of the order service, publishes the committed ones to Kafka.   *)
(*                                                                         *)
(* The worker is single (only OrdersModule starts the scheduler), but its  *)
(* job awaits a Kafka acknowledgement and one or two saves per event, and  *)
(* everything else may happen at each await: transactions of other         *)
(* services commit, the next cron tick fires, the process dies, an         *)
(* acknowledgement is later than its timeout.                              *)
(***************************************************************************)
EXTENDS Naturals, FiniteSets

CONSTANTS Events,       \* events the services may write
          RetryLimit,   \* retryCount from which an event is skipped (5)
          BatchLimit,   \* events fetched by one tick (50)
          MaxFaults     \* bound on timeouts, failed saves and crashes

ASSUME EventsAssumption == IsFiniteSet(Events)
ASSUME LimitsAssumption ==
    /\ RetryLimit \in Nat \ {0}
    /\ BatchLimit \in Nat \ {0}
    /\ MaxFaults \in Nat

VARIABLES
    clock,          \* the timestamps mongoose has handed out
    phase,          \* phase[e]: the transaction that creates e
    createdAt,      \* the timestamp of e
    sent,           \* e.sent in MongoDB
    retryCount,     \* e.retryCount in MongoDB
    published,      \* copies of e on its topic
    inFlight,       \* copies of e the client gave up waiting for
    isProcessing,   \* the worker's re-entrancy flag
    batch,          \* pendingEvents the loop has not reached yet
    hand,           \* the event of the current iteration, after its emit
    faults,         \* faults so far
    causes,         \* history: events stored when e was created
    failed          \* history: events whose emit was not acknowledged

store == <<clock, phase, createdAt, causes>>
document == <<sent, retryCount>>
broker == <<published, inFlight, failed>>
worker == <<isProcessing, batch, hand>>
vars == <<store, document, broker, worker, faults>>

Phases == {"none", "staged", "stored", "aborted"}

Hand == [ev : Events, sent : BOOLEAN, recovering : BOOLEAN]

TypeOK ==
    /\ clock \in Nat
    /\ phase \in [Events -> Phases]
    /\ createdAt \in [Events -> Nat]
    /\ sent \in [Events -> BOOLEAN]
    /\ retryCount \in [Events -> 0 .. RetryLimit]
    /\ published \in [Events -> Nat]
    /\ inFlight \in [Events -> Nat]
    /\ isProcessing \in BOOLEAN
    /\ batch \subseteq Events
    /\ hand \in SUBSET Hand
    /\ faults \in 0 .. MaxFaults
    /\ causes \in [Events -> SUBSET Events]
    /\ failed \subseteq Events

Init ==
    /\ clock = 0
    /\ phase = [e \in Events |-> "none"]
    /\ createdAt = [e \in Events |-> 0]
    /\ sent = [e \in Events |-> FALSE]
    /\ retryCount = [e \in Events |-> 0]
    /\ published = [e \in Events |-> 0]
    /\ inFlight = [e \in Events |-> 0]
    /\ isProcessing = FALSE
    /\ batch = {}
    /\ hand = {}
    /\ faults = 0
    /\ causes = [e \in Events |-> {}]
    /\ failed = {}

\* The events other clients of MongoDB see, and a variant for a create
\* without its session.
StoredOrStaged == {e \in Events : phase[e] \in {"staged", "stored"}}
Stored == {e \in Events : phase[e] = "stored"}

-----------------------------------------------------------------------------
(* The services: a business transaction that creates an event.             *)

\* outboxModel.create([...], { session }): timestamped, not yet visible.
Create(e) ==
    /\ phase[e] = "none"
    /\ phase' = [phase EXCEPT ![e] = "staged"]
    /\ clock' = clock + 1
    /\ createdAt' = [createdAt EXCEPT ![e] = clock + 1]
    /\ causes' = [causes EXCEPT ![e] = Stored]
    /\ UNCHANGED <<document, broker, worker, faults>>

\* session.commitTransaction() or abortTransaction().
EndTransaction(e) ==
    /\ phase[e] = "staged"
    /\ \E outcome \in {"stored", "aborted"} :
          phase' = [phase EXCEPT ![e] = outcome]
    /\ UNCHANGED <<clock, createdAt, causes, document, broker, worker, faults>>

-----------------------------------------------------------------------------
(* The worker.                                                             *)

\* Variants of the query: without one of its filters, or never retrying.
PendingOrSent == {e \in Stored : retryCount[e] < RetryLimit}
PendingOnce == {e \in Stored : ~sent[e] /\ retryCount[e] = 0}

\* find({ sent: false, retryCount: { $lt: 5 } })
Pending == {e \in Stored : ~sent[e] /\ retryCount[e] < RetryLimit}

\* A variant: sort({ createdAt: -1 }).
Newest(S) ==
    {e \in S : Cardinality({f \in S : createdAt[f] > createdAt[e]}) < BatchLimit}

\* .sort({ createdAt: 1 }).limit(50)
Oldest(S) ==
    {e \in S : Cardinality({f \in S : createdAt[f] < createdAt[e]}) < BatchLimit}

\* The cron tick; it does nothing while the previous one still runs.
Tick ==
    /\ ~isProcessing
    /\ isProcessing' = TRUE
    /\ batch' = Oldest(Pending)
    /\ UNCHANGED <<store, document, broker, hand, faults>>

\* The loop's next iteration is for e.
AtHead(e) ==
    /\ isProcessing
    /\ hand = {}
    /\ e \in batch
    /\ \A f \in batch : createdAt[e] <= createdAt[f]

\* Kafka acknowledges the emit; the document in memory is now sent.
EmitAcked(e) ==
    /\ AtHead(e)
    /\ batch' = batch \ {e}
    /\ published' = [published EXCEPT ![e] = @ + 1]
    /\ hand' = {[ev |-> e, sent |-> TRUE, recovering |-> FALSE]}
    /\ UNCHANGED <<store, document, inFlight, failed, isProcessing, faults>>

\* The document in memory when the catch block is entered from the emit, and
\* a variant that sets sent before it emits.
TimedOutAsSent(e) == [ev |-> e, sent |-> TRUE, recovering |-> TRUE]
TimedOut(e) == [ev |-> e, sent |-> FALSE, recovering |-> TRUE]

\* The emit fails or times out after 10 s: the catch block is entered, and
\* the record may still be on its way.
EmitTimesOut(e) ==
    /\ AtHead(e)
    /\ faults < MaxFaults
    /\ faults' = faults + 1
    /\ batch' = batch \ {e}
    /\ inFlight' = [inFlight EXCEPT ![e] = @ + 1]
    /\ failed' = failed \cup {e}
    /\ hand' = {TimedOut(e)}
    /\ UNCHANGED <<store, document, published, isProcessing>>

\* A record the client gave up on reaches the topic after all, or never.
Arrive(e) ==
    /\ inFlight[e] > 0
    /\ inFlight' = [inFlight EXCEPT ![e] = @ - 1]
    /\ published' = [published EXCEPT ![e] = @ + 1]
    /\ UNCHANGED <<store, document, failed, worker, faults>>

Lose(e) ==
    /\ inFlight[e] > 0
    /\ inFlight' = [inFlight EXCEPT ![e] = @ - 1]
    /\ UNCHANGED <<store, document, published, failed, worker, faults>>

\* How the catch block changes retryCount, and a variant that counts twice.
RetriesTwice(h) == IF h.recovering THEN 2 ELSE 0
Retries(h) == IF h.recovering THEN 1 ELSE 0

\* What event.save() writes: the document in memory, whose retryCount the
\* catch block has incremented.
Written(h) ==
    /\ sent' = [sent EXCEPT ![h.ev] = h.sent \/ @]
    /\ retryCount' = [retryCount EXCEPT ![h.ev] = @ + Retries(h)]

\* Either save succeeds and the iteration is over.
Save(h) ==
    /\ h \in hand
    /\ Written(h)
    /\ hand' = {}
    /\ UNCHANGED <<store, broker, isProcessing, batch, faults>>

\* Either save throws, and MongoDB may have applied it all the same.  The
\* first failure enters the catch block, with sent = true still in memory;
\* the second one is logged and the loop goes on.
SaveFails(h) ==
    /\ h \in hand
    /\ faults < MaxFaults
    /\ faults' = faults + 1
    /\ Written(h) \/ UNCHANGED document
    /\ hand' = IF h.recovering THEN {}
               ELSE {[ev |-> h.ev, sent |-> h.sent, recovering |-> TRUE]}
    /\ UNCHANGED <<store, broker, isProcessing, batch>>

\* The finally block.
Finish ==
    /\ isProcessing
    /\ batch = {}
    /\ hand = {}
    /\ isProcessing' = FALSE
    /\ UNCHANGED <<store, document, broker, batch, hand, faults>>

\* The process dies and restarts: the flag, the batch and the documents in
\* memory are gone.
Crash ==
    /\ isProcessing
    /\ faults < MaxFaults
    /\ faults' = faults + 1
    /\ isProcessing' = FALSE
    /\ batch' = {}
    /\ hand' = {}
    /\ UNCHANGED <<store, document, broker>>

-----------------------------------------------------------------------------
Next ==
    \/ \E e \in Events : Create(e) \/ EndTransaction(e)
    \/ Tick
    \/ \E e \in Events : EmitAcked(e) \/ EmitTimesOut(e) \/ Arrive(e) \/ Lose(e)
    \/ \E h \in hand : Save(h) \/ SaveFails(h)
    \/ Finish
    \/ Crash

Spec == Init /\ [][Next]_vars

\* The scheduler fires every 3 s, and an await of the loop ends: with an
\* answer, or (a fault) with an error.  Transactions need not end.
Fairness ==
    /\ WF_vars(Tick)
    /\ \A e \in Events : WF_vars(EmitAcked(e))
    /\ WF_vars(\E h \in hand : Save(h))
    /\ WF_vars(Finish)

LiveSpec == Spec /\ Fairness

-----------------------------------------------------------------------------
(* Properties.                                                             *)

\* An event marked sent, which the worker never looks at again, is on its
\* topic: no order of failed saves, late records and crashes marks one that
\* was never published.
SentWasPublished == \A e \in Events : sent[e] => published[e] > 0

\* Consumers see nothing of a transaction that aborted or is still open.
OnlyCommittedPublished ==
    \A e \in Events : published[e] + inFlight[e] > 0 => phase[e] = "stored"

InHand(e) == \E h \in hand : h.ev = e /\ h.sent

\* A second copy of an event costs a fault: overlapping ticks, a save that
\* is retried and a batch fetched before another one ends publish none.
DuplicatesNeedFaults ==
    \A e \in Events :
        published[e] + inFlight[e] <= faults + (IF sent[e] \/ InHand(e) THEN 1 ELSE 0)

\* Events are published in causal order: when f was created after the
\* commit of e, no consumer has f without e, unless an emit of e failed (the
\* loop then goes on with the younger events of its batch).
CausalOrder ==
    \A f \in Events : \A e \in causes[f] :
        published[f] > 0 => published[e] > 0 \/ e \in failed

\* At-least-once delivery: every committed event is eventually published.
EveryEventPublished ==
    \A e \in Events : phase[e] = "stored" ~> published[e] > 0

\* The worker implements the abstract outbox.
Delivery == INSTANCE EventDelivery
    WITH copies <- published, acked <- {e \in Events : sent[e]}
DeliverySpec == Delivery!Spec
=============================================================================
