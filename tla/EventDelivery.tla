---------------------------- MODULE EventDelivery ----------------------------
(***************************************************************************)
(* What the transactional outbox promises the services that write to it,   *)
(* without batches, saves, retries or crashes: an event written inside a   *)
(* transaction exists for the topic only if that transaction commits, and  *)
(* is acknowledged (never looked at again) only after a copy of it was     *)
(* published.  Copies may be repeated: the promise is at least once.       *)
(***************************************************************************)
EXTENDS Naturals

CONSTANT Events

VARIABLES phase,      \* the transaction that wrote the event
          copies,     \* copies of the event on its topic
          acked       \* events the outbox has finished with

vars == <<phase, copies, acked>>

Init == /\ phase = [e \in Events |-> "none"]
        /\ copies = [e \in Events |-> 0]
        /\ acked = {}

Write(e) == /\ phase[e] = "none"
            /\ phase' = [phase EXCEPT ![e] = "staged"]
            /\ UNCHANGED <<copies, acked>>

End(e) == /\ phase[e] = "staged"
          /\ \E outcome \in {"stored", "aborted"} :
                phase' = [phase EXCEPT ![e] = outcome]
          /\ UNCHANGED <<copies, acked>>

Publish(e) == /\ phase[e] = "stored"
              /\ copies' = [copies EXCEPT ![e] = @ + 1]
              /\ UNCHANGED <<phase, acked>>

Ack(e) == /\ phase[e] = "stored"
          /\ copies[e] > 0
          /\ e \notin acked
          /\ acked' = acked \cup {e}
          /\ UNCHANGED <<phase, copies>>

Next == \E e \in Events : Write(e) \/ End(e) \/ Publish(e) \/ Ack(e)

Spec == Init /\ [][Next]_vars
==============================================================================
