-------------------------------- MODULE Sale --------------------------------
(***************************************************************************)
(* What the order and the payment service promise together about the sale  *)
(* of one order, whatever the order in which their events arrive: the      *)
(* order is confirmed only after the customer was charged, and a charge is *)
(* given back only after the order was cancelled or the time to pay was    *)
(* over.  A payment may confirm an order that was cancelled.               *)
(***************************************************************************)
CONSTANT Calls    \* the attempts at paying

VARIABLES
    stage,       \* of the order
    cancelled,   \* its cancellation was announced
    givenUp,     \* the time to pay is over
    charged,     \* attempts that the customer has paid
    returned     \* those whose refund is recorded

Init ==
    /\ stage = "none"
    /\ cancelled = FALSE
    /\ givenUp = FALSE
    /\ charged = {}
    /\ returned = {}

Place ==
    /\ stage = "none"
    /\ stage' = "PAYMENT_PENDING"
    /\ UNCHANGED <<cancelled, givenUp, charged, returned>>

Charge(c) ==
    /\ c \notin charged
    /\ charged' = charged \cup {c}
    /\ UNCHANGED <<stage, cancelled, givenUp, returned>>

Confirm ==
    /\ stage # "none"
    /\ charged # {}
    /\ stage' = "CONFIRMING"
    /\ UNCHANGED <<cancelled, givenUp, charged, returned>>

Cancel ==
    /\ stage # "none"
    /\ stage' = "CANCELLED"
    /\ cancelled' = TRUE
    /\ UNCHANGED <<givenUp, charged, returned>>

GiveUp ==
    /\ givenUp' = TRUE
    /\ UNCHANGED <<stage, cancelled, charged, returned>>

Return(c) ==
    /\ c \in charged \ returned
    /\ cancelled \/ givenUp
    /\ returned' = returned \cup {c}
    /\ UNCHANGED <<stage, cancelled, givenUp, charged>>

Next ==
    \/ Place \/ Confirm \/ Cancel \/ GiveUp
    \/ \E c \in Calls : Charge(c) \/ Return(c)

Spec == Init /\ [][Next]_<<stage, cancelled, givenUp, charged, returned>>
=============================================================================
