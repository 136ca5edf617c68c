CONSTANTS
    FirstCall = first
    Calls = {first}
    Callbacks = {k1, k2}
    Consumer = consumer
    Casts = {TRUE, FALSE}
    FaultKinds = {"rpc", "commitFails", "crash"}
    MaxFaults = 1
SPECIFICATION LiveSpec
INVARIANTS
    TypeOK
    OnlyChargesCount
    RefundsAreDue
    RefundedOnce
PROPERTIES
    SuccessIsKept
    ChargeIsRecorded
    PaymentResolves
    RefundsAreRequested
CHECK_DEADLOCK FALSE
