CONSTANTS
    FirstCall = first
    Calls = {first, p1}
    Callbacks = {k1}
    Consumer = consumer
    Casts = {TRUE, FALSE}
    FaultKinds = {}
    MaxFaults = 0
SPECIFICATION LiveSpec
INVARIANT
    OneOpenAttempt
PROPERTY
    PaymentResolves
CHECK_DEADLOCK FALSE
