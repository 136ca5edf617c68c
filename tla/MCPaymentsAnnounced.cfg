CONSTANTS
    FirstCall = first
    Calls = {first}
    Callbacks = {k1}
    Consumer = consumer
    Casts = {TRUE, FALSE}
    FaultKinds = {}
    MaxFaults = 0
SPECIFICATION LiveSpec
INVARIANT PaidIsAnnounced
CHECK_DEADLOCK FALSE
