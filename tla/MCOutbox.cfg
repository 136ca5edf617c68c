CONSTANTS
    Events = {e1, e2, e3}
    RetryLimit = 3
    BatchLimit = 2
    MaxFaults = 2
SPECIFICATION LiveSpec
INVARIANTS
    TypeOK
    OnlyCommittedPublished
    DuplicatesNeedFaults
    CausalOrder
PROPERTIES
    EveryEventPublished
    DeliverySpec
CHECK_DEADLOCK FALSE
