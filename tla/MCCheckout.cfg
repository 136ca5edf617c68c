CONSTANTS
    Order = order1
    Cancels = {cancel1}
    NoOrder = noOrder
    FirstCall = first
    Calls = {first}
    Callbacks = {k1}
    Consumer = consumer
    Casts = {TRUE, FALSE}
SPECIFICATION LiveSpec
INVARIANTS
    ConfirmedIsNotRefunded
PROPERTIES
    ConfirmedChargeIsSettled
    CancellationAsksForRefund
    SaleSpec
CHECK_DEADLOCK FALSE
