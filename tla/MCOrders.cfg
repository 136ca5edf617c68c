CONSTANTS
    k1 = k1
    k2 = k2
    NoOrder = NoOrder
    Keys = {k1, k2}
    Creates = {r1, r2, r3}
    Cancels = {c1, c2}
    CreateKey <- SameCreateKey
    CancelKey <- SameCancelKey
    Replies = {"PENDING", "PAID", "CANCELLED", "FINALIZING", "error"}
    FaultKinds = {"rpc", "lostReply", "commitFails", "lockExpiry", "cacheExpiry", "crash"}
    MaxFaults = 1
SPECIFICATION Spec
INVARIANTS
    TypeOK
    OneOrderPerKey
    ExtraOrdersNeedFaults
    NoInventedRefund
    FailedCreateIsCompensated
    CancelledIsRefunded
    CancelOncePerKey
SYMMETRY AnyCall
CHECK_DEADLOCK FALSE
