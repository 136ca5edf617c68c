CONSTANTS
    k1 = k1
    k2 = k2
    NoOrder = NoOrder
    Keys = {k1, k2}
    Creates = {r1, r2}
    Cancels = {c1, c2}
    CreateKey <- SameCreateKey
    CancelKey <- SameCancelKey
    Replies = {"error"}
    FaultKinds = {}
    MaxFaults = 1
SPECIFICATION LiveSpec
PROPERTY PendingOrderResolves
CHECK_DEADLOCK FALSE
