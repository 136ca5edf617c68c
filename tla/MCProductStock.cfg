CONSTANTS
    a = a
    b = b
    Products = {a, b}
    Requests = {r1, r2}
    Carts <- SmallCarts
    Initial <- TwoEach
    MaxFaults = 2
    MaxAsks = 2
SPECIFICATION LiveSpec
INVARIANTS
    TypeOK
    NeverOversold
    Conservation
    RefundBounded
    RefundMade
PROPERTIES
    EveryReservationEnds
    RefundCompletes
    LedgerSpec
CHECK_DEADLOCK FALSE
