CONSTANTS
    old = old
    a = a
    Old = {old}
    OldEmail <- OldHasA
    OldActive = {old}
    Emails = {a, b}
    Requests = {q1, q2, q3, q4}
    NoEmail = noEmail
    None = none
    Shapes = {"plain", "wrapped"}
    MaxTime = 1
    MaxFaults = 1
SPECIFICATION Spec
INVARIANTS
    TypeOK
    OneAccountPerEmail
    PasswordNeedsCode
    RefreshIsLatest
    RefusedForAReason
SYMMETRY AnyRequest
CHECK_DEADLOCK FALSE
