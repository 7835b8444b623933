\* Three overlapping requests on each database: the safety of points and payments.
SPECIFICATION Spec
SYMMETRY MCRequestSymmetry
CONSTANTS
    u1 = u1
    u2 = u2
    c1 = c1
    o1 = o1
    r1 = r1
    r2 = r2
    r3 = r3
    NoRow = NoRow
    User <- MCUser
    Code <- MCCode
    Order <- MCOrder
    Drivers <- MCDrivers
    OrderPoints <- MCOne
    MaxClock <- MCMaxClock
    Request <- MCThreeRequests
    CodePoints <- MCTwo
    MaxUsesInput <- MCTwo
    AdminDelta <- MCNone
    Cost <- MCOne
CHECK_DEADLOCK FALSE
INVARIANTS
    TypeOK
    LedgerExplainsPoints
    BizNoPostedOnce
    PaidIffCredited
    SqliteRedeemIsExact
    UsesBoundPayout
