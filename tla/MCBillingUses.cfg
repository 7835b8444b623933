\* Two users redeem a single-use code.
SPECIFICATION Spec
CONSTANTS
    u1 = u1
    u2 = u2
    c1 = c1
    o1 = o1
    r1 = r1
    r2 = r2
    r3 = r3
    NoRow = NoRow
    User <- MCUser
    Code <- MCCode
    Order <- MCOrder
    Drivers <- MCDrivers
    OrderPoints <- MCOne
    MaxClock <- MCMaxClock
    Request <- MCTwoRequests
    CodePoints <- MCTwo
    MaxUsesInput <- MCZero
    AdminDelta <- MCNone
    Cost <- MCNone
CHECK_DEADLOCK FALSE
INVARIANT MaxUsesRespected
