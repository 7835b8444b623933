\* Two overlapping requests with every kind of input: refinement of Ledger, and progress.
SPECIFICATION FairSpec
CONSTANTS
    u1 = u1
    u2 = u2
    c1 = c1
    o1 = o1
    r1 = r1
    r2 = r2
    r3 = r3
    NoRow = NoRow
    User <- MCUser
    Code <- MCCode
    Order <- MCOrder
    Drivers <- MCDrivers
    OrderPoints <- MCOne
    MaxClock <- MCMaxClock
    Request <- MCTwoRequests
    CodePoints <- MCZeroTwo
    MaxUsesInput <- MCZero
    AdminDelta <- MCZeroOne
    Cost <- MCZeroOne
CHECK_DEADLOCK FALSE
PROPERTIES
    ImplementsLedger
    EveryRequestIsAnswered
