\* Overlapping saves, deletions, orders, notifications and events.
CONSTANTS
    Domain = domain
    Hook = hook
    Order = order
    Name = {m1, m2}
    FirstName = m1
    Secret = {s1, s2}
    FirstSecret = s1
    Blank = Blank
    Mask = Mask
    Rate = {0, 3}
    Cents = {1, 150, 200}
    Request = {r1, r2}
    NoRow = NoRow
    Broken = Broken
SPECIFICATION Spec
SYMMETRY Symmetry
CHECK_DEADLOCK FALSE
INVARIANTS
    TypeOK
    LastEnteredHolds
    DeletedStaysDeleted
    PricedInForce
    HeardAsSubscribed
    PaidWhenTold
