\* Overlapping installations, connection tests and requests, with crashes.
SPECIFICATION Spec
SYMMETRY MCSymmetry
CONSTANTS
    d1 = d1
    d2 = d2
    n1 = n1
    n2 = n2
    r1 = r1
    r2 = r2
    r3 = r3
    None = None
    Db <- MCDb
    Name <- MCName
    Request <- MCRequest
CHECK_DEADLOCK FALSE
INVARIANTS
    TypeOK
    LockedDatabaseHasAdmin
    AcknowledgedOnce
    ReadyOnceWired
PROPERTY
    PanicHasCause
