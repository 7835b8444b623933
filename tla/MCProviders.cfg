\* Three overlapping calls of each provider: what the interface promises.
SPECIFICATION Spec
SYMMETRY MCSymmetry
CONSTANTS
    c1 = c1
    c2 = c2
    c3 = c3
    v1 = v1
    v2 = v2
    NoRecord = NoRecord
    Call <- MCCall
    Value <- MCValue
    Line <- MCLine
    Provider <- MCProvider
CHECK_DEADLOCK FALSE
INVARIANTS
    TypeOK
    OwnRecord
PROPERTIES
    ImplementsZone
    LineIsKept
