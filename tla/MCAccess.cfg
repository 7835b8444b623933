CONSTANTS
    First = first
    Second = second
    Name = {n1, n2, n3}
    FirstName = n1
    SecondName = n2
    Password = {p1, p2}
    Initial = p1
    Request = {r1, r2}
    NoRow = NoRow
CHECK_DEADLOCK FALSE
SPECIFICATION Spec
SYMMETRY Symmetry
INVARIANTS
    TypeOK
    NamesAreUnique
    ActsWithStanding
    RevokedKeyIsDead
    LastPasswordHolds
PROPERTIES
    KeysStayEnabled
    AdminsStayEnabled
