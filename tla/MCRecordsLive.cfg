\* Every request is answered: no two of them wait for each other for ever.
SPECIFICATION FairSpec
CONSTANTS
    user = user
    admin = admin
    n1 = n1
    v1 = v1
    v2 = v2
    r1 = r1
    r2 = r2
    r3 = r3
    NoRow = NoRow
    User <- MCUser
    Admin <- MCAdmin
    Name <- MCName
    Value <- MCOneValue
    Request <- MCThreeRequests
    Cost = 1
    Balance = 2
    HasTTL = FALSE
CHECK_DEADLOCK FALSE
PROPERTY
    EveryRequestIsAnswered
