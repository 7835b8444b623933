\* An expired subdomain against the second call.
SPECIFICATION Spec
CONSTANTS
    user = user
    admin = admin
    n1 = n1
    v1 = v1
    v2 = v2
    r1 = r1
    r2 = r2
    r3 = r3
    NoRow = NoRow
    User <- MCUser
    Admin <- MCAdmin
    Name <- MCName
    Value <- MCValue
    Request <- MCThreeRequests
    Cost = 1
    Balance = 2
    HasTTL = TRUE
CHECK_DEADLOCK FALSE
PROPERTY
    ExpiredIsRefused
