SPECIFICATION LiveSpec
CONSTANTS
    User = {u1}
    Request = {r1}
    Password = {p1, p2}
    Token = {t1}
    Lifetime = {1, 3}
    MaxAttempts = 2
    Window = 2
    MaxTime = 4
    MaxLogins = 4
    MaxSalt = 1
INVARIANTS
    LimiterHolds
PROPERTIES
    RevokedSocketsClose
