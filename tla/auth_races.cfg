SPECIFICATION Spec
CONSTANTS
    User = {u1}
    Request = {r1, r2}
    Password = {p1, p2}
    Token = {t1, t2}
    Lifetime = {1}
    MaxAttempts = 3
    Window = 1
    MaxTime = 1
    MaxLogins = 3
    MaxSalt = 2
SYMMETRY Symmetry
INVARIANTS
    TypeOK
    SessionsOfCurrentPassword
PROPERTIES
    NoLostChange
    ImplementsContract
