CONSTANTS
    Users = {u1, u2}
    Families = {f1, f2}
    Tokens = {t1, t2, t3}
    Requests = {p1, p2}
    NoUser = NoUser
    NoFamily = NoFamily
    NoToken = NoToken
    MaxChanges = 1
SPECIFICATION Spec
INVARIANTS
    LatestPasswordHolds
