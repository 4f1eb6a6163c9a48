SPECIFICATION Spec
SYMMETRY Symmetry
CONSTANTS
    Users = {o, t}
    Owner = o
    Tenants = {t}
    Rooms = {x1, x2}
    Messages = {m1, m2}
    Requests = {r1, r2}
    None = None
    RecentLimit = 1
    MaxFaults = 2
INVARIANTS StoredOnce RecentConsistent
PROPERTIES ImplementsMessaging
CHECK_DEADLOCK FALSE
