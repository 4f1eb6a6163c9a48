CONSTANTS
    Users = {u1, u2}
    Requests = {p1, p2, p3}
    NoUser = NoUser
    Missing = Missing
    TTL = 2
    MaxToggles = 3
SPECIFICATION FairSpec
INVARIANTS
    CounterTypeOK
    HardCeiling
    DriftBounded
PROPERTIES
    Heals
