SPECIFICATION FairSpec
CONSTANTS
    Users = {o, t}
    Owner = o
    Readers = {o}
    Tenant = t
    ChatEvents = {m1}
    BoardEvents = {e1}
    Requests = {r1, r2}
    None = None
    Missing = Missing
    MaxFaults = 1
INVARIANTS NotifiedOnce UnreadDrift
PROPERTY EveryMessageNotified
CHECK_DEADLOCK FALSE
