SPECIFICATION Spec
SYMMETRY Symmetry
CONSTANTS
    Users = {landlord, tenant}
    Owners = {landlord}
    Buildings = {b1}
    Units = {u1}
    Codes = {c1}
    Leases = {l1}
    Requests = {r1, r2}
    Posts = {p1}
    None = None
    MaxVersion = 1
    MaxWrites = 2
INVARIANTS BoardTypeOK CodesAccounted EndsBounded ShownToMembers StaleExplained OrphansExplained
PROPERTIES ImplementsTenancy

CHECK_DEADLOCK FALSE
