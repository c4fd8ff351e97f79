SPECIFICATION MCWorkspacesSpec
CONSTANTS
    alice = alice
    bob = bob
    People = {alice, bob}
    Administrators = {alice}
    ProjectIDs = {p1}
    URLs = {u1, u2}
    Setups = {}
    Removals = {r1, r2}
    Writers = {w1, w2}
    MaxUID = 4
    MaxRequests = 3
    MaxFaults = 1
    None = None
INVARIANTS
    ReceiptTruthful
    CatalogReceiptTruthful
PROPERTIES
    OneCatalogChangeAtATime
CHECK_DEADLOCK FALSE
