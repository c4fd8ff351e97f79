SPECIFICATION MCNativeFairSpec
CONSTANTS
    alice = alice
    bob = bob
    People = {alice, bob}
    Administrators = {alice}
    ProjectIDs = {p1}
    URLs = {u1}
    Setups = {s1}
    Removals = {r1}
    Writers = {w1}
    MaxUID = 4
    MaxRequests = 3
    MaxFaults = 2
    None = None
PROPERTIES
    RemovesOnlyReviewed
    EveryRequestEnds
CHECK_DEADLOCK FALSE
