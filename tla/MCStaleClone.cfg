SPECIFICATION MCWorkspacesSpec
CONSTANTS
    alice = alice
    bob = bob
    People = {alice}
    Administrators = {alice}
    ProjectIDs = {p1}
    URLs = {u1, u2}
    Setups = {s1}
    Removals = {r1}
    Writers = {w1}
    MaxUID = 3
    MaxRequests = 5
    MaxFaults = 0
    None = None
INVARIANTS
    ReadyCloneIsProjects
CHECK_DEADLOCK FALSE
