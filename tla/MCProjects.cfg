SPECIFICATION MCSpec
CONSTANTS
    alice = alice
    bob = bob
    People = {alice, bob}
    Administrators = {alice}
    ProjectIDs = {p1}
    URLs = {u1}
    Setups = {s1, s2}
    Removals = {r1}
    Writers = {w1}
    MaxUID = 4
    MaxRequests = 3
    MaxFaults = 1
    None = None
SYMMETRY SetupSymmetry
INVARIANTS
    TypeOK
    LockDiscipline
    ChecksStillHold
    NoOrphanWorkspace
    NoUncataloguedWorkspace
    OneHelperPerWorkspace
    ReadyOnSuccess
CHECK_DEADLOCK FALSE
