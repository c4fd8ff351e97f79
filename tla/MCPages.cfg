CONSTANTS
    Forms = {"exit"}
    Identities = {a}
    None = None
    Chosen = Chosen
    Timer = Timer
    MaxStarts = 2
    MaxRequests = 1
    MaxChanges = 1
    Projects = {p1, p2}
    Ids = {r1}
    Processes = {c1, c2}
    MaxGenerations = 3
    MaxFaults = 1
SPECIFICATION PagesSpec
INVARIANTS
    PagesTypeOK
    ReadsDoNotOverlap
    NothingOlderThanSaved
PROPERTIES
    DraftsAreKept
    ObserverGoesOn
    PagesEnd
    StoresKeepPromise
    RemovesWhatIsShown
    EvidenceIsKept
    AppliesWhatItRead
CHECK_DEADLOCK FALSE
