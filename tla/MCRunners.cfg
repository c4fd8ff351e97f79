CONSTANTS
    Ids = {one}
    Helpers = {h1, h2}
    None = None
    MaxRequests = 4
    MaxFaults = 1

SPECIFICATION FairSpec
INVARIANTS
    TypeOK
    OneMutation
    RepliesAreTrue
    WholeOrAbsent
    ListenersHaveRunners
    NoSilentRecord
PROPERTY RequestsEnd
CHECK_DEADLOCK FALSE
