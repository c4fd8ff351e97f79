CONSTANTS
    Forms = {"exit"}
    Identities = {a, b}
    None = None
    Chosen = Chosen
    Timer = Timer
    MaxStarts = 1
    MaxRequests = 1
    MaxChanges = 2
SPECIFICATION Spec
INVARIANT EachIdentityIsRefreshed
CHECK_DEADLOCK FALSE
