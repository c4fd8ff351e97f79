SPECIFICATION Spec
CONSTANTS
    Writers = {w1, w2}
    IDs = {1, 2}
    Names = {n}
    URLs = {u1}
    Notes = {m}
    Bad = Bad
    MaxCrashes = 2
    Torn = Torn
    None = None
INVARIANTS
    TypeOK
    ReadsBack
PROPERTIES
    ImplementsAtomicCatalog
