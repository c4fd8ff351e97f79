SPECIFICATION MCFairSpec
CONSTANTS
    i1 = i1
    i2 = i2
    Sessions = {s1, s2}
    Inodes = {i1, i2, i3, i4}
    MaxFaults = 2
    None = None
INVARIANTS
    TypeOK
PROPERTIES
    PublishesAtomically
    NeverReplaced
    RetriesPublish
