SPECIFICATION FairSpec
CONSTANTS
    MaxLogins = 2
    MaxFaults = 2
INVARIANTS
    TypeOK
    ResetsWhatItBroke
PROPERTIES
    DeletesOnlyChecked
    RetriesDelete
CHECK_DEADLOCK FALSE
