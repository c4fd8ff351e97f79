SPECIFICATION Spec
CONSTANTS
    MaxLogins = 0
    MaxFaults = 0
INVARIANTS
    NoFailedManagerLeft
CHECK_DEADLOCK FALSE
