SPECIFICATION FairSpec
CONSTANTS
    N_TIMES = 3
    Exchange = 2
INVARIANTS
    LostForAReason
PROPERTIES
    Terminates
CHECK_DEADLOCK FALSE
