SPECIFICATION Spec
CONSTANTS
    N_TIMES = 2
    Flights = 6
    MaxTimeouts = 1
INVARIANTS
    TypeOK
    MisleadsForAReason
    ForeignForAReason
