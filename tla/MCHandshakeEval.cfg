CONSTANTS
    N_TIMES <- TwoThenOne
    Flights = 3
SPECIFICATION FairSpec
INVARIANTS
    TypeOK
    MeasuresItsHandshake
    CapturesStopped
    LeftOverForAReason
PROPERTIES
    RefusedForAReason
    Terminates
