CONSTANTS
    Flights = 2
    MaxTimeouts = 2
    MaxResends = 1
SPECIFICATION FairSpec
INVARIANTS
    TypeOK
    SuccessMeansAnswered
    GivesUpForAReason
PROPERTIES
    Terminates
