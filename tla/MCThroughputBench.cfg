CONSTANTS
    BufferSize = 3
    Totals = {1, 3, 7, 8}
SPECIFICATION FairSpec
INVARIANTS
    TypeOK
    NoFalseAlarm
PROPERTIES
    Terminates
