SPECIFICATION Spec
CONSTANTS
    Rates <- MCRates
    N_TIMES = 2
    Protocols <- MCProtocols
INVARIANTS
    MisfiledForAReason
    IncompleteForAReason
CHECK_DEADLOCK FALSE
