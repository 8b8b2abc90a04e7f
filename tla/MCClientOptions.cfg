SPECIFICATION OptionsSpec
CONSTANTS
    Builds <- MCBuilds
    CommandLines <- MCCommandLines
INVARIANTS
    OptionsTypeOK
    HandsOverAccepted
    MeansWhatItSays
    OutOfRangeOnlyWhenCut
CHECK_DEADLOCK FALSE
