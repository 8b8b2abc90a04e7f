CONSTANTS
    Features <- FullBuild
    Options <- AllOptions
SPECIFICATION FairSpec
INVARIANTS
    TypeOK
    StaleCallsConfined
    ReturnLeavesNothing
    ZeroMeansAnswered
    ResumesWithTicket
    FirstSharesAsAsked
PROPERTIES
    Terminates
    ContractSpec
