CONSTANTS
    MacsecFirst = 3
    MacsecSize = 120
    Sizes = {0, 7, 200}
    MaxPackets = 6
    Directories <- AllDirectories
SPECIFICATION AnalysisSpec
INVARIANTS
    AnalysisTypeOK
    FiguresRight
    AllOrNothing
