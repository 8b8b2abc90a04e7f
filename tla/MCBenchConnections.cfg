CONSTANTS
    Times = {1, 2, 3}
    Features <- FullBuild
SPECIFICATION Spec
INVARIANTS
    TypeOK
    ResumesUsable
    AveragesFair
