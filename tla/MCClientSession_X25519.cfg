CONSTANTS
    Features <- FullBuild
    Options <- AllOptions
SPECIFICATION Spec
INVARIANTS
    X25519Offered
