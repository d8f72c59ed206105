SPECIFICATION MCSpec
CONSTANTS
    R = R
    D = D
    C = C
    A = A
    T = T
    X = X
    Parts = {"all"}
    Paths <- MCPaths
    Roots = {R}
    Sub <- MCSub
    Excluded = {}
    Kinds <- MCKindsSwap
    Aliases = {}
    MaxPaths = 2
    Base = 10
    MaxEvents = 1
    MaxFaults = 1
    MaxCrashes = 1
CHECK_DEADLOCK FALSE
VIEW PartView
INVARIANT CleanupBeforeCheckpoint
