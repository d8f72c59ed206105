SPECIFICATION MCSpec
CONSTANTS
    R = R
    D = D
    C = C
    A = A
    T = T
    X = X
    Parts = {"crash", "live"}
    Paths <- MCPaths
    Roots = {R}
    Sub <- MCSub
    Excluded = {}
    Kinds <- MCKinds
    Aliases = {}
    MaxPaths = 2
    Base = 10
    MaxEvents = 2
    MaxFaults = 2
    MaxCrashes = 1
CHECK_DEADLOCK FALSE
VIEW PartView
INVARIANTS TypeOK NoLostChange CrashSafe RetryArmed
PROPERTIES CheckpointAdvances Recovers
