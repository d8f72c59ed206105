SPECIFICATION MCSpec
CONSTANTS
    R = R
    D = D
    C = C
    A = A
    T = T
    X = X
    Parts = {"all"}
    Paths <- WidePaths
    Roots = {R}
    Sub <- WideSub
    Excluded = {X}
    Kinds <- WideKinds
    Aliases = {A}
    MaxPaths = 1
    Base = 10
    MaxEvents = 2
    MaxFaults = 1
    MaxCrashes = 0
CHECK_DEADLOCK FALSE
VIEW PartView
INVARIANTS FilesKept NoScopeFailure
