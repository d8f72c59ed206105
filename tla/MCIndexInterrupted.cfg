SPECIFICATION Spec
CONSTANTS
    Files <- MCFiles
    Roots = {"r1", "r2"}
    Patterns = {"cache", "name"}
    RootOf <- MCRootOf
    PatternOf <- MCPatternOf
    DefaultRequest <- MCDefault
    Requests <- MCRequests
    MaxChanges = 0
    MaxCrashes = 1
    MaxFailures = 0
    MaxClicks = 1
CHECK_DEADLOCK FALSE
PROPERTY Refreshed
