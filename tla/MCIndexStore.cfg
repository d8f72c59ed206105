SPECIFICATION MCSpec
CONSTANTS
    Files <- MCFiles
    Roots = {"r1", "r2"}
    Patterns = {"cache", "name"}
    RootOf <- MCRootOf
    PatternOf <- MCPatternOf
    Requests <- MCRequests
    DefaultRequest <- MCDefault
    MaxChanges = 2
    MaxCrashes = 1
    MaxFailures = 1
    MaxClicks = 1
    RowValues = {0, 1}
    ControlValues = {0, 1}
    MaxWrites = 2
    MaxInterference = 3
    Failing = {"write", "probe", "id"}
    MaxUpserts = 3
    Processes = {"watch", "serve", "command"}
    Paths = {"p", "q"}
    AsciiPaths = {"q"}
    MaxId = 2
    MaxUpdates = 3
    None = None
    Names <- MCNames
    MaxDepth = 3
    RootSets <- MCRootSets
    Missing <- MCMissing
    Links <- MCLinks
    UserPatterns <- MCUserPatterns
    Runtime <- MCRuntime
    Relatives <- MCRelatives
    DbDir <- MCDbDir
    Limit = 2
    Universe <- MCUniverse
    SweepRequests <- MCSweepRequests
    Tables <- MCTables
    Batch = 2
    PageBits = 2
    MaxPages = 2
    MaxScans = 2
    MaxClock = 2
CHECK_DEADLOCK FALSE
INVARIANTS
    RebuildJustified
    SweepExact
    StatementSafe
    ExclusionsExact
PROPERTIES
    CopySafe
    MigrationSafe
    Refreshed
