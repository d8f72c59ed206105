SPECIFICATION MCSpec
CONSTANTS
    Clients = {"c1", "c2"}
    Messages <- MCMessages
    HasToken = TRUE
    MaxRequests = 2
    MaxSearches = 1
    HeaderLimit = 8
    Buffer = 3
    TotalTimeout = 1
    Crowd = {"c1", "c2", "c3"}
    CrowdMessages <- MCCrowdMessages
    CrowdHeader = 2
    Pending = 2
    PerWindow = 2
    Timers = {"t1", "t2"}
    MaxRevision = 2
    MaxTime = 3
    MaxFlushes = 3
    MaxMade = 6
    Writers = {"w1", "w2"}
    FileBytes = 3
    Sizes = {1, 2}
    MaxRecords = 6
    MaxFiles = 4
    Window = 2
    Records = 3
    Reserved = 1
    MaxCalls = 5
    MaxTicks = 4
    MaxBatched = 4
    RootCount = 2
    ExclusionLimit = 3
    MaxEvents = 2
CHECK_DEADLOCK FALSE
INVARIANTS
    ConnectionsSound
    AuditSound
    LogsKept
    TriggersTold
    StreamSafe
PROPERTIES
    EveryConnectionEnds
