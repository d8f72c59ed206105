SPECIFICATION MCSpec
CONSTANTS
    Names = {a}
    Metas = {m1}
    Absent = Absent
    MaxId = 1
    MaxRevision = 2
    MaxIdent = 2
    Interval = 1
    Retention = 1
    MaxSpan = 2
    MaxIds = 1
    MaxDeadRecords = 1
    MaxDeadStrings = 1
    MaxDiffChanges = 1
    Searches = {s1}
    Reloads = {r1}
    Statuses = {}
    MaxSearches = 1
    Requested = "auto"
    PackedLimit = 1
    MaxFaults = 1
CHECK_DEADLOCK FALSE
PROPERTIES Implements EveryRequestAnswered
