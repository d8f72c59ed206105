SPECIFICATION MCSpec
CONSTANTS
    Names = {a, b}
    Metas = {m1, m2}
    Absent = Absent
    MaxId = 2
    MaxRevision = 4
    MaxIdent = 1
    ServiceMaxRevision = 2
    Interval = 2
    Retention = 1
    MaxSpan = 3
    MaxIds = 2
    MaxDeadRecords = 1
    MaxDeadStrings = 2
    MaxDiffChanges = 2
    Searches = {s1, s2}
    Reloads = {}
    Statuses = {p1}
    MaxSearches = 2
    Requested = "auto"
    PackedLimit = 1
    MaxFaults = 1
VIEW PartView
SYMMETRY Symmetry
CHECK_DEADLOCK FALSE
INVARIANTS
    DbTypeOK JournalComplete JournalRetained JournalBounded
    IndexIsSnapshot ServiceOK SlotsExact
PROPERTIES AnswersNotOlder StatusTruthful
