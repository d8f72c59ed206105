SPECIFICATION MCSpec
CONSTANTS
    Star = 42
    Question = 63
    Slash = 47
INVARIANTS
    MatchingExact
    OrderExact
    SearchExact
    CandidatesExact
    QueryKept
