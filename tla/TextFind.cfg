SPECIFICATION Spec
CONSTANTS
    Star = 42
    Question = 63
    Bytes = {98, 99}
    ShortMax = 3
    Lanes = 3
    Factor = 1
    HayMax = 2
    NeedleMax = 2
    GlobHayMax = 3
    GlobMax = 3
INVARIANT GlobIsWildcard
