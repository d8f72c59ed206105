SPECIFICATION MCSpec
CONSTANTS
    FieldCount = 2
    HalfRange = 2
    INLINE_SPAN = 2
    Capacity = 5
    MaxRows = 2
    NoValue = NoValue
    NoExt = NoExt
    NoRow = NoRow
INVARIANTS
    BlockExact
    PoolSound
    RowsExact
