SPECIFICATION Spec
CONSTANTS
    Failing = {"write", "probe", "id"}
    MaxUpserts = 3
CHECK_DEADLOCK FALSE
INVARIANT RetryBinds
