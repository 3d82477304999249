\* An at-most-once call of an attempt that its deadline cut off.
SPECIFICATION ExecutionSpec
CONSTANTS
    Parts = {"calls"}
    Worker = {v, w}
    Nobody = Nobody
    Setups <- Deadlines
    MaxAttempts = 2
    Delay = 1
    RetryFor = 1
    AttemptFor = 1
    MaxNow = 1
INVARIANTS
    SentAtMostOnce
CHECK_DEADLOCK FALSE
