\* One version, `after' and `every' with buffered slots; pauses and stops.
SPECIFICATION TriggerSpec
CONSTANTS
    Parts = {"queue", "race"}
    v1 = v1
    v2 = v2
    Racer = {u, v}
    None = None
    Version = {v1}
    Digest <- QueueDigest
    Arms <- QueueArms
    Overlap <- QueueOverlap
    CatchupOf <- QueueCatchup
    Threshold = 2
    Ceiling = 2
    Every = 1
    After = 1
    At = 1
    RetryMs = 1
    RetryMaxMs = 2
    Worker = {w}
    Host = {h1}
    Operator = {"pause", "stop"}
    MaxEpoch = 2
    MaxTime = 1
SYMMETRY Symmetry
INVARIANTS
    NoForgottenSlot
    ScheduleIsSound
PROPERTIES
    CeilingHolds
    FiringsAreSound
    RacesAreSound
