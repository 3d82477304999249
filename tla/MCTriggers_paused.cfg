\* An `after' schedule under a pause.
SPECIFICATION TriggerSpec
CONSTANTS
    Parts = {"queue"}
    v1 = v1
    v2 = v2
    Racer = {u, v}
    None = None
    Version = {v1}
    Digest <- QueueDigest
    Arms <- AfterArms
    Overlap <- QueueOverlap
    CatchupOf <- QueueCatchup
    Threshold = 2
    Ceiling = 1
    Every = 1
    After = 1
    At = 1
    RetryMs = 1
    RetryMaxMs = 2
    Worker = {w}
    Host = {}
    Operator = {"pause"}
    MaxEpoch = 1
    MaxTime = 1
INVARIANT
    AfterGoesOn
