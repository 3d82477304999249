\* One run, two processes with skewed clocks, several takeovers.
SPECIFICATION Spec
CONSTANTS
    Run = {r1}
    Process = {p1, p2}
    NoRun = NoRun
    NoFence = NoFence
    LeaseMs = 3
    Skew = 1
    BackoffMs = 1
    BackoffCap = 2
    MaxInterruptions = 3
    MaxGeneration = 3
    MaxTime = 6
SYMMETRY Symmetry
INVARIANTS
    NoTakeoverWhileActing
    DueIsClaimable
    GivesUp
PROPERTIES
    LostOwnershipIsFinal

