\* A tree of three runs, holds, cancels and stops; clocks agree.
SPECIFICATION Spec
CONSTANTS
    Run = {r1, r2, r3}
    Process = {p1}
    NoRun = NoRun
    NoFence = NoFence
    LeaseMs = 1
    Skew = 0
    BackoffMs = 1
    BackoffCap = 1
    MaxInterruptions = 1
    MaxGeneration = 1
    MaxTime = 1
SYMMETRY Symmetry
INVARIANTS
    NoOrphans
PROPERTIES
    HoldIsKept
    StoppedIsFrozen

