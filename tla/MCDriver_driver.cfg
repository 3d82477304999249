\* Two workers, one run, two events of any kind; one event where it forks.
SPECIFICATION DriverSpec
CONSTANTS
    Worker = {w1, w2}
    Run = {r1}
    Call = {a}
    Calls = {a, b}
    Mute = {}
    Slots = 1
    Permits = 1
    MaxInterruptions = 2
    Budget <- Once
    MaxEvents = 2
INVARIANTS
    OneDriveAtATime
PROPERTIES
    HoldKeepsCalls
    WorkEnds
CHECK_DEADLOCK FALSE
