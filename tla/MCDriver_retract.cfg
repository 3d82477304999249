\* The same, for what the documentation says of holds.
SPECIFICATION DriverSpec
CONSTANTS
    Worker = {w1, w2}
    Run = {r1}
    Call = {a}
    Calls = {a, b}
    Mute = {}
    Slots = 1
    Permits = 1
    MaxInterruptions = 2
    Budget <- Once
    MaxEvents = 2
PROPERTIES
    NotRetracted
CHECK_DEADLOCK FALSE
