\* One run in a fork, one that joins its child, two that compete; two
\* publishers, three events (one forged), nine strategies, two workers.
SPECIFICATION EventsSpec
CONSTANTS
    r1 = r1  r2 = r2  e1 = e1  e2 = e2
    p = p  q = q  v = v  w = w
    Run = {r1}
    Parent = {}
    Event = {e1, e2}
    TypeOf <- ForkTypes
    Listen = {"l", "m"}
    Routes <- ForkRoutes
    Takes <- ForkTakes
    Deadline <- ForkDeadline
    MailboxMs = 1
    MaxCopies = 2
    MaxTime = 1
    Star = "*"
    None = None
SYMMETRY Symmetry
INVARIANTS
    NoLostWakeup
    CountersAgree
    RunsAreHeard
    HandledOnce
    IngressIsSound
    ListenIsSound
    NoticesAreSound
PROPERTIES
    ListensAreKept
    KeptForItsTime
CHECK_DEADLOCK FALSE
