\* A tree of two runs, calls under two faults, loops and shapes with crashes.
SPECIFICATION ExecutionSpec
CONSTANTS
    Parts = {"budget", "calls", "loops", "shapes"}
    Worker = {v, w}
    Nobody = Nobody
    Setups <- AllSetups
    MaxAttempts = 2
    Delay = 1
    RetryFor = 1
    AttemptFor = 1
    MaxNow = 1
SYMMETRY Symmetry
INVARIANTS
    NeverSentTwice
    HandlersKnow
    JournalIsTrue
    BudgetIsKept
    ReplayKeepsShape
CHECK_DEADLOCK FALSE
