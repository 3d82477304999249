\* Lists of three tasks, one worker and two registries, dry runs of two
\* or three tasks, replays of two branches, texts of three characters.
SPECIFICATION DefinitionsSpec
CONSTANTS
    Null = Null
    main = main
    callee = callee
    fn1 = fn1
    fn2 = fn2
    s1 = s1
    s2 = s2
    Length = 3
    Tasks <- AllTasks
    Extensions <- Leaving
INVARIANTS
    AcceptedIsSafe
    RegistryIsTrue
    RehearsalIsTrue
    RedactionIsExact
PROPERTIES
    RejectedIsTrapped
CHECK_DEADLOCK FALSE
