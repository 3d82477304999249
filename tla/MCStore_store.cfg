\* Three calls over three keys, two attempts each; three callers of each session;
\* two listed runs, two workers' rows.
SPECIFICATION StoreSpec
CONSTANTS
    Call = {c1, c2, c3}
    Key = {1, 2, 3}
    Missing = Missing
    Value = {"old", "new"}
    Program <- Programs
    MaxAttempts = 2
SYMMETRY Symmetry
INVARIANTS
    SqliteIsClean
    PostgresIsClean
    ReportsAreTrue
PROPERTIES
    Serializable
CHECK_DEADLOCK FALSE
