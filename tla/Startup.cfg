\* Two processes, started three times.
SPECIFICATION Spec
CONSTANTS
    p1 = p1
    p2 = p2
    Procs = {p1, p2}
    Endpoints = {"", "postgres", "mysql", "dqlite", "nats", "jetstream", "https", "other"}
    Configs <- MCConfigs
    Histories = {0, 10}
    OldRows = {1, 2}
    MaxStarts = 3
INVARIANTS
    TypeOK
    PanicsOnlyAfterOverlap
    ServesWithItsRows
    MigratedWhole
PROPERTY StartEnds
\* Processes need not be started again.
CHECK_DEADLOCK FALSE
