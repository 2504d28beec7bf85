\* Two nodes take inserts.
SPECIFICATION Spec
CONSTANTS
    Nodes = {n1, n2}
    Writers = {n1, n2}
    Threads = {t1}
    Names = {a}
    Disposed = Disposed
    NoRow = NoRow
    MaxIdBound = 2
    MaxClock = 2
INVARIANT IdsUnique
CHECK_DEADLOCK FALSE
