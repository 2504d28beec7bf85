\* One node takes the inserts, both read, fill and dispose.
SPECIFICATION Spec
CONSTANTS
    Nodes = {n1, n2}
    Writers = {n1}
    Threads = {t1, t2}
    Names = {a}
    Disposed = Disposed
    NoRow = NoRow
    MaxIdBound = 3
    MaxClock = 3
SYMMETRY ThreadSymmetry
INVARIANTS
    TypeOK
    IdsUnique
    Convergence
    RevisionCoversRows
PROPERTY CurrentRevisionMonotone
\* A database without further requests stops.
CHECK_DEADLOCK FALSE
