SPECIFICATION Spec
CONSTANTS
    Names = {a, b}
    MaxId = 3
    Modes = {"t"}
    Limits = {0, 1, 2}
SYMMETRY NameSymmetry
INVARIANTS
    TypeOK
    ResultIsSql
    NewestPerName
\* The handler returns after "done".
CHECK_DEADLOCK FALSE
