SPECIFICATION Spec
CONSTANTS
    Names = {a}
    MaxId = 2
    Modes = {"f"}
    Limits = {0}
INVARIANTS
    ResultIsSql
\* The handler returns after "done".
CHECK_DEADLOCK FALSE
