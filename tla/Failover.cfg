\* Three processes, of which one may be the restart of another; two die.
SPECIFICATION Spec
CONSTANTS
    Nodes = {a, b, c}
    Founders = {a, b}
    MaxId = 2
    MaxDeaths = 2
INVARIANTS
    TypeOK
    DeadRowIsNoticed
    SurvivorsAgree
    NextInLineIsCurrent
PROPERTY DeadRowReturns
\* Processes need not be started, and the bound on the ids is used up.
CHECK_DEADLOCK FALSE
