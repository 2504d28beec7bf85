\* Two keys and three writes beside a cache that lists one key a page and
\* watches twice.
SPECIFICATION Spec
CONSTANTS
    Clients = {c1}
    Keys = {a, b}
    CompactKey = compact_rev_key
    Limit = 1
    MaxLog = 4
    MaxWatch = 2
INVARIANTS
    TypeOK
    TxnIsEtcd
    
    CloseCancels
PROPERTY CloseEnds
\* The stream ends and the bound on the rows is used up.
CHECK_DEADLOCK FALSE
