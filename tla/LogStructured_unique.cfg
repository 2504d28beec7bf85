\* Two clients and the lease expiry on one key.
SPECIFICATION Spec
CONSTANTS
    Clients = {c1, c2}
    Ttl = ttl
    Keys = {k}
    Leases = {TRUE}
    MaxId = 3
    NoRow = NoRow
SYMMETRY Symmetry
INVARIANT NamePrevRevisionUnique
\* The ids are used up.
CHECK_DEADLOCK FALSE
