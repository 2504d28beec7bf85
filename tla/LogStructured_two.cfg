\* Two clients and the lease expiry on two keys.
SPECIFICATION Spec
CONSTANTS
    Clients = {c1, c2}
    Ttl = ttl
    Keys = {k1, k2}
    Leases = {TRUE}
    MaxId = 3
    NoRow = NoRow
SYMMETRY Symmetry
INVARIANTS
    TypeOK
    NoLostUpdateInSequence
    CreateRevisionIsCreate
\* The ids are used up.
CHECK_DEADLOCK FALSE
