\* One process; a key without and a key with leases, in one folder.
SPECIFICATION Spec
CONSTANTS
    n1 = n1
    k1 = k1
    folder = folder
    Nodes = {n1}
    Writers = {c1, c2}
    Readers = {r1}
    NodeOf <- MCNodeOf
    Watchers = {w}
    Keys = {k1, k2}
    Plain = {k1}
    FolderOf <- MCFolderOf
    NoFolder = NoFolder
    Bucket <- MCBucket
    History = 2
    MaxSeq = 5
    MaxReading = 1
SYMMETRY ClientSymmetry
INVARIANTS
    TypeOK
    WatchAscending
    WatchMissesOnlyReplaced
    ListCoversRevision
    CreateRevisionIsCreate
PROPERTY AtomicStore
\* The bound on the entries is used up.
CHECK_DEADLOCK FALSE
