\* Two appends in flight, one watcher with a channel of one item.
SPECIFICATION Spec
CONSTANTS
    MaxAppends = 2
    Watchers = {w1}
    MaxId = 3
    NotifyCap = 1
    SubCap = 1
    BatchSize = 2
    MoreAt = 2
    WriteFails = TRUE
INVARIANTS
    TypeOK
    EveryRevisionAccounted
    MissedOnlyInFlight
    StreamAscending
PROPERTY CatchesUp
