\* Two appends in flight, no failures.
SPECIFICATION Spec
CONSTANTS
    MaxAppends = 2
    Watchers = {}
    MaxId = 3
    NotifyCap = 1
    SubCap = 2
    BatchSize = 2
    MoreAt = 2
    WriteFails = FALSE
PROPERTY AckedRowKept
