SPECIFICATION Spec
CONSTANTS
    StopFunc = TRUE
    CollectIn = {}
    OtherDeletes = FALSE
    MaxCalls = 2
INVARIANTS
    NoDataVolumeLeft
CHECK_DEADLOCK FALSE
