SPECIFICATION Spec
CONSTANTS
    StopFunc = TRUE
    CollectIn = {"use"}
    OtherDeletes = TRUE
    MaxCalls = 2
INVARIANTS
    TypeOK
    SuccessMeansImported
    NoPvcLeft
PROPERTIES
    Ends
CHECK_DEADLOCK FALSE
