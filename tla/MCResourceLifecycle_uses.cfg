SPECIFICATION Spec
CONSTANTS
    Settings <- MCSettings
    MaxSignals = 3
INVARIANTS
    TypeOK
    NoLeftover
    DeletesOnlyItsOwn
PROPERTIES
    Ends
CHECK_DEADLOCK FALSE
