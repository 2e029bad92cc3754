SPECIFICATION Spec
CONSTANTS
    Settings <- MCSettings
    MaxReplicas = 3
INVARIANTS
    TypeOK
    DoneMeansReady
    DoneMeansNone
PROPERTIES
    NotMissed
CHECK_DEADLOCK FALSE
