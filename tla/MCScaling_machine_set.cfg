SPECIFICATION Spec
CONSTANTS
    Settings <- OnlyScaledMachineSet
    MaxReplicas = 3
INVARIANTS
    DoneMeansReady
CHECK_DEADLOCK FALSE
