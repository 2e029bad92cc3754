SPECIFICATION Spec
CONSTANTS
    Settings <- OnlyFailing
    MaxCalls = 2
PROPERTIES
    LauncherIsNotCompleted
CHECK_DEADLOCK FALSE
