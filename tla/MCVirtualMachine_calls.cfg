SPECIFICATION Spec
CONSTANTS
    Settings <- MCSettings
    MaxCalls = 3
INVARIANTS
    TypeOK
    StartedRuns
    StoppedIsGone
    RestartedIsNew
    PausedIsPaused
PROPERTIES
    LauncherRuns
    Answered
CHECK_DEADLOCK FALSE
