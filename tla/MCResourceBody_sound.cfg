SPECIFICATION Spec
CONSTANTS
  Classes <- All
  Lost <- KnownLost
  Stale <- KnownStale
  Altering <- KnownAltering
  MaxCalls = 2
INVARIANTS
  GivenIsSent
  BodyIsCurrent
  DocumentIsSent
CHECK_DEADLOCK FALSE
