SPECIFICATION Spec
CONSTANTS
  MaxRuns = 2
  Keep = 3
  MaxReplay = 2
  Settings <- AllSettings
INVARIANT
  TypeOK
PROPERTIES
  ImplementsEventLog
  EndShown
CHECK_DEADLOCK FALSE
