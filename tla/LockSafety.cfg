\* Three requests, two pids with two incarnations each, queries that may fail.
CONSTANTS
  Requests = {r1, r2, r3}
  Pids = {p1, p2}
  MaxStarts = 2
  AcquireTries = 2
  ReleaseTries = 2
  IOMayFail = TRUE
  Nobody = Nobody
SPECIFICATION Spec
SYMMETRY Symmetry
INVARIANTS
  TypeOK
  HolderNamedByFile
PROPERTIES
  RemovalJustified
  ImplementsExclusiveUse
CHECK_DEADLOCK FALSE
