SPECIFICATION Spec
CONSTANTS
  r1 = r1
  r2 = r2
  r3 = r3
  p1 = p1
  p2 = p2
  Runs = {r1, r2, r3}
  Pids = {p1, p2}
  MaxStarts = 2
  Settings <- AllSettings
SYMMETRY Symmetry
INVARIANTS
  TypeOK
  RecordsFinal
PROPERTY
  LiveRunNotFinalised
CHECK_DEADLOCK FALSE
