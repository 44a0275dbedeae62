SPECIFICATION Spec
SYMMETRY Symmetry
CONSTANTS
  r1 = r1
  r2 = r2
  Runs = {r1, r2}
  NoRecord = NoRecord
  Settings <- AllSettings
INVARIANTS
  TypeOK
  ReadersKeepTheirFile
  NobodyLeftAtWork
  SettledLeavesNothing
CHECK_DEADLOCK FALSE
