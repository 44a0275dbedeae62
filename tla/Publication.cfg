SPECIFICATION Spec
CONSTANTS
  p1 = p1
  p2 = p2
  c1 = c1
  c2 = c2
  c3 = c3
  c4 = c4
  Publishers = {p1, p2}
  Commits = {c1, c2, c3, c4}
  Below <- History
  Absent = Absent
  Unsaid = Unsaid
  Nothing = Nothing
  MaxMoves = 2
  Settings <- AllSettings
INVARIANTS
  TypeOK
  CompletedIsVerified
  ChangeAdmitted
PROPERTY NothingLost
CHECK_DEADLOCK FALSE
