\* Two requests and queries that succeed: what scheduling guarantees.
CONSTANTS
  Requests = {r1, r2}
  Pids = {p1, p2}
  MaxStarts = 2
  AcquireTries = 3
  ReleaseTries = 2
  IOMayFail = FALSE
  Nobody = Nobody
SPECIFICATION FairSpec
PROPERTY
  StaleLockRecovered
CHECK_DEADLOCK FALSE
