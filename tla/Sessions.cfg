SPECIFICATION FairSpec
CONSTANTS
  a1 = a1
  a2 = a2
  a3 = a3
  d1 = d1
  hA = hA
  hB = hB
  None = None
  Running = Running
  Runs = {a1, a2, a3}
  Readers = {d1}
  Hosts = {hA, hB}
  Settings <- AllSettings
  MaxChildren = 3
INVARIANTS
  TypeOK
  ChildrenAccounted
PROPERTIES
  MappingFollowsChild
  CallsEnd
CHECK_DEADLOCK FALSE
