SPECIFICATION Spec
SYMMETRY Symmetry
CONSTANTS
  q1 = q1
  q2 = q2
  Requests = {q1, q2}
  Paths = {"a", "b"}
  Someone = Someone
  Clean = Clean
  MaxHead = 1
  Settings <- AllSettings
INVARIANTS
  TypeOK
  ActorsApart
  CompletionEarned
  OutcomeTold
CHECK_DEADLOCK FALSE
