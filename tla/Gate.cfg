SPECIFICATION FairSpec
CONSTANT
  Settings <- AllSettings
INVARIANTS
  TypeOK
  CompletedRunIsCovered
  VerdictEarned
  QuietRunCompletes
PROPERTY
  GenerationsCount
