SPECIFICATION FairProcess
CONSTANTS
  Turns = {t1, t2}
  Reads = {r1}
  Closers = {x1}
  t1 = t1
  t2 = t2
  r1 = r1
  x1 = x1
  NotesPerTurn = 1
  QueueSize = 2
  Modes <- Working
  NoOne = NoOne
INVARIANTS
  ProcessTypeOK
  JournalTells
PROPERTY
  CompletionSeen
CHECK_DEADLOCK FALSE
