SPECIFICATION FairInput
CONSTANTS
  d1 = d1
  d2 = d2
  s1 = s1
  h1 = h1
  Delegates = {d1, d2}
  Senders = {s1}
  Humans = {h1}
  Situations <- AllSituations
  Nobody = Nobody
INVARIANTS
  InputTypeOK
  SentAlone
  StartedOwnTurn
PROPERTIES
  HandsOff
  InputReturns
CHECK_DEADLOCK FALSE
