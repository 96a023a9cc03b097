\* Two messages, two workers, two operators, two faults.
SPECIFICATION FairSpec
CONSTANTS
  Messages = {m1, m2}
  Workers = {w1, w2}
  Operators = {o1, o2}
  MaxFaults = 2
  None = None
INVARIANTS
  TypeOK
  SentOnceOrCancelled
  FilesWhileNeeded
PROPERTIES
  EveryMessageSettles
CHECK_DEADLOCK FALSE
