\* Three messages of every kind, two consumers, one fault.
SPECIFICATION FairSpec
CONSTANTS
  MaxMessages = 3
  Consumers = {c1, c2}
  MaxFaults = 1
  None = None
INVARIANTS
  TypeOK
  RunAtMostOnce
  ClaimsAreKept
PROPERTIES
  EveryInputRuns
CHECK_DEADLOCK FALSE
