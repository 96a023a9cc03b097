\* An input and a hint, fair loops, consumers and maintenance, Redis failing at any time, host stalls.
SPECIFICATION FairSpec
CONSTANTS
  Inputs = {d1}
  Hints = {d2}
  Loops = {l1}
  Consumers = {c1}
  MaxFailures = 1
  MaxDefers = 1
  MaxVersion = 0
  MarginHolds = FALSE
  None = None
PROPERTIES EveryInputSettles EveryHintReachesRedis ReviewLeftByAdminOnly
CHECK_DEADLOCK FALSE
