\* The evidence an administrator's retry relies on.
SPECIFICATION Spec
CONSTANTS
  Inputs = {d1}
  Hints = {}
  Loops = {l1}
  Consumers = {c1}
  MaxFailures = 2
  MaxDefers = 0
  MaxVersion = 0
  MarginHolds = TRUE
  None = None
PROPERTIES ReleaseNeedsEffectFreeEvidence
CHECK_DEADLOCK FALSE
