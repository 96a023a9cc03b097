\* A start dispatch (it never defers), two dispatch loops, two ARQ slots.
SPECIFICATION Spec
CONSTANTS
  Inputs = {d1}
  Hints = {}
  Loops = {l1, l2}
  Consumers = {c1, c2}
  MaxFailures = 3
  MaxDefers = 0
  MaxVersion = 2
  MarginHolds = TRUE
  None = None
SYMMETRY ActorSymmetry
INVARIANTS TypeOK OneConsumerPerDispatch CompletedAtMostOnce
PROPERTIES AutomaticRetryIsClean ImplementsAtMostOnceWork
CHECK_DEADLOCK FALSE
