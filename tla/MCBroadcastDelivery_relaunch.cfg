\* A launch decided on an old status, and what it does to the recipients.
SPECIFICATION Spec
CONSTANTS
  Chats = {c1, c2}
  Runs = {w1, w2}
  Operators = {o1}
  Concurrency = 1
  MaxSnapshots = 2
  MaxCrashes = 1
  None = None
SYMMETRY ChatSymmetry
INVARIANT OncePerCampaign
CHECK_DEADLOCK FALSE
