\* Two posts of one event or of none, two requests open at the CRM, one change of
\* the endpoint, one lost answer, kill, failure or restored backup, a fair sender.
SPECIFICATION FairSpec
CONSTANTS
  Posts = {p1, p2}
  Events = {e1}
  Slots = {s1, s2}
  MaxRevisions = 2
  MaxJobs = 2
  MaxFaults = 1
  None = None
INVARIANTS
  TypeOK
  EffectsAtMostOnce
  DoneMeansRecorded
  RotationKeepsAccepted
PROPERTIES
  EveryPostSettles
CHECK_DEADLOCK FALSE
