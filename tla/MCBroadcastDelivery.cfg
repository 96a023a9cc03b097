\* Two recipients, two runs, one launch, one crash, failed statement or lost lock
\* connection, fair polling.
SPECIFICATION FairSpec
CONSTANTS
  Chats = {c1, c2}
  Runs = {w1, w2}
  Operators = {o1}
  Concurrency = 1
  MaxSnapshots = 1
  MaxCrashes = 1
  None = None
INVARIANTS
  TypeOK
  OnceUnlessOverlapped
  StopLimitsNewRecipients
  CompletedMeansSettled
PROPERTIES
  CampaignEnds
CHECK_DEADLOCK FALSE
