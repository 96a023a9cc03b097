\* Two workers, a message's handler, a button's and a manager; three acts of users and managers,
\* two failures; a funnel with a loop, a timeout, a delay and three ways to end.
SPECIFICATION FairSpec
CONSTANTS
  hello = hello
  ask = ask
  pause = pause
  bye = bye
  done = done
  handoff = handoff
  Steps <- MCSteps
  Kind <- MCKind
  Script <- MCScript
  Follow <- MCFollow
  First = hello
  MaxJobs = 2
  Workers = {w1, w2}
  Inbounds = {u1, b1}
  Callbacks = {b1}
  Managers = {m1}
  MaxAttempts = 2
  MaxActs = 3
  MaxFaults = 2
  None = None
INVARIANTS TypeOK NoRepeatUnlessDisturbed StallIsAccountedFor
PROPERTIES PausedGoesQuiet
CHECK_DEADLOCK FALSE
