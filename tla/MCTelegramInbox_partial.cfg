\* The documented "never retry after a partial commit" against a lost
\* acknowledgement of such a commit.
SPECIFICATION Spec
CONSTANTS
  Updates = {1}
  Peer <- MCPeer
  Workers = {w1}
  MaxAttempts = 2
  MaxStamp = 0
  MarginHolds = TRUE
INVARIANT NoReplayAfterPartialCommit
CHECK_DEADLOCK FALSE
