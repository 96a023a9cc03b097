\* One dialog, retries, fair loops and maintenance, crashes and host stalls at any
\* time; AtMostOnceWork.
SPECIFICATION FairSpec
CONSTANTS
  Updates = {1, 2}
  Peer <- MCPeer
  Workers = {w1}
  MaxAttempts = 2
  MaxStamp = 0
  MarginHolds = FALSE
INVARIANTS TypeOK HandledAtMostOnce NoReplayAfterKnownEffects
PROPERTIES ReviewIsFinal EveryUpdateSettles ImplementsAtMostOnceWork
CHECK_DEADLOCK FALSE
