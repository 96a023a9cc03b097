\* One dialog with two updates whose rows are dated by a clock and committed in
\* any order, two intake loops.
SPECIFICATION Spec
CONSTANTS
  Updates = {1, 2}
  Peer <- MCPeer
  Workers = {w1, w2}
  MaxAttempts = 1
  MaxStamp = 1
  MarginHolds = TRUE
SYMMETRY WorkerSymmetry
INVARIANTS OneLoopPerUpdate PeerOrder OneHandlerPerPeer
PROPERTIES NoAcceptedUpdateLost
CHECK_DEADLOCK FALSE
